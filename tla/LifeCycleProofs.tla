---------------------------- MODULE LifeCycleProofs ----------------------------
(***************************************************************************)
(* The life cycles of the clusters that the server keeps in an entity, TKGm *)
(* clusters (T) and native clusters of RDE 1.x (X), and of the legacy ones *)
(* (L).  For each of them an inductive invariant, and that every step of   *)
(* the service keeps it.                                                   *)
(*                                                                         *)
(* An invariant has a clause for each request (Local: what the request     *)
(* itself keeps, Create, Delete, Alone: what it knows of the cluster) and  *)
(* some for them all (Order: which requests run together; Linked, Exposed  *)
(* and Upgrade: what the entity and the vApp have in common).  A summary   *)
(* of a step of request o says what it leaves of the cluster and of o:     *)
(* every action of the service is shown to do what the summary says, once  *)
(* for o, and one lemma shows that such a step keeps the invariant, for    *)
(* the other requests too.                                                 *)
(***************************************************************************)
EXTENDS LifeCycles, TLAPS

\* What request o asks.
Kind(o) == req[o].kind

-----------------------------------------------------------------------------
(***************************************************************************)
(* TKGm clusters.  The invariants of one request, by what it keeps itself: *)
(***************************************************************************)
\* Where the threads of a request of each kind may be.
TkgmCalls  == {"makeVapp", "oauth", "controlPlane", "link", "workers", "record"}
TkgmCreates == {"get", "set", "abort", "fail", "rollback", "deleteRule", "undo", "sync",
                "error", "err", "ok", "done"} \cup TkgmCalls
TkgmUpdates == {"get", "set", "monitor", "add", "del", "unexpose", "finish", "fail", "sync",
                "error", "err", "ok", "done"}
TkgmDeletes == {"get", "set", "deleteVapp", "revoke", "deleteRule", "fail", "error", "err",
                "ok", "done"}
TkgmForced  == {"get", "rights", "deleteRule", "forget", "error", "err", "ok", "done"}
TkgmNodes   == {"get", "set", "del", "finish", "fail", "sync", "error", "err", "ok", "done"}
Refused     == {"get", "error", "ok", "done"}

TkgmPath(kind) == CASE kind = "create"      -> TkgmCreates
                    [] kind = "update"      -> TkgmUpdates
                    [] kind = "delete"      -> TkgmDeletes
                    [] kind = "forceDelete" -> TkgmForced
                    [] kind = "deleteNodes" -> TkgmNodes
                    [] kind = "info"        -> Refused

\* The requests that change the number of workers, each in a thread of its own and its child.
Resizes(o) == Kind(o) \in {"update", "deleteNodes"}

TkgmLocal(o) ==
  /\ pc[o] = "idle" => req[o] = Absent /\ mem[o] = NoMemory /\ task[o] = "NONE"
  /\ pc[o] # "idle" => req[o] \in T!Requests /\ pc[o] \in TkgmPath(Kind(o))
  /\ pc[o] = "done" \/ mem[o].error => task[o] \in Terminal
  /\ pc[o] # "idle" /\ ~Resizes(o) =>
       ~mem[o].child /\ (task[o] \in Terminal => pc[o] = "done")
  /\ mem[o].undo =>
       Kind(o) = "create" /\ pc[o] \in {"fail", "rollback", "deleteRule", "undo", "err", "done"}
  /\ mem[o].undo /\ pc[o] # "fail" => ~mem[o].tok

(***************************************************************************)
(* And those that relate it to the cluster:                                *)
(***************************************************************************)
\* Request o is a create.
Creates(o) == pc[o] # "idle" /\ Kind(o) = "create"

TkgmCreate(o) == Creates(o) =>
  /\ pc[o] \in {"get", "set", "makeVapp"} => vapp = Absent
  /\ pc[o] \in {"get", "set", "makeVapp", "oauth"} => ~token
  /\ pc[o] \in {"get", "set", "makeVapp", "oauth", "controlPlane"} => ~rule
  /\ rule => req[o].expose
  /\ req[o].expose /\ pc[o] \in {"link", "workers", "record"} => rule
  /\ faults = 0 /\ token /\ (pc[o] \in TkgmCalls \/ mem[o].undo) => mem[o].tok
  /\ mem[o].undo /\ faults = 0 =>
       /\ pc[o] \in {"deleteRule", "undo", "err", "done"} => vapp = Absent
       /\ pc[o] \in {"undo", "err", "done"} => ~rule
       /\ pc[o] \in {"err", "done"} => ~Exists

TkgmDelete(o) ==
  pc[o] # "idle" /\ Kind(o) = "delete" /\ mem[o].linked /\ faults = 0 =>
    /\ pc[o] \in {"revoke", "deleteRule", "ok"} \/ task[o] = "SUCCESS" => vapp = Absent
    /\ pc[o] \in {"deleteRule", "ok"} \/ task[o] = "SUCCESS" => ~token
    /\ (pc[o] = "ok" \/ task[o] = "SUCCESS") /\ mem[o].exposed => ~rule

\* The entity is as the create found it.
PreCreated == Exists => rde.state = "PRE_CREATED"
TkgmOrder ==
  /\ \A o \in Ops : Creates(o) =>
       /\ pc[o] # "done" => PreCreated
       /\ \A p \in Ops \ {o} : pc[p] # "idle" =>
            /\ Kind(p) # "create"
            /\ pc[o] # "done" => Kind(p) \in {"update", "info"} /\ pc[p] \in Refused
  /\ ~Exists /\ (\A o \in Ops : pc[o] = "idle") => vapp = Absent /\ ~token /\ ~rule

TkgmLinked ==
  Exists => /\ rde.exposed => rde.linked
            /\ \A o \in Ops : mem[o].exposed => rde.linked

\* The rule goes before the entity says so, or before the entity goes.
Unexposing(o) ==
  \/ pc[o] = "finish" /\ T!Unexposes(o)
  \/ pc[o] = "ok" /\ Kind(o) = "delete"
  \/ pc[o] \in {"forget", "undo"}
TkgmExposed ==
  Exists /\ rde.exposed /\ ~rule /\ faults = 0 => \E o \in Ops : Unexposing(o)

TkgmInv ==
  /\ T!TypeOK
  /\ \A o \in Ops : TkgmLocal(o) /\ TkgmCreate(o) /\ TkgmDelete(o)
  /\ TkgmOrder /\ TkgmLinked /\ TkgmExposed

-----------------------------------------------------------------------------
\* A step of request o leaves the other requests as they are.
Frame(o) ==
  \A p \in Ops \ {o} :
    pc'[p] = pc[p] /\ req'[p] = req[p] /\ mem'[p] = mem[p] /\ task'[p] = task[p]

\* What a step of request o does, to the cluster and to o itself.
TkgmSummary(o) ==
  /\ Frame(o) /\ T!TypeOK' /\ TkgmLocal(o)' /\ TkgmCreate(o)' /\ TkgmDelete(o)'
  /\ pc[o] # "idle" => req'[o] = req[o]
  /\ pc[o] # "done" /\ pc'[o] # "idle"
  /\ faults' = 0 => faults = 0
  /\ vapp' # Absent => vapp # Absent \/ pc[o] = "makeVapp"
  /\ token' => token \/ pc[o] = "oauth"
  /\ rule' => rule \/ pc[o] = "controlPlane"
  /\ rule /\ ~rule' => pc[o] \in {"unexpose", "deleteRule"} /\ (faults' = 0 => Unexposing(o)')
  /\ Unexposing(o) /\ faults' = 0 /\ Exists' => ~rde'.exposed
  /\ Exists' => Exists \/ (Kind(o)' = "create" /\ \A p \in Ops : pc[p] = "idle")
  /\ Exists /\ Exists' =>
       /\ rde.linked => rde'.linked
       /\ rde'.exposed => rde'.linked
       /\ rde'.exposed => rde.exposed \/ (pc[o] = "record" /\ rule')
       /\ mem'[o].exposed => mem[o].exposed \/ rde.exposed
       /\ rde'.state = rde.state \/ (Creates(o) /\ pc'[o] = "done")
  /\ ~Exists /\ Exists' => ~rde'.exposed /\ ~mem'[o].exposed /\ rde'.state = "PRE_CREATED"
  /\ pc[o] = "idle" /\ Kind(o)' = "create" => ~Exists /\ \A p \in Ops : pc[p] = "idle"
  /\ PreCreated /\ pc[o] \in {"idle"} \cup Refused
     /\ (pc[o] # "idle" => Kind(o) \in {"update", "info"}) =>
       \/ pc[o] = "idle" /\ Kind(o)' = "create"
       \/ Kind(o)' \in {"update", "info"} /\ pc'[o] \in Refused

-----------------------------------------------------------------------------
(***************************************************************************)
(* Native clusters of RDE 1.x.  The invariants of one request, by what it  *)
(* keeps itself:                                                           *)
(***************************************************************************)
Upgrading == {"drainControl", "runControl", "uncordonControl", "drainWorkers", "runWorkers",
              "uncordonWorkers", "drainAll", "runAll", "uncordonAll"}
Renewing  == {"uncordonControl", "drainWorkers", "runWorkers"}
Failed    == {"fail", "failWrite", "sync", "syncWrite", "err"}
Unmade    == {"get", "set", "makeVapp"}

NativeDeploys == {"controlPlane", "address", "init", "workers", "join", "nfs"}
NativeCreates == {"get", "set", "makeVapp", "record", "resolve", "rollback", "deleteRule",
                  "undo", "resolveFailed", "ok", "done"} \cup NativeDeploys \cup Failed
NativeUpdates == {"get", "set", "monitor", "add", "del", "unexpose", "publish", "finish",
                  "done"} \cup Failed
NativeUpgrades == {"get", "set", "upgrade", "recordUpgrade", "ok", "done"}
                    \cup Upgrading \cup Failed
NativeDeletes == {"get", "set", "deleteVapp", "deleteRule", "err", "ok", "done"}
NativeInfo    == {"get", "syncInfo", "done"}

NativePath(kind) == CASE kind = "create"  -> NativeCreates
                      [] kind = "upgrade" -> NativeUpgrades
                      [] kind = "delete"  -> NativeDeletes
                      [] kind = "info"    -> NativeInfo
                      [] OTHER            -> NativeUpdates

\* Where a thread has a copy of the entity that it will use.
Copying(o) ==
  CASE Kind(o) = "upgrade" -> pc[o] \in {"set", "upgrade", "recordUpgrade"} \cup Upgrading
    [] Kind(o) = "delete"  -> pc[o] \in {"set", "deleteVapp", "deleteRule"}
    [] Resizes(o) -> mem[o].child
                     \/ pc[o] \in {"set", "monitor", "add", "del", "unexpose", "publish", "finish"}
    [] OTHER -> FALSE
Local == {"syncInfo", "failWrite", "syncWrite"}
Truthful(e) == e # Absent /\ e.exposed => e.linked

NativeLocal(o) ==
  /\ pc[o] = "idle" => req[o] = Absent /\ mem[o] = NoMemory /\ task[o] = "NONE"
  /\ pc[o] # "idle" =>
       /\ req[o] \in X!Requests /\ pc[o] \in NativePath(Kind(o))
       /\ pc[o] = "get" \/ Kind(o) = "info" => task[o] = "NONE"
       /\ ~Resizes(o) => ~mem[o].child /\ (task[o] \in Terminal => pc[o] = "done")
       /\ Copying(o) => mem[o].copy # Absent
  /\ pc[o] = "done" => task[o] # "RUNNING"
  /\ pc[o] = "finish" \/ mem[o].error => task[o] \in Terminal
  /\ mem[o].temp # Absent <=> pc[o] \in Local
  /\ Truthful(mem[o].copy) /\ Truthful(mem[o].temp)
  /\ mem[o].undo =>
       Kind(o) = "create" /\ pc[o] \in {"rollback", "deleteRule", "undo", "err", "done"}

NativeCreate(o) == Creates(o) =>
  /\ pc[o] \in {"get", "set"} => ~Exists /\ \A p \in Ops \ {o} : pc[p] = "idle"
  /\ pc[o] \in Unmade => vapp = Absent
  /\ pc[o] \in Unmade \cup {"controlPlane", "address"} => ~rule
  /\ rule /\ pc[o] # "done" => mem[o].exposed
  /\ mem[o].undo /\ faults = 0 =>
       /\ pc[o] \in {"deleteRule", "undo", "err", "done"} => vapp = Absent
       /\ pc[o] \in {"undo", "err", "done"} => ~rule
       /\ pc[o] \in {"err", "done"} => ~Exists

NoneUnmade == \A p \in Ops : Creates(p) => pc[p] \notin Unmade
NativeDelete(o) == pc[o] # "idle" /\ Kind(o) = "delete" =>
  /\ pc[o] \in {"deleteVapp", "deleteRule", "ok"} \/ task[o] = "SUCCESS" => ~Exists
  /\ pc[o] \in {"deleteRule", "ok"} \/ task[o] = "SUCCESS" => vapp = Absent /\ NoneUnmade

NativeOrder ==
  /\ \A o \in Ops : Creates(o) => \A p \in Ops \ {o} : pc[p] # "idle" => Kind(p) # "create"
  /\ ~Exists /\ (\A o \in Ops : pc[o] = "idle") => vapp = Absent /\ ~rule

Failing(o) == (pc[o] \in Failed /\ Kind(o) = "upgrade") \/ task[o] = "ERROR"
NativeUpgrade ==
  /\ vapp # Absent /\ vapp.drained # {} => \E o \in Ops : pc[o] \in Upgrading \/ Failing(o)
  /\ vapp # Absent /\ vapp.new \notin {{}, Groups} =>
       \E o \in Ops : pc[o] \in Renewing \/ Failing(o)
  /\ \A o \in Ops : pc[o] \in Renewing /\ vapp # Absent => "controlPlane" \in vapp.new
  /\ \A o \in Ops : pc[o] \in Upgrading => NoneUnmade

\* A request that is alone.
Alone == X!OneAtATime /\ faults = 0
NativeAlone(o) == Alone /\ pc[o] # "idle" =>
  /\ Kind(o) = "create" =>
       /\ pc[o] \in {"init", "workers", "join", "nfs", "record"} /\ mem[o].exposed => rule
       /\ pc[o] \in {"makeVapp", "record", "rollback", "deleteRule", "undo"} \cup NativeDeploys
          /\ Exists => ~rde.exposed
  /\ Kind(o) \notin {"create", "delete"} /\ mem[o].copy # Absent /\ mem[o].copy.exposed => rule
  /\ mem[o].temp # Absent /\ mem[o].temp.exposed => rule
Unexposed(o) ==
  /\ pc[o] \in {"publish", "finish"}
  /\ mem[o].copy # Absent /\ ~mem[o].copy.exposed /\ mem[o].copy.linked
NativeExposed ==
  Alone /\ Exists /\ rde.exposed /\ ~rule => \E o \in Ops : Unexposed(o)

NativeInv ==
  /\ X!TypeOK /\ Truthful(rde)
  /\ \A o \in Ops : NativeLocal(o) /\ NativeCreate(o) /\ NativeDelete(o) /\ NativeAlone(o)
  /\ NativeOrder /\ NativeUpgrade /\ NativeExposed

-----------------------------------------------------------------------------
\* The step leaves the vApp as it is, or does one piece of an upgrade.
Worked(o) ==
  /\ vapp # Absent /\ vapp' \in Vapps
  /\ \/ vapp'.drained = vapp.drained /\ vapp'.new = vapp.new
     \/ vapp' = X!UpgradeEffect(pc[o]) /\ pc[o] \in Upgrading

\* How a step of request o takes an upgrade further, or ends it.
UpgradeMove(o) ==
  /\ vapp \in Vapps /\ vapp' \in Vapps => vapp.new \subseteq vapp'.new
  /\ pc[o] \in Upgrading => \/ pc'[o] \in Upgrading \cup Failed
                            \/ Worked(o) /\ vapp'.drained = {}
  /\ pc[o] \in Renewing => \/ pc'[o] \in Renewing \cup Failed
                           \/ Worked(o) /\ vapp' = X!UpgradeEffect("runWorkers")
  /\ pc'[o] \in Upgrading => pc[o] \in Upgrading \/ (pc[o] = "upgrade" /\ vapp # Absent)
  /\ pc'[o] \in Renewing =>
       pc[o] \in Renewing \/ (Worked(o) /\ vapp' = X!UpgradeEffect("runControl"))
  /\ Worked(o) /\ (vapp'.drained # vapp.drained \/ vapp'.new # vapp.new) =>
       \/ pc'[o] \in Upgrading \/ Failing(o)'
       \/ vapp'.drained = {} /\ vapp'.new = vapp.new
  /\ Worked(o) /\ vapp'.new # vapp.new =>
       \/ pc'[o] \in Renewing \/ Failing(o)'
       \/ pc[o] = "runWorkers" /\ vapp'.new = vapp.new \cup {"workers"}
  /\ Failing(o) => Failing(o)'

\* What a step of request o does, to the cluster and to o itself.
NativeSummary(o) ==
  /\ Frame(o) /\ X!TypeOK' /\ Truthful(rde)'
  /\ NativeLocal(o)' /\ NativeCreate(o)' /\ NativeDelete(o)' /\ NativeAlone(o)'
  /\ pc[o] # "idle" => req'[o] = req[o]
  /\ pc[o] # "done" /\ pc'[o] # "idle"
  /\ faults' = 0 => faults = 0
  /\ \/ vapp' = vapp \/ vapp' = Absent \/ Worked(o)
     \/ pc[o] = "makeVapp" /\ Kind(o) = "create" /\ vapp = Absent /\ vapp' = NewVapp
  /\ UpgradeMove(o)
  /\ rule' => rule \/ (pc[o] = "address" /\ Kind(o) = "create")
  /\ Exists' => Exists \/ (pc[o] = "set" /\ Kind(o) = "create")
  /\ pc[o] = "idle" => /\ UNCHANGED <<rde, vapp, rule>>
                       /\ IF Kind(o)' = "create" THEN \A p \in Ops : pc[p] = "idle" ELSE Exists
  /\ Creates(o)' /\ pc'[o] \in Unmade => pc[o] \in {"idle", "get", "set"}
  /\ Alone' /\ Exists' /\ rde'.exposed /\ ~rule' => Unexposed(o)'

-----------------------------------------------------------------------------

\* An entity that is written, and says as much of the cluster as it did.
Rewrites(e) ==
  /\ e \in Entities /\ e.state = rde.state /\ (rde.linked => e.linked)
  /\ e.exposed => rde.exposed

\* What a TKGm thread writes of a phase rewrites the entity.
LEMMA Rewritten ==
  ASSUME rde \in Entities, vapp \in Vapps \cup {Absent}, NEW op \in PhaseOps, NEW s \in Statuses,
         NEW o \in Ops, NEW x \in BOOLEAN
  PROVE  /\ Rewrites(T!Phase(op, s)) /\ Rewrites([T!Phase(op, s) EXCEPT !.task = o])
         /\ Rewrites(T!WithNodes(rde))
         /\ Rewrites([T!WithNodes(T!Phase(op, s)) EXCEPT !.exposed = @ /\ x])
         /\ [T!WithNodes(T!Phase(op, s)) EXCEPT !.exposed = @ /\ x].exposed = (rde.exposed /\ x)
<1> DEFINE w == IF vapp = Absent THEN rde.workers ELSE vapp.workers
<1>1. w \in Nat
  BY DEF Entities, Vapps
<1>2. T!WithNodes(rde) = [rde EXCEPT !.workers = w]
  BY DEF T!WithNodes, Entities
<1>3. T!WithNodes(T!Phase(op, s)) = [[rde EXCEPT !.op = op, !.status = s] EXCEPT !.workers = w]
  BY DEF T!WithNodes, T!Phase, Entities
<1> HIDE DEF w
<1>4. Rewrites([T!WithNodes(T!Phase(op, s)) EXCEPT !.exposed = @ /\ x])
  BY <1>1, <1>3 DEF Rewrites, Entities
<1>5. [T!WithNodes(T!Phase(op, s)) EXCEPT !.exposed = @ /\ x].exposed = (rde.exposed /\ x)
  BY <1>1, <1>3 DEF Entities
<1> QED
  BY <1>1, <1>2, <1>4, <1>5 DEF Rewrites, Entities, T!Phase

-----------------------------------------------------------------------------
(***************************************************************************)
(* A step that does what the summary says keeps each invariant.            *)
(***************************************************************************)
\* A create that is not done has the cluster for itself.
LEMMA TkgmOthersCreate ==
  ASSUME TkgmInv, NEW o \in Ops, TkgmSummary(o), NEW p \in Ops \ {o}
  PROVE  TkgmCreate(p)'
<1> SUFFICES ASSUME Creates(p)
             PROVE  TkgmCreate(p)'
  BY DEF TkgmSummary, Frame, TkgmCreate, Creates, Kind
<1>1. pc'[p] = pc[p] /\ req'[p] = req[p] /\ mem'[p] = mem[p] /\ task'[p] = task[p]
  BY DEF TkgmSummary, Frame
<1>2. TkgmCreate(p) /\ TkgmLocal(p)
  BY DEF TkgmInv
<1>3. pc[o] \notin {"makeVapp", "oauth", "controlPlane", "record"}
  <2>1. pc[o] # "idle" => Kind(o) # "create" /\ TkgmLocal(o)
    BY DEF TkgmInv, TkgmOrder
  <2>2. pc[o] # "idle" => Kind(o) \in {"update", "delete", "forceDelete", "deleteNodes", "info"}
    BY <2>1 DEF TkgmLocal, T!Requests, T!Kinds, Kind
  <2> QED
    BY <2>1, <2>2 DEF TkgmLocal, TkgmPath, TkgmUpdates, TkgmDeletes, TkgmForced, TkgmNodes,
        Refused
<1>4. /\ vapp' # Absent => vapp # Absent
      /\ token' => token
      /\ rule' => rule
      /\ Exists' => Exists
      /\ faults' = 0 => faults = 0
  BY <1>3 DEF TkgmSummary, Creates
<1>5. pc[p] # "done" => (rule => rule')
  <2>1. pc[p] # "done" => pc[o] \in {"idle"} \cup Refused
    BY DEF TkgmInv, TkgmOrder
  <2> QED
    BY <2>1 DEF TkgmSummary, Refused
<1> QED
  BY <1>1, <1>2, <1>4, <1>5 DEF TkgmCreate, Creates, Kind, Exists

\* What was deleted stays so.
LEMMA TkgmOthersDelete ==
  ASSUME TkgmInv, NEW o \in Ops, TkgmSummary(o), NEW p \in Ops \ {o}
  PROVE  TkgmDelete(p)'
<1> SUFFICES ASSUME pc[p] # "idle", Kind(p) = "delete"
             PROVE  TkgmDelete(p)'
  BY DEF TkgmSummary, Frame, TkgmDelete, Kind
<1>1. pc'[p] = pc[p] /\ req'[p] = req[p] /\ mem'[p] = mem[p] /\ task'[p] = task[p]
  BY DEF TkgmSummary, Frame
<1>2. TkgmDelete(p)
  BY DEF TkgmInv
<1>3. pc[o] \notin {"makeVapp", "oauth", "controlPlane"}
  <2>1. pc[o] # "idle" /\ pc[o] # "done" => Kind(o) # "create" /\ TkgmLocal(o)
    BY DEF TkgmInv, TkgmOrder, Creates
  <2>2. pc[o] # "idle" /\ pc[o] # "done" =>
          Kind(o) \in {"update", "delete", "forceDelete", "deleteNodes", "info"}
    BY <2>1 DEF TkgmLocal, T!Requests, T!Kinds, Kind
  <2> QED
    BY <2>1, <2>2 DEF TkgmLocal, TkgmPath, TkgmUpdates, TkgmDeletes, TkgmForced, TkgmNodes,
        Refused
<1>4. /\ vapp' # Absent => vapp # Absent
      /\ token' => token
      /\ rule' => rule
      /\ faults' = 0 => faults = 0
  BY <1>3 DEF TkgmSummary
<1> QED
  BY <1>1, <1>2, <1>4 DEF TkgmDelete, Kind

\* A create is the first request, and others wait for its end.
LEMMA TkgmOrderStep ==
  ASSUME TkgmInv, NEW o \in Ops, TkgmSummary(o)
  PROVE  TkgmOrder'
<1>1. \A p \in Ops \ {o} : pc'[p] = pc[p] /\ Kind(p)' = Kind(p)
  BY DEF TkgmSummary, Frame, Kind
<1>2. /\ pc[o] # "idle" => Kind(o)' = Kind(o)
      /\ pc[o] # "done" /\ pc'[o] # "idle"
  BY DEF TkgmSummary, Kind
<1>3. (pc[o] = "idle" /\ Kind(o)' = "create") => \A p \in Ops : pc[p] = "idle"
  BY DEF TkgmSummary
<1>4. ASSUME NEW p \in Ops, Creates(p)', pc'[p] # "done"
      PROVE  PreCreated'
  <2>1. CASE p = o
    <3>1. CASE pc[o] = "idle"
      BY <1>3, <1>4, <2>1, <3>1 DEF TkgmSummary, TkgmInv, PreCreated, Exists, Creates, Kind
    <3>2. CASE pc[o] # "idle"
      <4>1. Creates(o) /\ pc[o] # "done"
        BY <1>2, <1>4, <2>1, <3>2 DEF Creates
      <4>2. PreCreated
        BY <4>1 DEF TkgmInv, TkgmOrder
      <4> QED
        BY <1>4, <2>1, <4>2 DEF TkgmSummary, PreCreated
    <3> QED
      BY <3>1, <3>2
  <2>2. CASE p # o
    <3>1. Creates(p) /\ pc[p] # "done"
      BY <1>1, <1>4, <2>2 DEF Creates
    <3>2. PreCreated /\ (pc[o] # "idle" => Kind(o) # "create")
      BY <2>2, <3>1 DEF TkgmInv, TkgmOrder
    <3>3. pc[o] = "idle" => Kind(o)' # "create"
      BY <1>3, <3>1 DEF Creates
    <3> QED
      BY <1>2, <3>2, <3>3 DEF TkgmSummary, PreCreated, Creates
  <2> QED
    BY <2>1, <2>2
<1>5. ASSUME NEW p \in Ops, Creates(p)', NEW q \in Ops \ {p}, pc'[q] # "idle"
      PROVE  /\ Kind(q)' # "create"
             /\ pc'[p] # "done" => Kind(q)' \in {"update", "info"} /\ pc'[q] \in Refused
  <2>1. CASE p = o
    <3>1. pc[q] # "idle"
      BY <1>1, <1>5, <2>1
    <3>2. pc[o] # "idle"
      BY <1>3, <1>5, <2>1, <3>1 DEF Creates
    <3>3. Creates(o)
      BY <1>2, <1>5, <2>1, <3>2 DEF Creates
    <3> QED
      BY <1>1, <1>2, <2>1, <3>1, <3>3 DEF TkgmInv, TkgmOrder
  <2>2. CASE p # o
    <3>1. Creates(p) /\ pc'[p] = pc[p]
      BY <1>1, <1>5, <2>2 DEF Creates
    <3>2. CASE q # o
      BY <1>1, <1>5, <3>1, <3>2 DEF TkgmInv, TkgmOrder
    <3>3. CASE q = o
      <4>1. pc[o] = "idle" => Kind(o)' # "create"
        BY <1>3, <3>1 DEF Creates
      <4>2. pc[o] # "idle" => Kind(o) # "create"
        BY <2>2, <3>1 DEF TkgmInv, TkgmOrder
      <4>3. pc[p] # "done" => /\ PreCreated /\ pc[o] \in {"idle"} \cup Refused
                              /\ pc[o] # "idle" => Kind(o) \in {"update", "info"}
        BY <2>2, <3>1 DEF TkgmInv, TkgmOrder
      <4>4. pc[p] # "done" => Kind(o)' \in {"update", "info"} /\ pc'[o] \in Refused
        BY <4>1, <4>3 DEF TkgmSummary
      <4> QED
        BY <1>2, <3>1, <3>3, <4>1, <4>2, <4>4
    <3> QED
      BY <3>2, <3>3
  <2> QED
    BY <2>1, <2>2
<1> QED
  BY <1>2, <1>4, <1>5 DEF TkgmOrder

\* A cluster that is said to be exposed is linked to its vApp.
LEMMA TkgmLinkedStep ==
  ASSUME TkgmInv, NEW o \in Ops, TkgmSummary(o)
  PROVE  TkgmLinked'
<1> SUFFICES ASSUME Exists'
             PROVE  /\ rde'.exposed => rde'.linked
                    /\ \A p \in Ops : mem'[p].exposed => rde'.linked
  BY DEF TkgmLinked
<1>1. CASE Exists
  BY <1>1 DEF TkgmSummary, Frame, TkgmInv, TkgmLinked
<1>2. CASE ~Exists
  <2>1. \A p \in Ops : pc[p] = "idle"
    BY <1>2 DEF TkgmSummary
  <2>2. \A p \in Ops \ {o} : ~mem'[p].exposed
    BY <2>1 DEF TkgmSummary, Frame, TkgmInv, TkgmLocal, NoMemory
  <2> QED
    BY <1>2, <2>1, <2>2 DEF TkgmSummary
<1> QED
  BY <1>1, <1>2

\* The rule of an exposed cluster is there, or about to be forgotten.
LEMMA TkgmExposedStep ==
  ASSUME TkgmInv, NEW o \in Ops, TkgmSummary(o)
  PROVE  TkgmExposed'
<1> SUFFICES ASSUME Exists', rde'.exposed, ~rule', faults' = 0
             PROVE  \E p \in Ops : Unexposing(p)'
  BY DEF TkgmExposed
<1>1. faults = 0 /\ Exists /\ rde.exposed /\ ~Unexposing(o)
  BY DEF TkgmSummary
<1>2. CASE rule
  BY <1>2 DEF TkgmSummary
<1>3. CASE ~rule
  <2>1. PICK p \in Ops : Unexposing(p)
    BY <1>1, <1>3 DEF TkgmInv, TkgmExposed
  <2>2. p # o
    BY <1>1, <2>1
  <2>3. Unexposing(p)'
    BY <2>1, <2>2 DEF TkgmSummary, Frame, Unexposing, T!Unexposes, Kind
  <2> QED
    BY <2>3
<1> QED
  BY <1>2, <1>3

\* A step that does what the summary says keeps the whole invariant.
LEMMA TkgmSummaryStep ==
  ASSUME TkgmInv, NEW o \in Ops, TkgmSummary(o)
  PROVE  TkgmInv'
<1>1. ASSUME NEW p \in Ops \ {o}
      PROVE  TkgmLocal(p)' /\ TkgmCreate(p)' /\ TkgmDelete(p)'
  <2>1. TkgmLocal(p)'
    BY DEF TkgmSummary, Frame, TkgmInv, TkgmLocal, Resizes, Kind
  <2> QED
    BY <2>1, TkgmOthersCreate, TkgmOthersDelete
<1>2. TkgmOrder' /\ TkgmLinked' /\ TkgmExposed'
  BY TkgmOrderStep, TkgmLinkedStep, TkgmExposedStep
<1> QED
  BY <1>1, <1>2 DEF TkgmInv, TkgmSummary

-----------------------------------------------------------------------------
\* What the place of a thread says of the kind of its request.
LEMMA TkgmAt ==
  ASSUME NEW o \in Ops, TkgmLocal(o), pc[o] # "idle"
  PROVE  /\ req[o] \in T!Requests /\ Kind(o) \in T!Kinds
         /\ req[o].workers \in Nat /\ req[o].expose \in BOOLEAN /\ req[o].rollback \in BOOLEAN
         /\ pc[o] \in TkgmCalls \cup {"abort", "rollback", "undo"} => Kind(o) = "create"
         /\ pc[o] \in {"monitor", "add", "unexpose"} => Kind(o) = "update"
         /\ pc[o] \in {"del", "finish"} => Resizes(o)
         /\ pc[o] = "sync" => Kind(o) = "create" \/ Resizes(o)
         /\ pc[o] \in {"deleteVapp", "revoke"} => Kind(o) = "delete"
         /\ pc[o] \in {"rights", "forget"} => Kind(o) = "forceDelete"
         /\ pc[o] = "deleteRule" => Kind(o) \in {"create", "delete", "forceDelete"}
         /\ pc[o] = "fail" => Kind(o) \notin {"forceDelete", "info"}
         /\ pc[o] = "err" => Kind(o) # "info"
         /\ pc[o] = "set" => Kind(o) \in {"create", "update", "delete", "deleteNodes"}
<1>1. req[o] \in T!Requests /\ pc[o] \in TkgmPath(Kind(o))
  BY DEF TkgmLocal
<1>2. /\ Kind(o) \in T!Kinds /\ req[o].workers \in Nat
      /\ req[o].expose \in BOOLEAN /\ req[o].rollback \in BOOLEAN
  BY <1>1, ThreadsAssumption DEF T!Requests, T!Kinds, Kind
<1>3. /\ Kind(o) = "create" => pc[o] \in TkgmCreates
      /\ Kind(o) = "update" => pc[o] \in TkgmUpdates
      /\ Kind(o) = "delete" => pc[o] \in TkgmDeletes
      /\ Kind(o) = "forceDelete" => pc[o] \in TkgmForced
      /\ Kind(o) = "deleteNodes" => pc[o] \in TkgmNodes
      /\ Kind(o) = "info" => pc[o] \in Refused
  BY <1>1 DEF TkgmPath
<1> QED
  BY <1>1, <1>2, <1>3 DEF T!Kinds, TkgmCreates, TkgmUpdates, TkgmDeletes, TkgmForced, TkgmNodes,
      Refused, TkgmCalls, Resizes

\* The threads of each kind of request, one by one.
LEMMA TkgmPaths ==
  /\ TkgmPath("create") = TkgmCreates /\ TkgmPath("update") = TkgmUpdates
  /\ TkgmPath("delete") = TkgmDeletes /\ TkgmPath("forceDelete") = TkgmForced
  /\ TkgmPath("deleteNodes") = TkgmNodes /\ TkgmPath("info") = Refused
BY DEF TkgmPath

Typed ==
  /\ rde \in Entities \cup {Absent} /\ vapp \in Vapps \cup {Absent}
  /\ token \in BOOLEAN /\ rule \in BOOLEAN /\ faults \in 0..MaxFaults

\* The invariant gives every variable its type, in the words of ClusterThreads.
LEMMA TkgmTyped ==
  ASSUME TkgmInv
  PROVE  /\ Typed /\ DOMAIN pc = Ops
         /\ mem \in [Ops -> Memory] /\ task \in [Ops -> TaskStatuses]
BY DEF TkgmInv, Typed, T!TypeOK, T!TypeOKWith, T!Entities, Entities, T!Vapps, Vapps, T!Memory,
   Memory, TaskStatuses, T!TaskStatuses, T!States, States, T!PhaseOps, PhaseOps, T!Statuses,
   Statuses, T!Groups, Groups

\* A step of request o, and what it keeps and its task are then.
LEMMA TkgmFrame ==
  ASSUME TkgmInv, NEW o \in Ops, NEW p, NEW m \in Memory, NEW t \in TaskStatuses,
         T!Goto(o, p) \/ (UNCHANGED pc /\ p = pc[o]), UNCHANGED req, Typed',
         (UNCHANGED mem /\ m = mem[o]) \/ mem' = [mem EXCEPT ![o] = m],
         (UNCHANGED task /\ t = task[o]) \/ task' = [task EXCEPT ![o] = t]
  PROVE  /\ Frame(o) /\ T!TypeOK' /\ pc'[o] = p /\ req'[o] = req[o]
         /\ mem'[o] = m /\ task'[o] = t
<1>1. pc'[o] = p /\ DOMAIN pc' = Ops /\ \A q \in Ops \ {o} : pc'[q] = pc[q]
  BY TkgmTyped DEF T!Goto
<1>2. mem' \in [Ops -> Memory] /\ mem'[o] = m /\ \A q \in Ops \ {o} : mem'[q] = mem[q]
  BY TkgmTyped
<1>3. task' \in [Ops -> TaskStatuses] /\ task'[o] = t /\ \A q \in Ops \ {o} : task'[q] = task[q]
  BY TkgmTyped
<1> QED
  BY <1>1, <1>2, <1>3
  DEF TkgmInv, Typed, T!TypeOK, T!TypeOKWith, Frame, T!Entities, Entities, T!Vapps, Vapps,
      T!Memory, Memory, TaskStatuses, T!TaskStatuses, T!States, States, T!PhaseOps, PhaseOps,
      T!Statuses, Statuses, T!Groups, Groups

\* A step that moves request o to p and writes neither its memory nor its task.
LEMMA TkgmMoves ==
  ASSUME TkgmInv, NEW o \in Ops, NEW p, T!Goto(o, p), UNCHANGED <<req, mem, task>>, Typed'
  PROVE  /\ Frame(o) /\ T!TypeOK' /\ pc'[o] = p /\ req'[o] = req[o]
         /\ mem'[o] = mem[o] /\ task'[o] = task[o]
<1>1. mem[o] \in Memory /\ task[o] \in TaskStatuses
  BY TkgmTyped
<1> QED
  BY <1>1, TkgmFrame

\* A write of the entity, or one that fails.
LEMMA TkgmWrites ==
  ASSUME TkgmInv, NEW o \in Ops, NEW e, NEW p, Exists => Rewrites(e),
         T!Put(o, e, p) \/ T!PutRaises(o, e, p)
  PROVE  /\ T!Goto(o, p)
         /\ rde' \in Entities \cup {Absent} /\ (Exists => Rewrites(rde')) /\ (Exists' <=> Exists)
         /\ faults' \in 0..MaxFaults /\ (faults' = 0 => faults = 0)
         /\ T!Put(o, e, p) => rde' = e
         /\ T!PutRaises(o, e, p) /\ faults' = 0 => ~Exists
<1>1. Typed
  BY TkgmTyped
<1>2. Exists => Rewrites(rde) /\ e # Absent
  BY <1>1, ThreadsAssumption DEF Typed, Rewrites, Exists
<1>3. rde' = rde \/ (Exists /\ rde' = e)
  BY DEF T!Put, T!PutRaises, T!Exists, Exists
<1>4. /\ faults' \in 0..MaxFaults /\ (faults' = 0 => faults = 0)
      /\ T!PutRaises(o, e, p) /\ faults' = 0 => ~Exists
  BY <1>1, ThreadsAssumption DEF Typed, T!Put, T!PutRaises, T!Exists, Exists, T!Fault
<1> QED
  BY <1>1, <1>2, <1>3, <1>4 DEF Typed, Rewrites, T!Put, T!PutRaises, Exists

\* A removal of the entity, or one that fails.
LEMMA TkgmRemoves ==
  ASSUME TkgmInv, NEW o \in Ops, NEW p, NEW q, T!Remove(o, p, q)
  PROVE  /\ T!Goto(o, p) \/ T!Goto(o, q)
         /\ rde' \in {rde, Absent} /\ rde' \in Entities \cup {Absent}
         /\ faults' \in 0..MaxFaults /\ (faults' = 0 => faults = 0 /\ ~Exists')
BY TkgmTyped, ThreadsAssumption
DEF T!Remove, T!CallFails, T!Fault, T!Exists, Exists, Typed

\* A new phase, or the nodes that there are, rewrite the entity.
LEMMA TkgmPhase ==
  ASSUME rde \in Entities, vapp \in Vapps \cup {Absent}
  PROVE  /\ Rewrites(T!WithNodes(rde))
         /\ \A op \in PhaseOps : \A s \in Statuses : Rewrites(T!Phase(op, s))
<1> DEFINE w == IF vapp = Absent THEN rde.workers ELSE vapp.workers
<1>1. w \in Nat
  BY DEF Entities, Vapps
<1>2. T!WithNodes(rde) = [rde EXCEPT !.workers = w]
  BY DEF T!WithNodes, Entities
<1> HIDE DEF w
<1> QED
  BY <1>1, <1>2 DEF Rewrites, Entities, T!Phase

\* A handler that cannot read the entity.
LEMMA TkgmCheckRaises ==
  ASSUME TkgmInv, NEW o \in Ops, T!CheckRaises(o)
  PROVE  TkgmSummary(o)
<1>1. /\ pc[o] = "get" /\ Kind(o) # "create"
      /\ UNCHANGED <<rde, vapp, token, rule, req, mem, task>>
      /\ faults' \in 0..MaxFaults /\ (faults' = 0 => faults = 0)
      /\ T!Goto(o, "error")
  BY TkgmTyped, ThreadsAssumption DEF T!CheckRaises, T!CallFails, T!Fault, T!state, Kind, Typed
<1>2. /\ TkgmLocal(o) /\ TkgmCreate(o) /\ TkgmDelete(o) /\ TkgmLinked /\ Kind(o) \in T!Kinds
      /\ req[o].expose \in BOOLEAN
  <2>1. TkgmLocal(o) /\ TkgmCreate(o) /\ TkgmDelete(o) /\ TkgmLinked
    BY DEF TkgmInv
  <2> QED
    BY <1>1, <2>1, TkgmAt DEF TkgmCalls
<1>3. /\ Frame(o) /\ T!TypeOK'
      /\ pc'[o] \in {"error"}
      /\ req'[o] = req[o] /\ mem'[o] = mem[o] /\ task'[o] = task[o]
  BY <1>1, TkgmMoves, TkgmTyped DEF Typed
<1>4. TkgmLocal(o)'
  BY <1>1, <1>2, <1>3, TkgmPaths
  DEF TkgmLocal, Resizes, Kind, TkgmCalls, TkgmCreates, TkgmUpdates, TkgmDeletes, TkgmForced,
      TkgmNodes, Refused, T!Kinds
<1>5. TkgmCreate(o)' /\ TkgmDelete(o)'
  BY <1>1, <1>2, <1>3 DEF TkgmCreate, TkgmDelete, Creates, TkgmCalls, TkgmLocal, Kind, Resizes
<1> QED
  BY <1>1, <1>2, <1>3, <1>4, <1>5
  DEF TkgmSummary, TkgmLinked, Rewrites, Unexposing, T!Unexposes, Exists, Refused, Creates, Kind,
      PreCreated, T!Kinds

\* _fail_operation of a request that has no token to revoke.
LEMMA TkgmFail ==
  ASSUME TkgmInv, NEW o \in Ops, T!Fail(o)
  PROVE  TkgmSummary(o)
<1>1. /\ pc[o] = "fail" /\ UNCHANGED <<vapp, token, rule, req, mem, task>>
      /\ rde' \in Entities \cup {Absent} /\ (Exists => Rewrites(rde')) /\ (Exists' <=> Exists)
      /\ faults' \in 0..MaxFaults /\ (faults' = 0 => faults = 0)
      /\ ~T!Revokes(o)
      /\ \/ mem[o].undo /\ T!Goto(o, "rollback")
         \/ ~mem[o].undo /\ Kind(o) = "delete" /\ T!Goto(o, "err")
         \/ ~mem[o].undo /\ Kind(o) # "delete" /\ T!Goto(o, "sync")
  <2>1. pc[o] = "fail" /\ UNCHANGED <<vapp, token, rule, req, mem, task>>
    BY DEF T!Fail
  <2>2. Typed /\ T!PhaseOp(o) \in PhaseOps
    BY TkgmTyped DEF T!PhaseOp, PhaseOps
  <2>3. Exists => Rewrites(T!Phase(T!PhaseOp(o), "FAILED"))
    BY <2>2, TkgmPhase DEF Typed, Exists, Statuses
  <2>4. \/ mem[o].undo /\ T!AfterFail(o) = "rollback"
        \/ ~mem[o].undo /\ Kind(o) = "delete" /\ T!AfterFail(o) = "err"
        \/ ~mem[o].undo /\ Kind(o) # "delete" /\ T!AfterFail(o) = "sync"
    BY TkgmTyped DEF T!AfterFail, Kind, Memory, TkgmInv, TkgmLocal
  <2>5. /\ ~T!Revokes(o)
        /\ \/ T!Put(o, T!Phase(T!PhaseOp(o), "FAILED"), T!AfterFail(o))
           \/ T!PutRaises(o, T!Phase(T!PhaseOp(o), "FAILED"), T!AfterFail(o))
    BY DEF T!Fail, T!PutOrNot
  <2>6. /\ T!Goto(o, T!AfterFail(o))
        /\ rde' \in Entities \cup {Absent} /\ (Exists => Rewrites(rde')) /\ (Exists' <=> Exists)
        /\ faults' \in 0..MaxFaults /\ (faults' = 0 => faults = 0)
    BY <2>3, <2>5, TkgmWrites
  <2> QED
    BY <2>1, <2>4, <2>5, <2>6
<1>2. /\ TkgmLocal(o) /\ TkgmCreate(o) /\ TkgmDelete(o) /\ TkgmLinked
      /\ Kind(o) \in T!Kinds \ {"forceDelete", "info"}
      /\ req[o].expose \in BOOLEAN
  <2>1. TkgmLocal(o) /\ TkgmCreate(o) /\ TkgmDelete(o) /\ TkgmLinked
    BY DEF TkgmInv
  <2> QED
    BY <1>1, <2>1, TkgmAt DEF TkgmCalls
<1>3. /\ Frame(o) /\ T!TypeOK'
      /\ \/ mem[o].undo /\ pc'[o] = "rollback"
         \/ ~mem[o].undo /\ Kind(o) = "delete" /\ pc'[o] = "err"
         \/ ~mem[o].undo /\ Kind(o) # "delete" /\ pc'[o] = "sync"
      /\ req'[o] = req[o] /\ mem'[o] = mem[o] /\ task'[o] = task[o]
  <2>1. Typed'
    BY <1>1, TkgmTyped DEF Typed
  <2>2. CASE mem[o].undo
    BY <1>1, <2>1, <2>2, TkgmMoves
  <2>3. CASE ~mem[o].undo /\ Kind(o) = "delete"
    BY <1>1, <2>1, <2>3, TkgmMoves
  <2>4. CASE ~mem[o].undo /\ Kind(o) # "delete"
    BY <1>1, <2>1, <2>4, TkgmMoves
  <2> QED
    BY <2>2, <2>3, <2>4
<1>4. TkgmLocal(o)'
  BY <1>1, <1>2, <1>3, TkgmPaths
  DEF TkgmLocal, Resizes, Kind, TkgmCalls, TkgmCreates, TkgmUpdates, TkgmDeletes, TkgmForced,
      TkgmNodes, Refused, T!Kinds, T!Revokes
<1>5. TkgmCreate(o)' /\ TkgmDelete(o)'
  BY <1>1, <1>2, <1>3 DEF TkgmCreate, TkgmDelete, Creates, TkgmCalls, TkgmLocal, Kind, Resizes,
      T!Revokes, T!Kinds
<1> QED
  BY <1>1, <1>2, <1>3, <1>4, <1>5
  DEF TkgmSummary, TkgmLinked, Rewrites, Unexposing, T!Unexposes, Exists, Refused, Creates, Kind,
      PreCreated

\* The cluster gets its link.
LEMMA TkgmLinkVapp ==
  ASSUME TkgmInv, NEW o \in Ops, T!LinkVapp(o)
  PROVE  TkgmSummary(o)
<1>1. /\ pc[o] = "link" /\ UNCHANGED <<vapp, token, rule, req, mem, task>>
      /\ rde' \in Entities \cup {Absent} /\ (Exists => Rewrites(rde')) /\ (Exists' <=> Exists)
      /\ faults' \in 0..MaxFaults /\ (faults' = 0 => faults = 0)
      /\ T!Goto(o, "workers") \/ T!Goto(o, "fail")
  <2>1. /\ pc[o] = "link" /\ UNCHANGED <<vapp, token, rule, req, mem, task>>
        /\ T!Put(o, T!Link(o), "workers") \/ T!PutRaises(o, T!Link(o), "fail")
    BY DEF T!LinkVapp, T!NextCall
  <2>2. Exists => Rewrites(T!Link(o))
    BY TkgmTyped DEF Typed, Rewrites, T!Link, Entities, Exists
  <2> QED
    BY <2>1, <2>2, TkgmWrites
<1>2. /\ TkgmLocal(o) /\ TkgmCreate(o) /\ TkgmDelete(o) /\ TkgmLinked /\ Kind(o) = "create"
      /\ req[o].expose \in BOOLEAN
  <2>1. TkgmLocal(o) /\ TkgmCreate(o) /\ TkgmDelete(o) /\ TkgmLinked
    BY DEF TkgmInv
  <2> QED
    BY <1>1, <2>1, TkgmAt DEF TkgmCalls
<1>3. /\ Frame(o) /\ T!TypeOK'
      /\ pc'[o] \in {"workers", "fail"}
      /\ req'[o] = req[o] /\ mem'[o] = mem[o] /\ task'[o] = task[o]
  BY <1>1, TkgmMoves, TkgmTyped DEF Typed
<1>4. TkgmLocal(o)'
  BY <1>1, <1>2, <1>3, TkgmPaths
  DEF TkgmLocal, Resizes, Kind, TkgmCalls, TkgmCreates, TkgmUpdates, TkgmDeletes, TkgmForced,
      TkgmNodes, Refused
<1>5. TkgmCreate(o)' /\ TkgmDelete(o)'
  BY <1>1, <1>2, <1>3 DEF TkgmCreate, TkgmDelete, Creates, TkgmCalls, TkgmLocal, Kind, Resizes
<1> QED
  BY <1>1, <1>2, <1>3, <1>4, <1>5
  DEF TkgmSummary, TkgmLinked, Rewrites, Unexposing, T!Unexposes, Exists, Refused, Creates, Kind,
      PreCreated

\* An enquiry records the nodes of the cluster.
LEMMA TkgmInfo ==
  ASSUME TkgmInv, NEW o \in Ops, T!Info(o)
  PROVE  TkgmSummary(o)
<1>1. /\ pc[o] = "get" /\ Kind(o) = "info" /\ UNCHANGED <<vapp, token, rule, req, mem, task>>
      /\ rde' \in Entities \cup {Absent} /\ (Exists => Rewrites(rde')) /\ (Exists' <=> Exists)
      /\ faults' \in 0..MaxFaults /\ (faults' = 0 => faults = 0)
      /\ T!Goto(o, "ok")
  <2>1. /\ pc[o] = "get" /\ Kind(o) = "info" /\ Exists
        /\ UNCHANGED <<vapp, token, rule, req, mem, task>>
        /\ T!PutOrNot(o, T!WithNodes(rde), "ok") \/ (T!Goto(o, "ok") /\ UNCHANGED <<rde, faults>>)
    BY DEF T!Info, T!Exists, Exists, Kind
  <2>2. Rewrites(T!WithNodes(rde)) /\ Rewrites(rde) /\ Typed
    BY <2>1, TkgmTyped, TkgmPhase DEF Typed, Exists, Rewrites
  <2> QED
    BY <2>1, <2>2, TkgmWrites DEF T!PutOrNot, Typed, Exists
<1>2. /\ TkgmLocal(o) /\ TkgmCreate(o) /\ TkgmDelete(o) /\ TkgmLinked /\ Kind(o) = "info"
      /\ req[o].expose \in BOOLEAN
  <2>1. TkgmLocal(o) /\ TkgmCreate(o) /\ TkgmDelete(o) /\ TkgmLinked
    BY DEF TkgmInv
  <2> QED
    BY <1>1, <2>1, TkgmAt DEF TkgmCalls
<1>3. /\ Frame(o) /\ T!TypeOK'
      /\ pc'[o] \in {"ok"}
      /\ req'[o] = req[o] /\ mem'[o] = mem[o] /\ task'[o] = task[o]
  BY <1>1, TkgmMoves, TkgmTyped DEF Typed
<1>4. TkgmLocal(o)'
  BY <1>1, <1>2, <1>3, TkgmPaths
  DEF TkgmLocal, Resizes, Kind, TkgmCalls, TkgmCreates, TkgmUpdates, TkgmDeletes, TkgmForced,
      TkgmNodes, Refused
<1>5. TkgmCreate(o)' /\ TkgmDelete(o)'
  BY <1>1, <1>2, <1>3 DEF TkgmCreate, TkgmDelete, Creates, TkgmCalls, TkgmLocal, Kind, Resizes
<1> QED
  BY <1>1, <1>2, <1>3, <1>4, <1>5
  DEF TkgmSummary, TkgmLinked, Rewrites, Unexposing, T!Unexposes, Exists, Refused, Creates, Kind,
      PreCreated

\* _sync_def_entity in an except block.
LEMMA TkgmSync ==
  ASSUME TkgmInv, NEW o \in Ops, T!Sync(o)
  PROVE  TkgmSummary(o)
<1>1. /\ pc[o] = "sync" /\ UNCHANGED <<vapp, token, rule, req, mem, task>>
      /\ rde' \in Entities \cup {Absent} /\ (Exists => Rewrites(rde')) /\ (Exists' <=> Exists)
      /\ faults' \in 0..MaxFaults /\ (faults' = 0 => faults = 0)
      /\ T!Goto(o, "err")
  <2>1. /\ pc[o] = "sync" /\ UNCHANGED <<vapp, token, rule, req, mem, task>>
        /\ \/ Exists /\ T!PutOrNot(o, T!WithNodes(rde), "err")
           \/ T!Goto(o, "err") /\ UNCHANGED <<rde, faults>>
    BY DEF T!Sync, T!Exists, Exists
  <2>2. Typed /\ (Exists => Rewrites(T!WithNodes(rde)) /\ Rewrites(rde))
    BY TkgmTyped, TkgmPhase DEF Typed, Exists, Rewrites
  <2> QED
    BY <2>1, <2>2, TkgmWrites DEF T!PutOrNot, Typed, Exists
<1>2. /\ TkgmLocal(o) /\ TkgmCreate(o) /\ TkgmDelete(o) /\ TkgmLinked
      /\ (Kind(o) = "create" \/ Resizes(o))
      /\ req[o].expose \in BOOLEAN
  <2>1. TkgmLocal(o) /\ TkgmCreate(o) /\ TkgmDelete(o) /\ TkgmLinked
    BY DEF TkgmInv
  <2> QED
    BY <1>1, <2>1, TkgmAt DEF TkgmCalls
<1>3. /\ Frame(o) /\ T!TypeOK'
      /\ pc'[o] \in {"err"}
      /\ req'[o] = req[o] /\ mem'[o] = mem[o] /\ task'[o] = task[o]
  BY <1>1, TkgmMoves, TkgmTyped DEF Typed
<1>4. TkgmLocal(o)'
  BY <1>1, <1>2, <1>3, TkgmPaths
  DEF TkgmLocal, Resizes, Kind, TkgmCalls, TkgmCreates, TkgmUpdates, TkgmDeletes, TkgmForced,
      TkgmNodes, Refused
<1>5. TkgmCreate(o)' /\ TkgmDelete(o)'
  BY <1>1, <1>2, <1>3 DEF TkgmCreate, TkgmDelete, Creates, TkgmCalls, TkgmLocal, Kind, Resizes
<1> QED
  BY <1>1, <1>2, <1>3, <1>4, <1>5
  DEF TkgmSummary, TkgmLinked, Rewrites, Unexposing, T!Unexposes, Exists, Refused, Creates, Kind,
      PreCreated

\* The except block of the handler of a create.
LEMMA TkgmAbortCreate ==
  ASSUME TkgmInv, NEW o \in Ops, T!AbortCreate(o)
  PROVE  TkgmSummary(o)
<1>1. /\ pc[o] = "abort" /\ UNCHANGED <<vapp, token, rule, req, mem, task>>
      /\ rde' \in Entities \cup {Absent} /\ (Exists /\ Exists' => Rewrites(rde'))
      /\ (Exists' => Exists)
      /\ faults' \in 0..MaxFaults /\ (faults' = 0 => faults = 0)
      /\ T!Goto(o, "error")
  <2>1. /\ pc[o] = "abort" /\ UNCHANGED <<vapp, token, rule, req, mem, task>>
        /\ \/ T!Remove(o, "error", "error")
           \/ T!PutOrNot(o, T!Phase("CREATE", "FAILED"), "error")
    BY DEF T!AbortCreate
  <2>2. Typed /\ (Exists => Rewrites(T!Phase("CREATE", "FAILED")) /\ Rewrites(rde))
    BY TkgmTyped, TkgmPhase DEF Typed, Exists, Rewrites, PhaseOps, Statuses
  <2>3. CASE T!Remove(o, "error", "error")
    BY <2>1, <2>2, <2>3, TkgmRemoves DEF Exists
  <2>4. CASE T!PutOrNot(o, T!Phase("CREATE", "FAILED"), "error")
    BY <2>1, <2>2, <2>4, TkgmWrites DEF T!PutOrNot
  <2> QED
    BY <2>1, <2>3, <2>4
<1>2. /\ TkgmLocal(o) /\ TkgmCreate(o) /\ TkgmDelete(o) /\ TkgmLinked /\ Kind(o) = "create"
      /\ req[o].expose \in BOOLEAN
  <2>1. TkgmLocal(o) /\ TkgmCreate(o) /\ TkgmDelete(o) /\ TkgmLinked
    BY DEF TkgmInv
  <2> QED
    BY <1>1, <2>1, TkgmAt DEF TkgmCalls
<1>3. /\ Frame(o) /\ T!TypeOK'
      /\ pc'[o] \in {"error"}
      /\ req'[o] = req[o] /\ mem'[o] = mem[o] /\ task'[o] = task[o]
  BY <1>1, TkgmMoves, TkgmTyped DEF Typed
<1>4. TkgmLocal(o)'
  BY <1>1, <1>2, <1>3, TkgmPaths
  DEF TkgmLocal, Resizes, Kind, TkgmCalls, TkgmCreates, TkgmUpdates, TkgmDeletes, TkgmForced,
      TkgmNodes, Refused
<1>5. TkgmCreate(o)' /\ TkgmDelete(o)'
  BY <1>1, <1>2, <1>3 DEF TkgmCreate, TkgmDelete, Creates, TkgmCalls, TkgmLocal, Kind, Resizes
<1> QED
  BY <1>1, <1>2, <1>3, <1>4, <1>5
  DEF TkgmSummary, TkgmLinked, Rewrites, Unexposing, T!Unexposes, Exists, Refused, Creates, Kind,
      PreCreated

\* A rolled back create resolves or removes its entity.
LEMMA TkgmUndo ==
  ASSUME TkgmInv, NEW o \in Ops, T!Undo(o)
  PROVE  TkgmSummary(o)
<1>1. /\ pc[o] = "undo" /\ UNCHANGED <<vapp, token, rule, req, mem, task>>
      /\ rde' \in {rde, Absent} /\ rde' \in Entities \cup {Absent}
      /\ faults' \in 0..MaxFaults /\ (faults' = 0 => faults = 0)
      /\ faults' = 0 => ~Exists'
      /\ T!Goto(o, "err")
  <2>1. /\ pc[o] = "undo" /\ UNCHANGED <<vapp, token, rule, req, mem, task>>
        /\ T!Remove(o, "err", "err")
    BY DEF T!Undo
  <2> QED
    BY <2>1, TkgmRemoves
<1>2. /\ TkgmLocal(o) /\ TkgmCreate(o) /\ TkgmDelete(o) /\ TkgmLinked /\ Kind(o) = "create"
      /\ req[o].expose \in BOOLEAN
  <2>1. TkgmLocal(o) /\ TkgmCreate(o) /\ TkgmDelete(o) /\ TkgmLinked
    BY DEF TkgmInv
  <2> QED
    BY <1>1, <2>1, TkgmAt DEF TkgmCalls
<1>3. /\ Frame(o) /\ T!TypeOK'
      /\ pc'[o] \in {"err"}
      /\ req'[o] = req[o] /\ mem'[o] = mem[o] /\ task'[o] = task[o]
  BY <1>1, TkgmMoves, TkgmTyped DEF Typed
<1>4. TkgmLocal(o)'
  BY <1>1, <1>2, <1>3, TkgmPaths
  DEF TkgmLocal, Resizes, Kind, TkgmCalls, TkgmCreates, TkgmUpdates, TkgmDeletes, TkgmForced,
      TkgmNodes, Refused
<1>5. TkgmCreate(o)' /\ TkgmDelete(o)'
  BY <1>1, <1>2, <1>3 DEF TkgmCreate, TkgmDelete, Creates, TkgmCalls, TkgmLocal, Kind, Resizes
<1> QED
  BY <1>1, <1>2, <1>3, <1>4, <1>5
  DEF TkgmSummary, TkgmLinked, Rewrites, Unexposing, T!Unexposes, Exists, Refused, Creates, Kind,
      PreCreated

\* A forced deletion removes the entity.
LEMMA TkgmForget ==
  ASSUME TkgmInv, NEW o \in Ops, T!Forget(o)
  PROVE  TkgmSummary(o)
<1>1. /\ pc[o] = "forget" /\ UNCHANGED <<vapp, token, rule, req, mem, task>>
      /\ rde' \in {rde, Absent} /\ rde' \in Entities \cup {Absent}
      /\ faults' \in 0..MaxFaults /\ (faults' = 0 => faults = 0)
      /\ faults' = 0 => ~Exists'
      /\ T!Goto(o, "ok") \/ T!Goto(o, "err")
  <2>1. /\ pc[o] = "forget" /\ UNCHANGED <<vapp, token, rule, req, mem, task>>
        /\ T!Remove(o, "ok", "err")
    BY DEF T!Forget
  <2> QED
    BY <2>1, TkgmRemoves
<1>2. /\ TkgmLocal(o) /\ TkgmCreate(o) /\ TkgmDelete(o) /\ TkgmLinked /\ Kind(o) = "forceDelete"
      /\ req[o].expose \in BOOLEAN
  <2>1. TkgmLocal(o) /\ TkgmCreate(o) /\ TkgmDelete(o) /\ TkgmLinked
    BY DEF TkgmInv
  <2> QED
    BY <1>1, <2>1, TkgmAt DEF TkgmCalls
<1>3. /\ Frame(o) /\ T!TypeOK'
      /\ pc'[o] \in {"ok", "err"}
      /\ req'[o] = req[o] /\ mem'[o] = mem[o] /\ task'[o] = task[o]
  BY <1>1, TkgmMoves, TkgmTyped DEF Typed
<1>4. TkgmLocal(o)'
  BY <1>1, <1>2, <1>3, TkgmPaths
  DEF TkgmLocal, Resizes, Kind, TkgmCalls, TkgmCreates, TkgmUpdates, TkgmDeletes, TkgmForced,
      TkgmNodes, Refused
<1>5. TkgmCreate(o)' /\ TkgmDelete(o)'
  BY <1>1, <1>2, <1>3 DEF TkgmCreate, TkgmDelete, Creates, TkgmCalls, TkgmLocal, Kind, Resizes
<1> QED
  BY <1>1, <1>2, <1>3, <1>4, <1>5
  DEF TkgmSummary, TkgmLinked, Rewrites, Unexposing, T!Unexposes, Exists, Refused, Creates, Kind,
      PreCreated

\* A vApp that is made, or gets workers, is a vApp.
LEMMA TkgmVapps ==
  /\ T!NewVapp \in Vapps /\ T!NewVapp # Absent
  /\ \A n \in Int : vapp \in Vapps /\ vapp.workers + n \in Nat =>
       T!MoreWorkers(n) \in Vapps /\ T!MoreWorkers(n) # Absent
BY ThreadsAssumption DEF T!NewVapp, T!MoreWorkers, Vapps

\* The vApp of a create.
LEMMA TkgmMakeVapp ==
  ASSUME TkgmInv, NEW o \in Ops, T!MakeVapp(o)
  PROVE  TkgmSummary(o)
<1>1. /\ pc[o] = "makeVapp" /\ UNCHANGED <<rde, token, rule, faults, req, mem, task>>
      /\ vapp' \in Vapps \cup {Absent}
      /\ vapp = Absent
      /\ T!Goto(o, "oauth")
  <2>1. /\ pc[o] = "makeVapp" /\ vapp = Absent
        /\ vapp' = T!NewVapp
    BY DEF T!MakeVapp, T!Exists, Exists
  <2>2. Typed /\ TkgmLocal(o)
    BY TkgmTyped DEF TkgmInv
  <2>3. req[o].workers \in Nat
    BY <2>1, <2>2, TkgmAt
  <2>4. vapp' \in Vapps \cup {Absent}
    BY <2>1, <2>2, <2>3, TkgmVapps DEF Typed, Vapps, Entities, Exists
  <2> QED
    BY <2>1, <2>4 DEF T!MakeVapp, T!NextCall, T!state
<1>2. /\ TkgmLocal(o) /\ TkgmCreate(o) /\ TkgmDelete(o) /\ TkgmLinked /\ Kind(o) = "create"
      /\ req[o].expose \in BOOLEAN
  <2>1. TkgmLocal(o) /\ TkgmCreate(o) /\ TkgmDelete(o) /\ TkgmLinked
    BY DEF TkgmInv
  <2> QED
    BY <1>1, <2>1, TkgmAt DEF TkgmCalls
<1>3. /\ Frame(o) /\ T!TypeOK'
      /\ pc'[o] \in {"oauth"}
      /\ req'[o] = req[o] /\ mem'[o] = mem[o] /\ task'[o] = task[o]
  BY <1>1, TkgmMoves, TkgmTyped DEF Typed
<1>4. TkgmLocal(o)'
  BY <1>1, <1>2, <1>3, TkgmPaths
  DEF TkgmLocal, Resizes, Kind, TkgmCalls, TkgmCreates, TkgmUpdates, TkgmDeletes, TkgmForced,
      TkgmNodes, Refused
<1>5. TkgmCreate(o)' /\ TkgmDelete(o)'
  BY <1>1, <1>2, <1>3 DEF TkgmCreate, TkgmDelete, Creates, TkgmCalls, TkgmLocal, Kind, Resizes
<1> QED
  BY <1>1, <1>2, <1>3, <1>4, <1>5
  DEF TkgmSummary, TkgmLinked, Rewrites, Unexposing, T!Unexposes, Exists, Refused, Creates, Kind,
      PreCreated

\* The control plane of a create, and the rule that exposes it.
LEMMA TkgmAddControlPlane ==
  ASSUME TkgmInv, NEW o \in Ops, T!AddControlPlane(o)
  PROVE  TkgmSummary(o)
<1>1. /\ pc[o] = "controlPlane" /\ UNCHANGED <<rde, vapp, token, faults, req, mem, task>>
      /\ rule' = (rule \/ req[o].expose)
      /\ T!Goto(o, "link")
  BY TkgmTyped, ThreadsAssumption DEF T!AddControlPlane, T!NextCall, T!Fault, Typed
<1>2. /\ TkgmLocal(o) /\ TkgmCreate(o) /\ TkgmDelete(o) /\ TkgmLinked /\ Kind(o) = "create"
      /\ req[o].expose \in BOOLEAN
  <2>1. TkgmLocal(o) /\ TkgmCreate(o) /\ TkgmDelete(o) /\ TkgmLinked
    BY DEF TkgmInv
  <2> QED
    BY <1>1, <2>1, TkgmAt DEF TkgmCalls
<1>3. /\ Frame(o) /\ T!TypeOK'
      /\ pc'[o] \in {"link"}
      /\ req'[o] = req[o] /\ mem'[o] = mem[o] /\ task'[o] = task[o]
  BY <1>1, TkgmMoves, TkgmTyped DEF Typed
<1>4. TkgmLocal(o)'
  BY <1>1, <1>2, <1>3, TkgmPaths
  DEF TkgmLocal, Resizes, Kind, TkgmCalls, TkgmCreates, TkgmUpdates, TkgmDeletes, TkgmForced,
      TkgmNodes, Refused
<1>5. TkgmCreate(o)' /\ TkgmDelete(o)'
  BY <1>1, <1>2, <1>3 DEF TkgmCreate, TkgmDelete, Creates, TkgmCalls, TkgmLocal, Kind, Resizes
<1> QED
  BY <1>1, <1>2, <1>3, <1>4, <1>5
  DEF TkgmSummary, TkgmLinked, Rewrites, Unexposing, T!Unexposes, Exists, Refused, Creates, Kind,
      PreCreated

\* The workers of a create.
LEMMA TkgmAddWorkers ==
  ASSUME TkgmInv, NEW o \in Ops, T!AddWorkers(o)
  PROVE  TkgmSummary(o)
<1>1. /\ pc[o] = "workers" /\ UNCHANGED <<rde, token, rule, faults, req, mem, task>>
      /\ vapp' \in Vapps \cup {Absent}
      /\ vapp # Absent
      /\ T!Goto(o, "record")
  <2>1. /\ pc[o] = "workers" /\ vapp # Absent
        /\ vapp' = T!MoreWorkers(req[o].workers)
    BY DEF T!AddWorkers, T!Exists, Exists
  <2>2. Typed /\ TkgmLocal(o)
    BY TkgmTyped DEF TkgmInv
  <2>3. req[o].workers \in Nat
    BY <2>1, <2>2, TkgmAt
  <2>4. vapp' \in Vapps \cup {Absent}
    BY <2>1, <2>2, <2>3, TkgmVapps DEF Typed, Vapps, Entities, Exists
  <2> QED
    BY <2>1, <2>4 DEF T!AddWorkers, T!NextCall, T!state
<1>2. /\ TkgmLocal(o) /\ TkgmCreate(o) /\ TkgmDelete(o) /\ TkgmLinked /\ Kind(o) = "create"
      /\ req[o].expose \in BOOLEAN
  <2>1. TkgmLocal(o) /\ TkgmCreate(o) /\ TkgmDelete(o) /\ TkgmLinked
    BY DEF TkgmInv
  <2> QED
    BY <1>1, <2>1, TkgmAt DEF TkgmCalls
<1>3. /\ Frame(o) /\ T!TypeOK'
      /\ pc'[o] \in {"record"}
      /\ req'[o] = req[o] /\ mem'[o] = mem[o] /\ task'[o] = task[o]
  BY <1>1, TkgmMoves, TkgmTyped DEF Typed
<1>4. TkgmLocal(o)'
  BY <1>1, <1>2, <1>3, TkgmPaths
  DEF TkgmLocal, Resizes, Kind, TkgmCalls, TkgmCreates, TkgmUpdates, TkgmDeletes, TkgmForced,
      TkgmNodes, Refused
<1>5. TkgmCreate(o)' /\ TkgmDelete(o)'
  BY <1>1, <1>2, <1>3 DEF TkgmCreate, TkgmDelete, Creates, TkgmCalls, TkgmLocal, Kind, Resizes
<1> QED
  BY <1>1, <1>2, <1>3, <1>4, <1>5
  DEF TkgmSummary, TkgmLinked, Rewrites, Unexposing, T!Unexposes, Exists, Refused, Creates, Kind,
      PreCreated

\* The new nodes of a resize.
LEMMA TkgmAdd ==
  ASSUME TkgmInv, NEW o \in Ops, T!Add(o)
  PROVE  TkgmSummary(o)
<1>1. /\ pc[o] = "add" /\ UNCHANGED <<rde, token, rule, faults, req, mem, task>>
      /\ vapp' \in Vapps \cup {Absent}
      /\ vapp # Absent
      /\ T!Goto(o, "unexpose")
  <2>1. /\ pc[o] = "add" /\ vapp # Absent /\ Exists
        /\ \/ vapp' = vapp
           \/ req[o].workers > rde.workers /\ vapp' = T!MoreWorkers(req[o].workers - rde.workers)
    BY DEF T!Add, T!Exists, Exists
  <2>2. Typed /\ TkgmLocal(o)
    BY TkgmTyped DEF TkgmInv
  <2>3. req[o].workers \in Nat
    BY <2>1, <2>2, TkgmAt
  <2>4. vapp' \in Vapps \cup {Absent}
    BY <2>1, <2>2, <2>3, TkgmVapps DEF Typed, Vapps, Entities, Exists
  <2> QED
    BY <2>1, <2>4 DEF T!Add, T!NextCall, T!state
<1>2. /\ TkgmLocal(o) /\ TkgmCreate(o) /\ TkgmDelete(o) /\ TkgmLinked /\ Kind(o) = "update"
      /\ req[o].expose \in BOOLEAN
  <2>1. TkgmLocal(o) /\ TkgmCreate(o) /\ TkgmDelete(o) /\ TkgmLinked
    BY DEF TkgmInv
  <2> QED
    BY <1>1, <2>1, TkgmAt DEF TkgmCalls
<1>3. /\ Frame(o) /\ T!TypeOK'
      /\ pc'[o] \in {"unexpose"}
      /\ req'[o] = req[o] /\ mem'[o] = mem[o] /\ task'[o] = task[o]
  BY <1>1, TkgmMoves, TkgmTyped DEF Typed
<1>4. TkgmLocal(o)'
  BY <1>1, <1>2, <1>3, TkgmPaths
  DEF TkgmLocal, Resizes, Kind, TkgmCalls, TkgmCreates, TkgmUpdates, TkgmDeletes, TkgmForced,
      TkgmNodes, Refused
<1>5. TkgmCreate(o)' /\ TkgmDelete(o)'
  BY <1>1, <1>2, <1>3 DEF TkgmCreate, TkgmDelete, Creates, TkgmCalls, TkgmLocal, Kind, Resizes
<1> QED
  BY <1>1, <1>2, <1>3, <1>4, <1>5
  DEF TkgmSummary, TkgmLinked, Rewrites, Unexposing, T!Unexposes, Exists, Refused, Creates, Kind,
      PreCreated

\* The end of an exposure.
LEMMA TkgmUnexpose ==
  ASSUME TkgmInv, NEW o \in Ops, T!Unexpose(o)
  PROVE  TkgmSummary(o)
<1>1. /\ pc[o] = "unexpose" /\ UNCHANGED <<rde, vapp, token, faults, req, mem, task>>
      /\ rule' = (rule /\ ~T!Unexposes(o))
      /\ T!Goto(o, "finish")
  BY TkgmTyped, ThreadsAssumption DEF T!Unexpose, T!NextCall, T!Fault, Typed
<1>2. /\ TkgmLocal(o) /\ TkgmCreate(o) /\ TkgmDelete(o) /\ TkgmLinked /\ Kind(o) = "update"
      /\ req[o].expose \in BOOLEAN
  <2>1. TkgmLocal(o) /\ TkgmCreate(o) /\ TkgmDelete(o) /\ TkgmLinked
    BY DEF TkgmInv
  <2> QED
    BY <1>1, <2>1, TkgmAt DEF TkgmCalls
<1>3. /\ Frame(o) /\ T!TypeOK'
      /\ pc'[o] \in {"finish"}
      /\ req'[o] = req[o] /\ mem'[o] = mem[o] /\ task'[o] = task[o]
  BY <1>1, TkgmMoves, TkgmTyped DEF Typed
<1>4. TkgmLocal(o)'
  BY <1>1, <1>2, <1>3, TkgmPaths
  DEF TkgmLocal, Resizes, Kind, TkgmCalls, TkgmCreates, TkgmUpdates, TkgmDeletes, TkgmForced,
      TkgmNodes, Refused
<1>5. TkgmCreate(o)' /\ TkgmDelete(o)'
  BY <1>1, <1>2, <1>3 DEF TkgmCreate, TkgmDelete, Creates, TkgmCalls, TkgmLocal, Kind, Resizes
<1> QED
  BY <1>1, <1>2, <1>3, <1>4, <1>5
  DEF TkgmSummary, TkgmLinked, Rewrites, Unexposing, T!Unexposes, Exists, Refused, Creates, Kind,
      PreCreated

\* A vApp that cannot be deleted.
LEMMA TkgmDeleteVappRaises ==
  ASSUME TkgmInv, NEW o \in Ops, T!DeleteVappRaises(o)
  PROVE  TkgmSummary(o)
<1>1. /\ pc[o] = "deleteVapp" /\ UNCHANGED <<rde, vapp, token, rule, faults, req, mem, task>>
      /\ mem[o].linked
      /\ T!Goto(o, "fail")
  BY TkgmTyped, ThreadsAssumption DEF T!DeleteVappRaises, T!NextCall, T!Fault, Typed, T!state
<1>2. /\ TkgmLocal(o) /\ TkgmCreate(o) /\ TkgmDelete(o) /\ TkgmLinked /\ Kind(o) = "delete"
      /\ req[o].expose \in BOOLEAN
  <2>1. TkgmLocal(o) /\ TkgmCreate(o) /\ TkgmDelete(o) /\ TkgmLinked
    BY DEF TkgmInv
  <2> QED
    BY <1>1, <2>1, TkgmAt DEF TkgmCalls
<1>3. /\ Frame(o) /\ T!TypeOK'
      /\ pc'[o] \in {"fail"}
      /\ req'[o] = req[o] /\ mem'[o] = mem[o] /\ task'[o] = task[o]
  BY <1>1, TkgmMoves, TkgmTyped DEF Typed
<1>4. TkgmLocal(o)'
  BY <1>1, <1>2, <1>3, TkgmPaths
  DEF TkgmLocal, Resizes, Kind, TkgmCalls, TkgmCreates, TkgmUpdates, TkgmDeletes, TkgmForced,
      TkgmNodes, Refused
<1>5. TkgmCreate(o)' /\ TkgmDelete(o)'
  BY <1>1, <1>2, <1>3 DEF TkgmCreate, TkgmDelete, Creates, TkgmCalls, TkgmLocal, Kind, Resizes
<1> QED
  BY <1>1, <1>2, <1>3, <1>4, <1>5
  DEF TkgmSummary, TkgmLinked, Rewrites, Unexposing, T!Unexposes, Exists, Refused, Creates, Kind,
      PreCreated

\* The rollback of a create deletes its vApp.
LEMMA TkgmRollback ==
  ASSUME TkgmInv, NEW o \in Ops, T!Rollback(o)
  PROVE  TkgmSummary(o)
<1>1. /\ pc[o] = "rollback" /\ UNCHANGED <<rde, token, rule, req, mem, task>>
      /\ vapp' \in {vapp, Absent} /\ (faults' = 0 => vapp' = Absent)
      /\ faults' \in 0..MaxFaults /\ (faults' = 0 => faults = 0)
      /\ \/ T!Goto(o, "deleteRule")
         \/ T!Goto(o, "undo") /\ ~req[o].expose
  BY TkgmTyped, ThreadsAssumption DEF T!Rollback, T!Fault, Typed, T!AfterRollback
<1>2. /\ TkgmLocal(o) /\ TkgmCreate(o) /\ TkgmDelete(o) /\ TkgmLinked /\ Kind(o) = "create"
      /\ req[o].expose \in BOOLEAN
  <2>1. TkgmLocal(o) /\ TkgmCreate(o) /\ TkgmDelete(o) /\ TkgmLinked
    BY DEF TkgmInv
  <2> QED
    BY <1>1, <2>1, TkgmAt DEF TkgmCalls
<1>3. /\ Frame(o) /\ T!TypeOK'
      /\ \/ pc'[o] = "deleteRule"
         \/ pc'[o] = "undo" /\ ~req[o].expose
      /\ req'[o] = req[o] /\ mem'[o] = mem[o] /\ task'[o] = task[o]
  BY <1>1, TkgmMoves, TkgmTyped DEF Typed
<1>4. TkgmLocal(o)'
  BY <1>1, <1>2, <1>3, TkgmPaths
  DEF TkgmLocal, Resizes, Kind, TkgmCalls, TkgmCreates, TkgmUpdates, TkgmDeletes, TkgmForced,
      TkgmNodes, Refused
<1>5. TkgmCreate(o)' /\ TkgmDelete(o)'
  BY <1>1, <1>2, <1>3 DEF TkgmCreate, TkgmDelete, Creates, TkgmCalls, TkgmLocal, Kind, Resizes
<1> QED
  BY <1>1, <1>2, <1>3, <1>4, <1>5
  DEF TkgmSummary, TkgmLinked, Rewrites, Unexposing, T!Unexposes, Exists, Refused, Creates, Kind,
      PreCreated

\* A forced deletion takes the vApp away, if it can.
LEMMA TkgmPurge ==
  ASSUME TkgmInv, NEW o \in Ops, T!Purge(o)
  PROVE  TkgmSummary(o)
<1>1. /\ pc[o] = "rights" /\ UNCHANGED <<rde, token, rule, faults, req, mem, task>>
      /\ vapp' \in {vapp, Absent}
      /\ T!Goto(o, "deleteRule") \/ T!Goto(o, "err")
  BY TkgmTyped, ThreadsAssumption DEF T!Purge, T!NextCall, T!Fault, Typed
<1>2. /\ TkgmLocal(o) /\ TkgmCreate(o) /\ TkgmDelete(o) /\ TkgmLinked /\ Kind(o) = "forceDelete"
      /\ req[o].expose \in BOOLEAN
  <2>1. TkgmLocal(o) /\ TkgmCreate(o) /\ TkgmDelete(o) /\ TkgmLinked
    BY DEF TkgmInv
  <2> QED
    BY <1>1, <2>1, TkgmAt DEF TkgmCalls
<1>3. /\ Frame(o) /\ T!TypeOK'
      /\ pc'[o] \in {"deleteRule", "err"}
      /\ req'[o] = req[o] /\ mem'[o] = mem[o] /\ task'[o] = task[o]
  BY <1>1, TkgmMoves, TkgmTyped DEF Typed
<1>4. TkgmLocal(o)'
  BY <1>1, <1>2, <1>3, TkgmPaths
  DEF TkgmLocal, Resizes, Kind, TkgmCalls, TkgmCreates, TkgmUpdates, TkgmDeletes, TkgmForced,
      TkgmNodes, Refused
<1>5. TkgmCreate(o)' /\ TkgmDelete(o)'
  BY <1>1, <1>2, <1>3 DEF TkgmCreate, TkgmDelete, Creates, TkgmCalls, TkgmLocal, Kind, Resizes
<1> QED
  BY <1>1, <1>2, <1>3, <1>4, <1>5
  DEF TkgmSummary, TkgmLinked, Rewrites, Unexposing, T!Unexposes, Exists, Refused, Creates, Kind,
      PreCreated

\* A resize that cannot read the entity.
LEMMA TkgmMonitorRaises ==
  ASSUME TkgmInv, NEW o \in Ops, T!MonitorRaises(o)
  PROVE  TkgmSummary(o)
<1>1. /\ pc[o] = "monitor" /\ UNCHANGED <<rde, vapp, token, rule, req, mem, task>>
      /\ faults' \in 0..MaxFaults /\ (faults' = 0 => faults = 0)
      /\ T!Goto(o, "fail")
  BY TkgmTyped, ThreadsAssumption DEF T!MonitorRaises, T!CallFails, T!Fault, T!state, Typed
<1>2. /\ TkgmLocal(o) /\ TkgmCreate(o) /\ TkgmDelete(o) /\ TkgmLinked /\ Kind(o) = "update"
      /\ req[o].expose \in BOOLEAN
  <2>1. TkgmLocal(o) /\ TkgmCreate(o) /\ TkgmDelete(o) /\ TkgmLinked
    BY DEF TkgmInv
  <2> QED
    BY <1>1, <2>1, TkgmAt DEF TkgmCalls
<1>3. /\ Frame(o) /\ T!TypeOK'
      /\ pc'[o] \in {"fail"}
      /\ req'[o] = req[o] /\ mem'[o] = mem[o] /\ task'[o] = task[o]
  BY <1>1, TkgmMoves, TkgmTyped DEF Typed
<1>4. TkgmLocal(o)'
  BY <1>1, <1>2, <1>3, TkgmPaths
  DEF TkgmLocal, Resizes, Kind, TkgmCalls, TkgmCreates, TkgmUpdates, TkgmDeletes, TkgmForced,
      TkgmNodes, Refused
<1>5. TkgmCreate(o)' /\ TkgmDelete(o)'
  BY <1>1, <1>2, <1>3 DEF TkgmCreate, TkgmDelete, Creates, TkgmCalls, TkgmLocal, Kind, Resizes
<1> QED
  BY <1>1, <1>2, <1>3, <1>4, <1>5
  DEF TkgmSummary, TkgmLinked, Rewrites, Unexposing, T!Unexposes, Exists, Refused, Creates, Kind,
      PreCreated

\* The cluster, its address and its nodes are recorded.
LEMMA TkgmRecord ==
  ASSUME TkgmInv, NEW o \in Ops, T!Record(o)
  PROVE  TkgmSummary(o)
<1>1. /\ pc[o] = "record" /\ UNCHANGED <<vapp, token, rule, req, mem, task>>
      /\ rde' \in Entities \cup {Absent} /\ (Exists' <=> Exists)
      /\ \/ rde' = rde
         \/ rde'.state = rde.state /\ rde'.linked /\ rde'.exposed = req[o].expose
      /\ faults' \in 0..MaxFaults /\ (faults' = 0 => faults = 0)
      /\ T!Goto(o, "ok") \/ T!Goto(o, "fail")
  <2>1. /\ pc[o] = "record" /\ UNCHANGED <<vapp, token, rule, req, mem, task>>
        /\ T!Put(o, T!Created(o), "ok") \/ T!PutRaises(o, T!Created(o), "fail")
    BY DEF T!Record
  <2>2. Typed /\ req[o].expose \in BOOLEAN
    BY <2>1, TkgmTyped, TkgmAt DEF TkgmInv
  <2>3. Exists => /\ T!Created(o) \in Entities /\ T!Created(o).linked
                  /\ T!Created(o).state = rde.state /\ T!Created(o).exposed = req[o].expose
    <3> DEFINE w == IF vapp = Absent THEN rde.workers ELSE vapp.workers
    <3> SUFFICES ASSUME Exists PROVE rde \in Entities /\ w \in Nat /\
           T!Created(o) = [rde EXCEPT !.op = "CREATE", !.status = "SUCCEEDED", !.workers = w,
                                      !.linked = TRUE, !.exposed = req[o].expose]
      BY <2>2 DEF Entities, PhaseOps, Statuses
    <3> QED
      BY <2>2 DEF Typed, Exists, Entities, Vapps, T!Created, T!WithNodes, T!Phase
  <2>4. rde' = rde \/ (Exists /\ rde' = T!Created(o))
    BY <2>1 DEF T!Put, T!PutRaises, T!Exists, Exists
  <2>5. faults' \in 0..MaxFaults /\ (faults' = 0 => faults = 0)
    BY <2>1, <2>2, ThreadsAssumption DEF Typed, T!Put, T!PutRaises, T!Fault
  <2> QED
    BY <2>1, <2>2, <2>3, <2>4, <2>5, ThreadsAssumption DEF Typed, T!Put, T!PutRaises, Exists
<1>2. /\ TkgmLocal(o) /\ TkgmCreate(o) /\ TkgmDelete(o) /\ TkgmLinked /\ Kind(o) = "create"
      /\ req[o].expose \in BOOLEAN
  <2>1. TkgmLocal(o) /\ TkgmCreate(o) /\ TkgmDelete(o) /\ TkgmLinked
    BY DEF TkgmInv
  <2> QED
    BY <1>1, <2>1, TkgmAt DEF TkgmCalls
<1>3. /\ Frame(o) /\ T!TypeOK'
      /\ pc'[o] \in {"ok", "fail"}
      /\ req'[o] = req[o] /\ mem'[o] = mem[o] /\ task'[o] = task[o]
  BY <1>1, TkgmMoves, TkgmTyped DEF Typed
<1>4. TkgmLocal(o)'
  BY <1>1, <1>2, <1>3, TkgmPaths
  DEF TkgmLocal, Resizes, Kind, TkgmCalls, TkgmCreates, TkgmUpdates, TkgmDeletes, TkgmForced,
      TkgmNodes, Refused
<1>5. TkgmCreate(o)' /\ TkgmDelete(o)'
  BY <1>1, <1>2, <1>3 DEF TkgmCreate, TkgmDelete, Creates, TkgmCalls, TkgmLocal, Kind, Resizes
<1> QED
  BY <1>1, <1>2, <1>3, <1>4, <1>5
  DEF TkgmSummary, TkgmLinked, Rewrites, Unexposing, T!Unexposes, Exists, Refused, Creates, Kind,
      PreCreated, TkgmCreate

\* Nodes are deleted.
LEMMA TkgmDel ==
  ASSUME TkgmInv, NEW o \in Ops, T!Del(o)
  PROVE  TkgmSummary(o)
<1>1. /\ pc[o] = "del" /\ UNCHANGED <<rde, token, rule, faults, req, mem, task>>
      /\ vapp # Absent /\ vapp' \in Vapps \cup {Absent}
      /\ \/ Kind(o) = "update" /\ T!Goto(o, "unexpose")
         \/ Kind(o) # "update" /\ T!Goto(o, "finish")
  <2>1. /\ pc[o] = "del" /\ vapp # Absent /\ Exists
        /\ vapp.workers >= T!Surplus(o) /\ vapp' = T!MoreWorkers(-T!Surplus(o))
    BY DEF T!Del, T!Exists, Exists
  <2>2. Typed /\ TkgmLocal(o)
    BY TkgmTyped DEF TkgmInv
  <2>3. req[o].workers \in Nat
    BY <2>1, <2>2, TkgmAt
  <2>4. T!Surplus(o) \in Nat
    <3>1. rde.workers \in Nat
      BY <2>1, <2>2 DEF Typed, Entities, Exists
    <3>2. CASE req[o].kind = "deleteNodes"
      BY <3>2 DEF T!Surplus
    <3>3. CASE req[o].kind # "deleteNodes"
      BY <3>1, <3>3, <2>3 DEF T!Surplus
    <3> QED
      BY <3>2, <3>3
  <2>5. vapp' \in Vapps \cup {Absent}
    BY <2>1, <2>2, <2>4, TkgmVapps DEF Typed, Vapps
  <2> QED
    BY <2>1, <2>5 DEF T!Del, T!AfterChild, Kind
<1>2. /\ TkgmLocal(o) /\ TkgmCreate(o) /\ TkgmDelete(o) /\ TkgmLinked /\ Resizes(o)
      /\ req[o].expose \in BOOLEAN
  <2>1. TkgmLocal(o) /\ TkgmCreate(o) /\ TkgmDelete(o) /\ TkgmLinked
    BY DEF TkgmInv
  <2> QED
    BY <1>1, <2>1, TkgmAt DEF TkgmCalls
<1>3. /\ Frame(o) /\ T!TypeOK'
      /\ \/ Kind(o) = "update" /\ pc'[o] = "unexpose"
         \/ Kind(o) # "update" /\ pc'[o] = "finish"
      /\ req'[o] = req[o] /\ mem'[o] = mem[o] /\ task'[o] = task[o]
  BY <1>1, TkgmMoves, TkgmTyped DEF Typed
<1>4. TkgmLocal(o)'
  BY <1>1, <1>2, <1>3, TkgmPaths
  DEF TkgmLocal, Resizes, Kind, TkgmCalls, TkgmCreates, TkgmUpdates, TkgmDeletes, TkgmForced,
      TkgmNodes, Refused
<1>5. TkgmCreate(o)' /\ TkgmDelete(o)'
  BY <1>1, <1>2, <1>3 DEF TkgmCreate, TkgmDelete, Creates, TkgmCalls, TkgmLocal, Kind, Resizes
<1> QED
  BY <1>1, <1>2, <1>3, <1>4, <1>5
  DEF TkgmSummary, TkgmLinked, Rewrites, Unexposing, T!Unexposes, Exists, Refused, Creates, Kind,
      PreCreated

\* The vApp of a cluster that is linked to it is deleted.
LEMMA TkgmDeleteVapp ==
  ASSUME TkgmInv, NEW o \in Ops, T!DeleteVapp(o)
  PROVE  TkgmSummary(o)
<1>1. /\ pc[o] = "deleteVapp" /\ UNCHANGED <<rde, token, rule, faults, req, mem, task>>
      /\ \/ mem[o].linked /\ vapp' = Absent /\ T!Goto(o, "revoke")
         \/ ~mem[o].linked /\ vapp' = vapp /\ T!Goto(o, "ok")
  BY DEF T!DeleteVapp
<1>2. /\ TkgmLocal(o) /\ TkgmCreate(o) /\ TkgmDelete(o) /\ TkgmLinked /\ Kind(o) = "delete"
      /\ req[o].expose \in BOOLEAN
  <2>1. TkgmLocal(o) /\ TkgmCreate(o) /\ TkgmDelete(o) /\ TkgmLinked
    BY DEF TkgmInv
  <2> QED
    BY <1>1, <2>1, TkgmAt DEF TkgmCalls
<1>3. /\ Frame(o) /\ T!TypeOK'
      /\ \/ mem[o].linked /\ vapp' = Absent /\ pc'[o] = "revoke"
         \/ ~mem[o].linked /\ vapp' = vapp /\ pc'[o] = "ok"
      /\ req'[o] = req[o] /\ mem'[o] = mem[o] /\ task'[o] = task[o]
  BY <1>1, TkgmMoves, TkgmTyped DEF Typed
<1>4. TkgmLocal(o)'
  BY <1>1, <1>2, <1>3, TkgmPaths
  DEF TkgmLocal, Resizes, Kind, TkgmCalls, TkgmCreates, TkgmUpdates, TkgmDeletes, TkgmForced,
      TkgmNodes, Refused
<1>5. TkgmCreate(o)' /\ TkgmDelete(o)'
  BY <1>1, <1>2, <1>3 DEF TkgmCreate, TkgmDelete, Creates, TkgmCalls, TkgmLocal, Kind, Resizes
<1> QED
  BY <1>1, <1>2, <1>3, <1>4, <1>5
  DEF TkgmSummary, TkgmLinked, Rewrites, Unexposing, T!Unexposes, Exists, Refused, Creates, Kind,
      PreCreated

\* The refresh token of a deleted cluster is revoked.
LEMMA TkgmRevoke ==
  ASSUME TkgmInv, NEW o \in Ops, T!Revoke(o)
  PROVE  TkgmSummary(o)
<1>1. /\ pc[o] = "revoke" /\ UNCHANGED <<rde, vapp, rule, req, mem, task>>
      /\ token' \in BOOLEAN /\ (token' => token /\ faults' # 0)
      /\ faults' \in 0..MaxFaults /\ (faults' = 0 => faults = 0)
      /\ \/ mem[o].exposed /\ T!Goto(o, "deleteRule")
         \/ ~mem[o].exposed /\ T!Goto(o, "ok")
  <2>1. Typed /\ pc[o] = "revoke"
    BY TkgmTyped DEF T!Revoke
  <2>2. /\ token' \in BOOLEAN /\ (token' => token /\ faults' # 0)
        /\ faults' \in 0..MaxFaults /\ (faults' = 0 => faults = 0)
    <3>1. CASE token' = FALSE /\ UNCHANGED faults
      BY <2>1, <3>1 DEF Typed
    <3>2. CASE UNCHANGED token /\ T!Fault
      BY <2>1, <3>2, ThreadsAssumption DEF T!Fault, Typed
    <3> QED
      BY <3>1, <3>2 DEF T!Revoke
  <2>3. \/ mem[o].exposed /\ T!Goto(o, "deleteRule")
        \/ ~mem[o].exposed /\ T!Goto(o, "ok")
    BY DEF T!Revoke
  <2> QED
    BY <2>1, <2>2, <2>3 DEF T!Revoke
<1>2. /\ TkgmLocal(o) /\ TkgmCreate(o) /\ TkgmDelete(o) /\ TkgmLinked /\ Kind(o) = "delete"
      /\ req[o].expose \in BOOLEAN
  <2>1. TkgmLocal(o) /\ TkgmCreate(o) /\ TkgmDelete(o) /\ TkgmLinked
    BY DEF TkgmInv
  <2> QED
    BY <1>1, <2>1, TkgmAt DEF TkgmCalls
<1>3. /\ Frame(o) /\ T!TypeOK'
      /\ \/ mem[o].exposed /\ pc'[o] = "deleteRule"
         \/ ~mem[o].exposed /\ pc'[o] = "ok"
      /\ req'[o] = req[o] /\ mem'[o] = mem[o] /\ task'[o] = task[o]
  BY <1>1, TkgmMoves, TkgmTyped DEF Typed
<1>4. TkgmLocal(o)'
  BY <1>1, <1>2, <1>3, TkgmPaths
  DEF TkgmLocal, Resizes, Kind, TkgmCalls, TkgmCreates, TkgmUpdates, TkgmDeletes, TkgmForced,
      TkgmNodes, Refused
<1>5. TkgmCreate(o)' /\ TkgmDelete(o)'
  BY <1>1, <1>2, <1>3 DEF TkgmCreate, TkgmDelete, Creates, TkgmCalls, TkgmLocal, Kind, Resizes
<1> QED
  BY <1>1, <1>2, <1>3, <1>4, <1>5
  DEF TkgmSummary, TkgmLinked, Rewrites, Unexposing, T!Unexposes, Exists, Refused, Creates, Kind,
      PreCreated

\* The rule goes with the cluster.
LEMMA TkgmDeleteRule ==
  ASSUME TkgmInv, NEW o \in Ops, T!DeleteRule(o)
  PROVE  TkgmSummary(o)
<1>1. /\ pc[o] = "deleteRule" /\ UNCHANGED <<rde, vapp, token, req, mem, task>>
      /\ rule' \in BOOLEAN /\ (rule' => rule /\ faults' # 0)
      /\ faults' \in 0..MaxFaults /\ (faults' = 0 => faults = 0)
      /\ \/ Kind(o) = "create" /\ T!Goto(o, "undo")
         \/ Kind(o) = "forceDelete" /\ T!Goto(o, "forget")
         \/ Kind(o) \notin {"create", "forceDelete"} /\ T!Goto(o, "ok")
  <2>1. Typed /\ pc[o] = "deleteRule"
    BY TkgmTyped DEF T!DeleteRule
  <2>2. /\ rule' \in BOOLEAN /\ (rule' => rule /\ faults' # 0)
        /\ faults' \in 0..MaxFaults /\ (faults' = 0 => faults = 0)
    <3>1. CASE rule' = FALSE /\ UNCHANGED faults
      BY <2>1, <3>1 DEF Typed
    <3>2. CASE UNCHANGED rule /\ T!Fault
      BY <2>1, <3>2, ThreadsAssumption DEF T!Fault, Typed
    <3> QED
      BY <3>1, <3>2 DEF T!DeleteRule
  <2>3. \/ Kind(o) = "create" /\ T!Goto(o, "undo")
        \/ Kind(o) = "forceDelete" /\ T!Goto(o, "forget")
        \/ Kind(o) \notin {"create", "forceDelete"} /\ T!Goto(o, "ok")
    BY DEF T!DeleteRule, T!AfterRule, Kind
  <2> QED
    BY <2>1, <2>2, <2>3 DEF T!DeleteRule
<1>2. /\ TkgmLocal(o) /\ TkgmCreate(o) /\ TkgmDelete(o) /\ TkgmLinked
      /\ Kind(o) \in {"create", "delete", "forceDelete"}
      /\ req[o].expose \in BOOLEAN
  <2>1. TkgmLocal(o) /\ TkgmCreate(o) /\ TkgmDelete(o) /\ TkgmLinked
    BY DEF TkgmInv
  <2> QED
    BY <1>1, <2>1, TkgmAt DEF TkgmCalls
<1>3. /\ Frame(o) /\ T!TypeOK'
      /\ \/ Kind(o) = "create" /\ pc'[o] = "undo"
         \/ Kind(o) = "forceDelete" /\ pc'[o] = "forget"
         \/ Kind(o) \notin {"create", "forceDelete"} /\ pc'[o] = "ok"
      /\ req'[o] = req[o] /\ mem'[o] = mem[o] /\ task'[o] = task[o]
  BY <1>1, TkgmMoves, TkgmTyped DEF Typed
<1>4. TkgmLocal(o)'
  BY <1>1, <1>2, <1>3, TkgmPaths
  DEF TkgmLocal, Resizes, Kind, TkgmCalls, TkgmCreates, TkgmUpdates, TkgmDeletes, TkgmForced,
      TkgmNodes, Refused
<1>5. TkgmCreate(o)' /\ TkgmDelete(o)'
  BY <1>1, <1>2, <1>3 DEF TkgmCreate, TkgmDelete, Creates, TkgmCalls, TkgmLocal, Kind, Resizes
<1> QED
  BY <1>1, <1>2, <1>3, <1>4, <1>5
  DEF TkgmSummary, TkgmLinked, Rewrites, Unexposing, T!Unexposes, Exists, Refused, Creates, Kind,
      PreCreated

\* What request o keeps becomes m.
Keeps(o, m) == (UNCHANGED mem /\ m = mem[o]) \/ mem' = [mem EXCEPT ![o] = m]
SameBut(m, n, fields) ==
  /\ "linked" \notin fields => m.linked = n.linked
  /\ "exposed" \notin fields => m.exposed = n.exposed
  /\ "undo" \notin fields => m.undo = n.undo
  /\ "tok" \notin fields => m.tok = n.tok
  /\ "child" \notin fields => m.child = n.child
  /\ "error" \notin fields => m.error = n.error
  /\ "copy" \notin fields => m.copy = n.copy
  /\ "temp" \notin fields => m.temp = n.temp

\* A request that reads the entity remembers what it says of the cluster.
LEMMA TkgmReads ==
  ASSUME TkgmInv, NEW o \in Ops, Exists, T!Read(o)
  PROVE  \E m \in Memory : /\ Keeps(o, m) /\ SameBut(m, mem[o], {"linked", "exposed"})
                           /\ m.linked = rde.linked /\ m.exposed = rde.exposed
<1> DEFINE m == [mem[o] EXCEPT !.linked = rde.linked, !.exposed = rde.exposed, !.workers = rde.workers]
<1>1. mem \in [Ops -> Memory] /\ rde \in Entities
  BY TkgmTyped DEF Typed, Exists
<1>2. m \in Memory /\ SameBut(m, mem[o], {"linked", "exposed"}) /\ m.linked = rde.linked
        /\ m.exposed = rde.exposed
  BY <1>1 DEF Memory, Entities, SameBut
<1>3. mem' = [mem EXCEPT ![o] = m]
  BY <1>1 DEF T!Read
<1> HIDE DEF m
<1> QED
  BY <1>2, <1>3 DEF Keeps

\* A request that sets a mark remembers it, and the rest as it was.
LEMMA TkgmKeeps ==
  ASSUME TkgmInv, NEW o \in Ops, NEW b \in BOOLEAN
  PROVE  /\ mem' = [mem EXCEPT ![o].child = b] =>
              \E m \in Memory : Keeps(o, m) /\ SameBut(m, mem[o], {"child"}) /\ m.child = b
         /\ mem' = [mem EXCEPT ![o].tok = b] =>
              \E m \in Memory : Keeps(o, m) /\ SameBut(m, mem[o], {"tok"}) /\ m.tok = b
         /\ mem' = [mem EXCEPT ![o].undo = b] =>
              \E m \in Memory : Keeps(o, m) /\ SameBut(m, mem[o], {"undo"}) /\ m.undo = b
         /\ mem' = [mem EXCEPT ![o].error = TRUE, ![o].child = FALSE] =>
              \E m \in Memory : /\ Keeps(o, m) /\ SameBut(m, mem[o], {"error", "child"})
                                /\ m.error /\ ~m.child
         /\ UNCHANGED mem => \E m \in Memory : /\ Keeps(o, m) /\ m = mem[o]
                                              /\ \A fields : SameBut(m, mem[o], fields)
<1>1. mem \in [Ops -> Memory]
  BY TkgmTyped
<1>2. /\ [mem[o] EXCEPT !.child = b] \in Memory
      /\ SameBut([mem[o] EXCEPT !.child = b], mem[o], {"child"})
      /\ [mem[o] EXCEPT !.child = b].child = b
  BY <1>1 DEF Memory, SameBut
<1>3. /\ [mem[o] EXCEPT !.tok = b] \in Memory
      /\ SameBut([mem[o] EXCEPT !.tok = b], mem[o], {"tok"})
      /\ [mem[o] EXCEPT !.tok = b].tok = b
  BY <1>1 DEF Memory, SameBut
<1>4. /\ [mem[o] EXCEPT !.undo = b] \in Memory
      /\ SameBut([mem[o] EXCEPT !.undo = b], mem[o], {"undo"})
      /\ [mem[o] EXCEPT !.undo = b].undo = b
  BY <1>1 DEF Memory, SameBut
<1>5. /\ [mem[o] EXCEPT !.error = TRUE, !.child = FALSE] \in Memory
      /\ SameBut([mem[o] EXCEPT !.error = TRUE, !.child = FALSE], mem[o], {"error", "child"})
      /\ [mem[o] EXCEPT !.error = TRUE, !.child = FALSE].error
      /\ ~[mem[o] EXCEPT !.error = TRUE, !.child = FALSE].child
  BY <1>1 DEF Memory, SameBut
<1>6. ASSUME mem' = [mem EXCEPT ![o].error = TRUE, ![o].child = FALSE]
      PROVE  mem' = [mem EXCEPT ![o] = [mem[o] EXCEPT !.error = TRUE, !.child = FALSE]]
  BY <1>1, <1>6
<1>7. ASSUME mem' = [mem EXCEPT ![o].child = b]
      PROVE  mem' = [mem EXCEPT ![o] = [mem[o] EXCEPT !.child = b]]
  BY <1>1, <1>7
<1>8. ASSUME mem' = [mem EXCEPT ![o].tok = b]
      PROVE  mem' = [mem EXCEPT ![o] = [mem[o] EXCEPT !.tok = b]]
  BY <1>1, <1>8
<1>9. ASSUME mem' = [mem EXCEPT ![o].undo = b]
      PROVE  mem' = [mem EXCEPT ![o] = [mem[o] EXCEPT !.undo = b]]
  BY <1>1, <1>9
<1>10. \A fields : SameBut(mem[o], mem[o], fields)
  BY DEF SameBut
<1> QED
  BY <1>1, <1>2, <1>3, <1>4, <1>5, <1>6, <1>7, <1>8, <1>9, <1>10 DEF Keeps

\* The refresh token of a create.
LEMMA TkgmCreateToken ==
  ASSUME TkgmInv, NEW o \in Ops, T!CreateToken(o)
  PROVE  TkgmSummary(o)
<1>1. /\ pc[o] = "oauth" /\ UNCHANGED <<rde, vapp, rule, faults, req, task>>
      /\ token' = TRUE
      /\ T!Goto(o, "controlPlane")
  BY DEF T!CreateToken, T!NextCall
<1>2. /\ TkgmLocal(o) /\ TkgmCreate(o) /\ TkgmDelete(o) /\ TkgmLinked /\ Kind(o) = "create"
      /\ req[o].expose \in BOOLEAN /\ mem[o] \in Memory /\ task[o] \in TaskStatuses
  <2>1. TkgmLocal(o) /\ TkgmCreate(o) /\ TkgmDelete(o) /\ TkgmLinked
    BY DEF TkgmInv
  <2> QED
    BY <1>1, <2>1, TkgmAt, TkgmTyped DEF TkgmCalls
<1>3. PICK m \in Memory : /\ Keeps(o, m)
                          /\ SameBut(m, mem[o], {"tok"})
                          /\ m.tok = TRUE
  BY TkgmKeeps DEF T!CreateToken
<1>4. /\ Frame(o) /\ T!TypeOK' /\ req'[o] = req[o] /\ mem'[o] = m /\ task'[o] = task[o]
      /\ pc'[o] = "controlPlane"
  BY <1>1, <1>2, <1>3, TkgmFrame, TkgmTyped DEF Typed, Keeps
<1>5. TkgmLocal(o)'
  BY <1>1, <1>2, <1>3, <1>4, TkgmPaths
  DEF TkgmLocal, SameBut, Resizes, Kind, TkgmCalls, TkgmCreates, TkgmUpdates, TkgmDeletes,
      TkgmForced, TkgmNodes, Refused
<1>6. TkgmCreate(o)' /\ TkgmDelete(o)'
  BY <1>1, <1>2, <1>3, <1>4
  DEF TkgmCreate, TkgmDelete, SameBut, Creates, TkgmCalls, TkgmLocal, Kind, Resizes
<1> QED
  BY <1>1, <1>2, <1>3, <1>4, <1>5, <1>6
  DEF TkgmSummary, SameBut, TkgmLinked, Rewrites, Unexposing, T!Unexposes, Exists, Refused,
      Creates, Kind, PreCreated

\* A resize compares the request with the entity.
LEMMA TkgmMonitor ==
  ASSUME TkgmInv, NEW o \in Ops, T!Monitor(o)
  PROVE  TkgmSummary(o)
<1>1. /\ pc[o] = "monitor" /\ Exists /\ UNCHANGED <<rde, vapp, token, rule, faults, req, task>>
      /\ T!Goto(o, "add") \/ T!Goto(o, "del") \/ T!Goto(o, "unexpose")
  <2>1. pc[o] = "monitor" /\ Exists /\ rde \in Entities /\ TkgmLocal(o)
    BY TkgmTyped DEF T!Monitor, T!Exists, Exists, Typed, TkgmInv
  <2>2. req[o].workers \in Nat /\ rde.workers \in Nat
    BY <2>1, TkgmAt DEF Entities
  <2> QED
    BY <2>1, <2>2 DEF T!Monitor, T!state
<1>2. /\ TkgmLocal(o) /\ TkgmCreate(o) /\ TkgmDelete(o) /\ TkgmLinked /\ Kind(o) = "update"
      /\ req[o].expose \in BOOLEAN /\ mem[o] \in Memory /\ task[o] \in TaskStatuses
  <2>1. TkgmLocal(o) /\ TkgmCreate(o) /\ TkgmDelete(o) /\ TkgmLinked
    BY DEF TkgmInv
  <2> QED
    BY <1>1, <2>1, TkgmAt, TkgmTyped DEF TkgmCalls
<1>3. PICK m \in Memory : /\ Keeps(o, m)
                          /\ SameBut(m, mem[o], {"linked", "exposed"})
                          /\ m.linked = rde.linked /\ m.exposed = rde.exposed
  BY <1>1, TkgmReads DEF T!Monitor
<1>4. /\ Frame(o) /\ T!TypeOK' /\ req'[o] = req[o] /\ mem'[o] = m /\ task'[o] = task[o]
      /\ pc'[o] \in {"add", "del", "unexpose"}
  BY <1>1, <1>2, <1>3, TkgmFrame, TkgmTyped DEF Typed, Keeps
<1>5. TkgmLocal(o)'
  BY <1>1, <1>2, <1>3, <1>4, TkgmPaths
  DEF TkgmLocal, SameBut, Resizes, Kind, TkgmCalls, TkgmCreates, TkgmUpdates, TkgmDeletes,
      TkgmForced, TkgmNodes, Refused
<1>6. TkgmCreate(o)' /\ TkgmDelete(o)'
  BY <1>1, <1>2, <1>3, <1>4
  DEF TkgmCreate, TkgmDelete, SameBut, Creates, TkgmCalls, TkgmLocal, Kind, Resizes
<1> QED
  BY <1>1, <1>2, <1>3, <1>4, <1>5, <1>6
  DEF TkgmSummary, SameBut, TkgmLinked, Rewrites, Unexposing, T!Unexposes, Exists, Refused,
      Creates, Kind, PreCreated

\* A create that failed revokes its token.
LEMMA TkgmRevokeFailed ==
  ASSUME TkgmInv, NEW o \in Ops, T!RevokeFailed(o)
  PROVE  TkgmSummary(o)
<1>1. /\ pc[o] = "fail" /\ mem[o].tok /\ UNCHANGED <<rde, vapp, rule, req, pc, task>>
      /\ token' \in BOOLEAN /\ (token' => token /\ faults' # 0)
      /\ faults' \in 0..MaxFaults /\ (faults' = 0 => faults = 0)
  <2>1. /\ pc[o] = "fail" /\ Kind(o) = "create" /\ mem[o].tok
        /\ UNCHANGED <<rde, vapp, rule, req, pc, task>> /\ Typed /\ DOMAIN pc = Ops
    BY TkgmTyped DEF T!RevokeFailed, T!Revokes, Kind
  <2>2. /\ token' \in BOOLEAN /\ (token' => token /\ faults' # 0)
        /\ faults' \in 0..MaxFaults /\ (faults' = 0 => faults = 0)
    <3>1. CASE token' = FALSE /\ UNCHANGED faults
      BY <2>1, <3>1 DEF Typed
    <3>2. CASE UNCHANGED token /\ T!Fault
      BY <2>1, <3>2, ThreadsAssumption DEF T!Fault, Typed
    <3> QED
      BY <3>1, <3>2 DEF T!RevokeFailed
  <2> QED
    BY <2>1, <2>2
<1>2. /\ TkgmLocal(o) /\ TkgmCreate(o) /\ TkgmDelete(o) /\ TkgmLinked
      /\ Kind(o) \in T!Kinds \ {"forceDelete", "info"}
      /\ req[o].expose \in BOOLEAN /\ mem[o] \in Memory /\ task[o] \in TaskStatuses
  <2>1. TkgmLocal(o) /\ TkgmCreate(o) /\ TkgmDelete(o) /\ TkgmLinked
    BY DEF TkgmInv
  <2> QED
    BY <1>1, <2>1, TkgmAt, TkgmTyped DEF TkgmCalls
<1>3. PICK m \in Memory : /\ Keeps(o, m)
                          /\ SameBut(m, mem[o], {"tok"})
                          /\ m.tok = FALSE
  BY TkgmKeeps DEF T!RevokeFailed
<1>4. /\ Frame(o) /\ T!TypeOK' /\ req'[o] = req[o] /\ mem'[o] = m /\ task'[o] = task[o]
      /\ pc'[o] = "fail"
  BY <1>1, <1>2, <1>3, TkgmFrame, TkgmTyped DEF Typed, Keeps
<1>5. TkgmLocal(o)'
  BY <1>1, <1>2, <1>3, <1>4, TkgmPaths
  DEF TkgmLocal, SameBut, Resizes, Kind, TkgmCalls, TkgmCreates, TkgmUpdates, TkgmDeletes,
      TkgmForced, TkgmNodes, Refused, T!Kinds
<1>6. TkgmCreate(o)' /\ TkgmDelete(o)'
  BY <1>1, <1>2, <1>3, <1>4
  DEF TkgmCreate, TkgmDelete, SameBut, Creates, TkgmCalls, TkgmLocal, Kind, Resizes, T!Kinds
<1> QED
  BY <1>1, <1>2, <1>3, <1>4, <1>5, <1>6
  DEF TkgmSummary, SameBut, TkgmLinked, Rewrites, Unexposing, T!Unexposes, Exists, Refused,
      Creates, Kind, PreCreated, T!Kinds

\* The end of an exposure fails.
LEMMA TkgmUnexposeRaises ==
  ASSUME TkgmInv, NEW o \in Ops, T!UnexposeRaises(o)
  PROVE  TkgmSummary(o)
<1>1. /\ pc[o] = "unexpose" /\ UNCHANGED <<rde, vapp, token, req, task>>
      /\ rule' \in BOOLEAN /\ (rule' => rule) /\ (faults' = 0 => rule' = rule)
      /\ faults' \in 0..MaxFaults /\ (faults' = 0 => faults = 0)
      /\ T!Goto(o, "fail")
  <2>1. Typed /\ (rule' = rule \/ rule' = FALSE)
    BY TkgmTyped DEF T!UnexposeRaises
  <2>2. /\ faults' \in 0..MaxFaults /\ (faults' = 0 => faults = 0 /\ rule' = rule)
    <3>1. CASE UNCHANGED <<rule, faults>>
      BY <2>1, <3>1 DEF Typed
    <3>2. CASE T!Fault
      BY <2>1, <3>2, ThreadsAssumption DEF T!Fault, Typed
    <3> QED
      BY <3>1, <3>2 DEF T!UnexposeRaises
  <2>3. rule' \in BOOLEAN /\ (rule' => rule) /\ (faults' = 0 => rule' = rule)
    <3>1. CASE rule' = rule
      BY <2>1, <3>1 DEF Typed
    <3>2. CASE rule' = FALSE
      BY <2>2, <3>2
    <3> QED
      BY <2>1, <3>1, <3>2
  <2> QED
    BY <2>2, <2>3 DEF T!UnexposeRaises
<1>2. /\ TkgmLocal(o) /\ TkgmCreate(o) /\ TkgmDelete(o) /\ TkgmLinked /\ Kind(o) = "update"
      /\ req[o].expose \in BOOLEAN /\ mem[o] \in Memory /\ task[o] \in TaskStatuses
  <2>1. TkgmLocal(o) /\ TkgmCreate(o) /\ TkgmDelete(o) /\ TkgmLinked
    BY DEF TkgmInv
  <2> QED
    BY <1>1, <2>1, TkgmAt, TkgmTyped DEF TkgmCalls
<1>3. PICK m \in Memory : /\ Keeps(o, m)
                          /\ SameBut(m, mem[o], {"child"})
                          /\ m.child = FALSE
  BY TkgmKeeps DEF T!UnexposeRaises
<1>4. /\ Frame(o) /\ T!TypeOK' /\ req'[o] = req[o] /\ mem'[o] = m /\ task'[o] = task[o]
      /\ pc'[o] = "fail"
  BY <1>1, <1>2, <1>3, TkgmFrame, TkgmTyped DEF Typed, Keeps
<1>5. TkgmLocal(o)'
  BY <1>1, <1>2, <1>3, <1>4, TkgmPaths
  DEF TkgmLocal, SameBut, Resizes, Kind, TkgmCalls, TkgmCreates, TkgmUpdates, TkgmDeletes,
      TkgmForced, TkgmNodes, Refused
<1>6. TkgmCreate(o)' /\ TkgmDelete(o)'
  BY <1>1, <1>2, <1>3, <1>4
  DEF TkgmCreate, TkgmDelete, SameBut, Creates, TkgmCalls, TkgmLocal, Kind, Resizes
<1> QED
  BY <1>1, <1>2, <1>3, <1>4, <1>5, <1>6
  DEF TkgmSummary, SameBut, TkgmLinked, Rewrites, Unexposing, T!Unexposes, Exists, Refused,
      Creates, Kind, PreCreated

\* New nodes fail, and some may stay.
LEMMA TkgmAddRaises ==
  ASSUME TkgmInv, NEW o \in Ops, T!AddRaises(o)
  PROVE  TkgmSummary(o)
<1>1. /\ pc[o] = "add" /\ UNCHANGED <<rde, token, rule, faults, req, task>>
      /\ vapp' \in Vapps \cup {Absent} /\ (vapp' # Absent => vapp # Absent)
      /\ T!Goto(o, "fail")
  <2>1. Typed /\ (vapp' = vapp \/ (vapp # Absent /\ vapp' = T!MoreWorkers(1)))
    BY TkgmTyped DEF T!AddRaises
  <2>2. vapp' \in Vapps \cup {Absent}
    BY <2>1, TkgmVapps DEF Typed, Vapps
  <2> QED
    BY <2>1, <2>2 DEF T!AddRaises
<1>2. /\ TkgmLocal(o) /\ TkgmCreate(o) /\ TkgmDelete(o) /\ TkgmLinked /\ Kind(o) = "update"
      /\ req[o].expose \in BOOLEAN /\ mem[o] \in Memory /\ task[o] \in TaskStatuses
  <2>1. TkgmLocal(o) /\ TkgmCreate(o) /\ TkgmDelete(o) /\ TkgmLinked
    BY DEF TkgmInv
  <2> QED
    BY <1>1, <2>1, TkgmAt, TkgmTyped DEF TkgmCalls
<1>3. PICK m \in Memory : /\ Keeps(o, m)
                          /\ SameBut(m, mem[o], {"child"})
                          /\ m.child = TRUE
  BY TkgmKeeps DEF T!AddRaises
<1>4. /\ Frame(o) /\ T!TypeOK' /\ req'[o] = req[o] /\ mem'[o] = m /\ task'[o] = task[o]
      /\ pc'[o] = "fail"
  BY <1>1, <1>2, <1>3, TkgmFrame, TkgmTyped DEF Typed, Keeps
<1>5. TkgmLocal(o)'
  BY <1>1, <1>2, <1>3, <1>4, TkgmPaths
  DEF TkgmLocal, SameBut, Resizes, Kind, TkgmCalls, TkgmCreates, TkgmUpdates, TkgmDeletes,
      TkgmForced, TkgmNodes, Refused
<1>6. TkgmCreate(o)' /\ TkgmDelete(o)'
  BY <1>1, <1>2, <1>3, <1>4
  DEF TkgmCreate, TkgmDelete, SameBut, Creates, TkgmCalls, TkgmLocal, Kind, Resizes
<1> QED
  BY <1>1, <1>2, <1>3, <1>4, <1>5, <1>6
  DEF TkgmSummary, SameBut, TkgmLinked, Rewrites, Unexposing, T!Unexposes, Exists, Refused,
      Creates, Kind, PreCreated

\* A request that takes the entity for itself rewrites it.
LEMMA TkgmBusy ==
  ASSUME rde \in Entities, vapp \in Vapps \cup {Absent}, NEW o \in Ops, NEW op \in PhaseOps
  PROVE  Rewrites([T!Phase(op, "IN_PROGRESS") EXCEPT !.task = o])
<1>1. "IN_PROGRESS" \in Statuses
  BY DEF Statuses
<1> QED
  BY <1>1, Rewritten

\* What an update writes at its end rewrites the entity, and unexposes it if it should.
LEMMA TkgmFinished ==
  ASSUME rde \in Entities, vapp \in Vapps \cup {Absent}, NEW o \in Ops
  PROVE  Rewrites(T!Finished(o)) /\ (T!Unexposes(o) => ~T!Finished(o).exposed)
<1> DEFINE s == IF mem[o].error THEN "FAILED" ELSE "SUCCEEDED"
           x == ~T!Unexposes(o)
<1>1. s \in Statuses /\ x \in BOOLEAN /\ "UPDATE" \in PhaseOps
  BY DEF Statuses, PhaseOps
<1>2. T!Finished(o) = [T!WithNodes(T!Phase("UPDATE", s)) EXCEPT !.exposed = @ /\ x]
  BY DEF T!Finished
<1> HIDE DEF s, x
<1>3. Rewrites(T!Finished(o)) /\ T!Finished(o).exposed = (rde.exposed /\ x)
  BY <1>1, <1>2, Rewritten
<1> QED
  BY <1>3 DEF x

\* The entity says that its cluster is being worked on.
LEMMA TkgmMarkBusy ==
  ASSUME TkgmInv, NEW o \in Ops, T!MarkBusy(o)
  PROVE  TkgmSummary(o)
<1>1. PICK p : /\ pc[o] = "set" /\ UNCHANGED <<vapp, token, rule, req, task>> /\ T!Goto(o, p)
               /\ rde' \in Entities \cup {Absent} /\ (Exists => Rewrites(rde'))
               /\ (Exists' <=> Exists) /\ faults' \in 0..MaxFaults /\ (faults' = 0 => faults = 0)
               /\ Kind(o) = "create" => p \in {"makeVapp", "abort"}
               /\ Kind(o) = "update" => p \in {"monitor", "error"}
               /\ Kind(o) = "delete" => p \in {"deleteVapp", "error"}
               /\ Kind(o) = "deleteNodes" => p \in {"del", "error"}
  <2>1. /\ pc[o] = "set" /\ UNCHANGED <<vapp, token, rule, req, task>>
    BY DEF T!MarkBusy
  <2>2. Typed /\ T!PhaseOp(o) \in PhaseOps
    BY TkgmTyped DEF T!PhaseOp, PhaseOps
  <2>3. Exists => Rewrites(T!InProgress(o))
    BY <2>2, TkgmBusy DEF Typed, Exists, T!InProgress, Statuses
  <2>4. Kind(o) \in {"create", "update", "delete", "deleteNodes"}
    BY <2>1, TkgmAt DEF TkgmInv
  <2>5. PICK p : /\ T!Put(o, T!InProgress(o), p) \/ T!PutRaises(o, T!InProgress(o), p)
                 /\ p \in {T!FirstPc[Kind(o)], IF Kind(o) = "create" THEN "abort" ELSE "error"}
    BY DEF T!MarkBusy, Kind
  <2>6. /\ Kind(o) = "create" => p \in {"makeVapp", "abort"}
        /\ Kind(o) = "update" => p \in {"monitor", "error"}
        /\ Kind(o) = "delete" => p \in {"deleteVapp", "error"}
        /\ Kind(o) = "deleteNodes" => p \in {"del", "error"}
    BY <2>5 DEF T!FirstPc
  <2>7. /\ T!Goto(o, p)
        /\ rde' \in Entities \cup {Absent} /\ (Exists => Rewrites(rde')) /\ (Exists' <=> Exists)
        /\ faults' \in 0..MaxFaults /\ (faults' = 0 => faults = 0)
    BY <2>3, <2>5, TkgmWrites
  <2> QED
    BY <2>1, <2>6, <2>7
<1>2. /\ TkgmLocal(o) /\ TkgmCreate(o) /\ TkgmDelete(o) /\ TkgmLinked
      /\ Kind(o) \in {"create", "update", "delete", "deleteNodes"}
      /\ req[o].expose \in BOOLEAN /\ mem[o] \in Memory /\ task[o] \in TaskStatuses
  <2>1. TkgmLocal(o) /\ TkgmCreate(o) /\ TkgmDelete(o) /\ TkgmLinked
    BY DEF TkgmInv
  <2> QED
    BY <1>1, <2>1, TkgmAt, TkgmTyped DEF TkgmCalls
<1>3. PICK m \in Memory : /\ Keeps(o, m)
                          /\ SameBut(m, mem[o], {"child"})
                          /\ m.child => Kind(o) = "deleteNodes" \/ mem[o].child
  <2>1. \/ mem' = [mem EXCEPT ![o].child = (Kind(o) = "deleteNodes")]
        \/ UNCHANGED mem
    BY DEF T!MarkBusy, Kind
  <2>2. CASE UNCHANGED mem
    BY <2>2, TkgmKeeps
  <2>3. CASE Kind(o) = "deleteNodes" /\ mem' = [mem EXCEPT ![o].child = TRUE]
    BY <2>3, TkgmKeeps
  <2>4. CASE mem' = [mem EXCEPT ![o].child = FALSE]
    BY <2>4, TkgmKeeps
  <2> QED
    BY <2>1, <2>2, <2>3, <2>4
<1>4. /\ Frame(o) /\ T!TypeOK' /\ req'[o] = req[o] /\ mem'[o] = m /\ task'[o] = task[o]
      /\ pc'[o] = p
  BY <1>1, <1>2, <1>3, TkgmFrame, TkgmTyped DEF Typed, Keeps
<1>5. TkgmLocal(o)'
  BY <1>1, <1>2, <1>3, <1>4, TkgmPaths
  DEF TkgmLocal, SameBut, Resizes, Kind, TkgmCalls, TkgmCreates, TkgmUpdates, TkgmDeletes,
      TkgmForced, TkgmNodes, Refused
<1>6. TkgmCreate(o)' /\ TkgmDelete(o)'
  BY <1>1, <1>2, <1>3, <1>4
  DEF TkgmCreate, TkgmDelete, SameBut, Creates, TkgmCalls, TkgmLocal, Kind, Resizes
<1> QED
  BY <1>1, <1>2, <1>3, <1>4, <1>5, <1>6
  DEF TkgmSummary, SameBut, TkgmLinked, Rewrites, Unexposing, T!Unexposes, Exists, Refused,
      Creates, Kind, PreCreated

\* The deletion of nodes fails, or its thread dies.
LEMMA TkgmDelRaises ==
  ASSUME TkgmInv, NEW o \in Ops, T!DelRaises(o)
  PROVE  TkgmSummary(o)
<1>1. PICK p : /\ pc[o] = "del" /\ UNCHANGED <<rde, vapp, token, rule, req, task>> /\ T!Goto(o, p)
               /\ faults' \in 0..MaxFaults /\ (faults' = 0 => faults = 0)
               /\ p = "fail" \/ p = (IF Kind(o) = "update" THEN "unexpose" ELSE "finish")
  <2>1. Typed
    BY TkgmTyped
  <2>2. PICK p : /\ T!Goto(o, p) /\ (T!Fault \/ UNCHANGED faults)
                 /\ p = "fail" \/ p = T!AfterChild(o)
    BY DEF T!DelRaises, T!CallFails
  <2>3. /\ faults' \in 0..MaxFaults /\ (faults' = 0 => faults = 0)
    BY <2>1, <2>2, ThreadsAssumption DEF T!Fault, Typed
  <2> QED
    BY <2>2, <2>3 DEF T!DelRaises, T!state, T!AfterChild, Kind
<1>2. /\ TkgmLocal(o) /\ TkgmCreate(o) /\ TkgmDelete(o) /\ TkgmLinked /\ Resizes(o)
      /\ req[o].expose \in BOOLEAN /\ mem[o] \in Memory /\ task[o] \in TaskStatuses
  <2>1. TkgmLocal(o) /\ TkgmCreate(o) /\ TkgmDelete(o) /\ TkgmLinked
    BY DEF TkgmInv
  <2> QED
    BY <1>1, <2>1, TkgmAt, TkgmTyped DEF TkgmCalls
<1>3. PICK m \in Memory : /\ Keeps(o, m)
                          /\ SameBut(m, mem[o], {"child"})
  <2>1. UNCHANGED mem \/ mem' = [mem EXCEPT ![o].child = TRUE]
    BY DEF T!DelRaises
  <2> QED
    BY <2>1, TkgmKeeps
<1>4. /\ Frame(o) /\ T!TypeOK' /\ req'[o] = req[o] /\ mem'[o] = m /\ task'[o] = task[o]
      /\ pc'[o] = p
  BY <1>1, <1>2, <1>3, TkgmFrame, TkgmTyped DEF Typed, Keeps
<1>5. TkgmLocal(o)'
  BY <1>1, <1>2, <1>3, <1>4, TkgmPaths
  DEF TkgmLocal, SameBut, Resizes, Kind, TkgmCalls, TkgmCreates, TkgmUpdates, TkgmDeletes,
      TkgmForced, TkgmNodes, Refused
<1>6. TkgmCreate(o)' /\ TkgmDelete(o)'
  BY <1>1, <1>2, <1>3, <1>4
  DEF TkgmCreate, TkgmDelete, SameBut, Creates, TkgmCalls, TkgmLocal, Kind, Resizes
<1> QED
  BY <1>1, <1>2, <1>3, <1>4, <1>5, <1>6
  DEF TkgmSummary, SameBut, TkgmLinked, Rewrites, Unexposing, T!Unexposes, Exists, Refused,
      Creates, Kind, PreCreated

\* A call of a create raises.
LEMMA TkgmCallRaises ==
  ASSUME TkgmInv, NEW o \in Ops, T!CallRaises(o)
  PROVE  TkgmSummary(o)
<1>1. /\ pc[o] \in TkgmCalls /\ UNCHANGED <<rde, req, task, faults>>
      /\ vapp' \in Vapps \cup {Absent} /\ (vapp' # Absent => vapp # Absent \/ pc[o] = "makeVapp")
      /\ token' \in BOOLEAN /\ (token => token') /\ (token' => token \/ pc[o] = "oauth")
      /\ rule' \in BOOLEAN /\ (rule => rule')
      /\ rule' => rule \/ (pc[o] = "controlPlane" /\ req[o].expose)
      /\ T!Goto(o, "fail")
  <2>1. /\ pc[o] \in {"makeVapp", "oauth", "controlPlane", "workers"}
        /\ T!Partly(o) /\ T!Goto(o, "fail") /\ UNCHANGED <<rde, req, task, faults>>
    BY DEF T!CallRaises, T!Raises
  <2>2. Typed /\ req[o].workers \in Nat /\ req[o].expose \in BOOLEAN
    BY <2>1, TkgmTyped, TkgmAt DEF TkgmInv
  <2>3. \/ vapp' = vapp
        \/ pc[o] = "makeVapp" /\ vapp' \in {Absent, T!NewVapp}
        \/ pc[o] = "workers" /\ vapp # Absent /\ vapp' = T!MoreWorkers(req[o].workers)
    BY <2>1 DEF T!Partly
  <2>4. vapp' \in Vapps \cup {Absent}
    BY <2>2, <2>3, TkgmVapps DEF Typed, Vapps
  <2>5. token' \in BOOLEAN /\ (token => token') /\ (token' => token \/ pc[o] = "oauth")
    BY <2>1, <2>2 DEF T!Partly, Typed
  <2>6. /\ rule' \in BOOLEAN /\ (rule => rule')
        /\ rule' => rule \/ (pc[o] = "controlPlane" /\ req[o].expose)
    BY <2>1, <2>2 DEF T!Partly, Typed
  <2> QED
    BY <2>1, <2>3, <2>4, <2>5, <2>6 DEF TkgmCalls
<1>2. /\ TkgmLocal(o) /\ TkgmCreate(o) /\ TkgmDelete(o) /\ TkgmLinked /\ Kind(o) = "create"
      /\ req[o].expose \in BOOLEAN /\ mem[o] \in Memory /\ task[o] \in TaskStatuses
  <2>1. TkgmLocal(o) /\ TkgmCreate(o) /\ TkgmDelete(o) /\ TkgmLinked
    BY DEF TkgmInv
  <2> QED
    BY <1>1, <2>1, TkgmAt, TkgmTyped DEF TkgmCalls
<1>3. PICK m \in Memory : /\ Keeps(o, m)
                          /\ SameBut(m, mem[o], {"undo"})
                          /\ m.undo \in BOOLEAN /\ (m.undo => pc[o] # "oauth")
  <2>1. PICK e \in T!Raises[pc[o]] :
               mem' = [mem EXCEPT ![o].undo = (e \in T!Known /\ req[o].rollback)]
    BY DEF T!CallRaises
  <2>2. /\ (e \in T!Known /\ req[o].rollback) \in BOOLEAN
        /\ e \in T!Known => pc[o] # "oauth"
    BY DEF T!Raises, T!Known
  <2>3. \E m \in Memory : /\ Keeps(o, m) /\ SameBut(m, mem[o], {"undo"})
                           /\ m.undo = (e \in T!Known /\ req[o].rollback)
    BY <2>1, <2>2, TkgmKeeps
  <2> QED
    BY <2>2, <2>3
<1>4. /\ Frame(o) /\ T!TypeOK' /\ req'[o] = req[o] /\ mem'[o] = m /\ task'[o] = task[o]
      /\ pc'[o] = "fail"
  BY <1>1, <1>2, <1>3, TkgmFrame, TkgmTyped DEF Typed, Keeps
<1>5. TkgmLocal(o)'
  BY <1>1, <1>2, <1>3, <1>4, TkgmPaths
  DEF TkgmLocal, SameBut, Resizes, Kind, TkgmCalls, TkgmCreates, TkgmUpdates, TkgmDeletes,
      TkgmForced, TkgmNodes, Refused
<1>6. TkgmCreate(o)' /\ TkgmDelete(o)'
  BY <1>1, <1>2, <1>3, <1>4
  DEF TkgmCreate, TkgmDelete, SameBut, Creates, TkgmCalls, TkgmLocal, Kind, Resizes
<1> QED
  BY <1>1, <1>2, <1>3, <1>4, <1>5, <1>6
  DEF TkgmSummary, SameBut, TkgmLinked, Rewrites, Unexposing, T!Unexposes, Exists, Refused,
      Creates, Kind, PreCreated, TkgmCalls

\* The end of a resize is recorded.
LEMMA TkgmFinish ==
  ASSUME TkgmInv, NEW o \in Ops, T!Finish(o)
  PROVE  TkgmSummary(o)
<1>1. PICK p : /\ pc[o] = "finish" /\ UNCHANGED <<vapp, token, rule, req, task>> /\ T!Goto(o, p)
               /\ rde' \in Entities \cup {Absent} /\ (Exists => Rewrites(rde'))
               /\ (Exists' <=> Exists) /\ faults' \in 0..MaxFaults /\ (faults' = 0 => faults = 0)
               /\ T!Unexposes(o) /\ Exists /\ rde.linked /\ faults' = 0 => ~rde'.exposed
               /\ p = "fail" \/ p = (IF mem[o].error THEN "done" ELSE "ok")
  <2>1. /\ pc[o] = "finish" /\ UNCHANGED <<vapp, token, rule, req, task>>
    BY DEF T!Finish
  <2>2. PICK p : /\ p = "fail" \/ p = T!AfterFinish(o)
                 /\ \/ Exists /\ ~rde.linked /\ T!Goto(o, p) /\ UNCHANGED <<rde, faults>>
                    \/ T!Put(o, T!Finished(o), p) \/ T!PutRaises(o, T!Finished(o), p)
    BY DEF T!Finish, T!Exists, Exists
  <2>3. Typed /\ (Exists => Rewrites(T!Finished(o)) /\ (T!Unexposes(o) => ~T!Finished(o).exposed))
    BY TkgmTyped, TkgmFinished DEF Typed, Exists
  <2>4. CASE Exists /\ ~rde.linked /\ T!Goto(o, p) /\ UNCHANGED <<rde, faults>>
    BY <2>1, <2>2, <2>3, <2>4 DEF Typed, Exists, Rewrites, T!AfterFinish
  <2>5. CASE T!Put(o, T!Finished(o), p) \/ T!PutRaises(o, T!Finished(o), p)
    <3>1. /\ T!Goto(o, p)
          /\ rde' \in Entities \cup {Absent} /\ (Exists => Rewrites(rde')) /\ (Exists' <=> Exists)
          /\ faults' \in 0..MaxFaults /\ (faults' = 0 => faults = 0)
          /\ Exists /\ faults' = 0 => rde' = T!Finished(o)
      BY <2>3, <2>5, TkgmWrites
    <3> QED
      BY <2>1, <2>2, <2>3, <3>1 DEF T!AfterFinish
  <2> QED
    BY <2>2, <2>4, <2>5
<1>2. /\ TkgmLocal(o) /\ TkgmCreate(o) /\ TkgmDelete(o) /\ TkgmLinked /\ Resizes(o)
      /\ req[o].expose \in BOOLEAN /\ mem[o] \in Memory /\ task[o] \in TaskStatuses
  <2>1. TkgmLocal(o) /\ TkgmCreate(o) /\ TkgmDelete(o) /\ TkgmLinked
    BY DEF TkgmInv
  <2> QED
    BY <1>1, <2>1, TkgmAt, TkgmTyped DEF TkgmCalls
<1>3. PICK m \in Memory : /\ Keeps(o, m)
                          /\ SameBut(m, mem[o], {"child"})
  <2>1. UNCHANGED mem \/ mem' = [mem EXCEPT ![o].child = FALSE]
    BY DEF T!Finish
  <2> QED
    BY <2>1, TkgmKeeps
<1>4. /\ Frame(o) /\ T!TypeOK' /\ req'[o] = req[o] /\ mem'[o] = m /\ task'[o] = task[o]
      /\ pc'[o] = p
  BY <1>1, <1>2, <1>3, TkgmFrame, TkgmTyped DEF Typed, Keeps
<1>5. TkgmLocal(o)'
  BY <1>1, <1>2, <1>3, <1>4, TkgmPaths
  DEF TkgmLocal, SameBut, Resizes, Kind, TkgmCalls, TkgmCreates, TkgmUpdates, TkgmDeletes,
      TkgmForced, TkgmNodes, Refused
<1>6. TkgmCreate(o)' /\ TkgmDelete(o)'
  BY <1>1, <1>2, <1>3, <1>4
  DEF TkgmCreate, TkgmDelete, SameBut, Creates, TkgmCalls, TkgmLocal, Kind, Resizes
<1> QED
  BY <1>1, <1>2, <1>3, <1>4, <1>5, <1>6
  DEF TkgmSummary, SameBut, TkgmLinked, Rewrites, Unexposing, T!Unexposes, Exists, Refused,
      Creates, Kind, PreCreated

\* A status is given to a task, unless it has ended.
LEMMA TkgmTasks ==
  ASSUME TkgmInv, NEW o \in Ops, NEW s \in TaskStatuses, T!SetTask(o, s)
  PROVE  \E t \in TaskStatuses : /\ task' = [task EXCEPT ![o] = t]
                                 /\ t = IF task[o] \in Terminal THEN task[o] ELSE s
<1>1. task \in [Ops -> TaskStatuses]
  BY TkgmTyped
<1>2. task' = [task EXCEPT ![o] = IF task[o] \in Terminal THEN task[o] ELSE s]
  BY <1>1 DEF T!SetTask, T!Terminal, Terminal
<1> QED
  BY <1>1, <1>2

\* What vCD does to the entity when a task ends.
LEMMA TkgmEnds ==
  ASSUME TkgmInv, NEW o \in Ops, NEW s \in Terminal, T!Ends(o, s)
  PROVE  /\ T!SetTask(o, s) /\ rde' \in Entities \cup {Absent} /\ (Exists' => Exists)
         /\ Exists' => rde'.linked = rde.linked /\ rde'.exposed = rde.exposed
         /\ Exists' => rde'.state = rde.state \/ Kind(o) = "create"
         /\ Kind(o) = "delete" /\ s = "SUCCESS" => ~Exists'
<1>1. rde \in Entities \cup {Absent}
  BY TkgmTyped DEF Typed
<1>2. \/ rde' = rde /\ ~(Kind(o) = "delete" /\ s = "SUCCESS")
      \/ rde' = Absent /\ Kind(o) = "delete"
      \/ /\ Exists /\ Kind(o) = "create"
         /\ \E r \in States : rde' = [rde EXCEPT !.state = r]
  BY DEF T!Ends, T!Exists, Exists, Kind, States
<1> QED
  BY <1>1, <1>2, ThreadsAssumption DEF T!Ends, Exists, Entities

\* The handler of a create checks that its name is free.
LEMMA TkgmCheckCreate ==
  ASSUME TkgmInv, NEW o \in Ops, T!CheckCreate(o)
  PROVE  TkgmSummary(o)
<1>1. PICK p : /\ pc[o] = "get" /\ Kind(o) = "create"
               /\ UNCHANGED <<rde, vapp, token, rule, req, faults>>
               /\ T!Goto(o, p)
               /\ (p = "set" /\ vapp = Absent) \/ (p = "abort" /\ UNCHANGED task)
  BY DEF T!CheckCreate, T!NameTaken, T!state, Kind
<1>2. /\ TkgmLocal(o) /\ TkgmCreate(o) /\ TkgmDelete(o) /\ TkgmLinked /\ Kind(o) = "create"
      /\ req[o].expose \in BOOLEAN /\ mem[o] \in Memory /\ task[o] \in TaskStatuses
  <2>1. TkgmLocal(o) /\ TkgmCreate(o) /\ TkgmDelete(o) /\ TkgmLinked
    BY DEF TkgmInv
  <2> QED
    BY <1>1, <2>1, TkgmAt, TkgmTyped DEF TkgmCalls
<1>3. PICK m \in Memory : /\ Keeps(o, m)
                          /\ m = mem[o]
  BY TkgmKeeps DEF T!CheckCreate
<1>4. PICK t \in TaskStatuses : /\ (UNCHANGED task /\ t = task[o]) \/ task' = [task EXCEPT ![o] = t]
                                /\ t \in {"RUNNING", task[o]}
                                /\ (task[o] \in Terminal => t = task[o])
  <2>1. "RUNNING" \in TaskStatuses
    BY DEF TaskStatuses
  <2> QED
    BY <1>2, <2>1, TkgmTasks DEF T!CheckCreate
<1>5. /\ Frame(o) /\ T!TypeOK' /\ req'[o] = req[o] /\ mem'[o] = m /\ task'[o] = t
      /\ pc'[o] = p
  BY <1>1, <1>2, <1>3, <1>4, TkgmFrame, TkgmTyped DEF Typed, Keeps
<1>6. TkgmLocal(o)'
  BY <1>1, <1>2, <1>3, <1>4, <1>5, TkgmPaths
  DEF TkgmLocal, SameBut, Resizes, Kind, TkgmCalls, TkgmCreates, TkgmUpdates, TkgmDeletes,
      TkgmForced, TkgmNodes, Refused, Terminal, TaskStatuses
<1>7. TkgmCreate(o)' /\ TkgmDelete(o)'
  BY <1>1, <1>2, <1>3, <1>4, <1>5
  DEF TkgmCreate, TkgmDelete, SameBut, Creates, TkgmCalls, TkgmLocal, Kind, Resizes, Terminal
<1> QED
  BY <1>1, <1>2, <1>3, <1>4, <1>5, <1>6, <1>7
  DEF TkgmSummary, SameBut, TkgmLinked, Rewrites, Unexposing, T!Unexposes, Exists, Refused,
      Creates, Kind, PreCreated

\* The other handlers check the entity.
LEMMA TkgmCheckEntity ==
  ASSUME TkgmInv, NEW o \in Ops, T!CheckEntity(o)
  PROVE  TkgmSummary(o)
<1>1. PICK p : /\ pc[o] = "get" /\ Kind(o) \notin {"create", "info"} /\ Exists
               /\ UNCHANGED <<rde, vapp, token, rule, req, faults>> /\ T!Goto(o, p)
               /\ p \in {"error", "ok", "rights", "set"}
               /\ p = "ok" => Kind(o) = "update"
               /\ p = "rights" <=> p \notin {"error", "ok"} /\ Kind(o) = "forceDelete"
               /\ p = "set" /\ Kind(o) = "update" => rde.state = "RESOLVED"
  BY DEF T!CheckEntity, T!Allowed, T!Resizable, T!state, Kind, T!Exists, Exists
<1>2. /\ TkgmLocal(o) /\ TkgmCreate(o) /\ TkgmDelete(o) /\ TkgmLinked /\ Kind(o) \in T!Kinds
      /\ req[o].expose \in BOOLEAN /\ mem[o] \in Memory /\ task[o] \in TaskStatuses
  <2>1. TkgmLocal(o) /\ TkgmCreate(o) /\ TkgmDelete(o) /\ TkgmLinked
    BY DEF TkgmInv
  <2> QED
    BY <1>1, <2>1, TkgmAt, TkgmTyped DEF TkgmCalls
<1>3. PICK m \in Memory : /\ Keeps(o, m)
                          /\ SameBut(m, mem[o], {"linked", "exposed"})
                          /\ m.linked = rde.linked /\ m.exposed = rde.exposed
  BY <1>1, TkgmReads DEF T!CheckEntity
<1>4. PICK t \in TaskStatuses : /\ (UNCHANGED task /\ t = task[o]) \/ task' = [task EXCEPT ![o] = t]
                                /\ t \in {"RUNNING", task[o]}
                                /\ (task[o] \in Terminal => t = task[o])
  <2>1. "RUNNING" \in TaskStatuses
    BY DEF TaskStatuses
  <2> QED
    BY <1>2, <2>1, TkgmTasks DEF T!CheckEntity
<1>5. /\ Frame(o) /\ T!TypeOK' /\ req'[o] = req[o] /\ mem'[o] = m /\ task'[o] = t
      /\ pc'[o] = p
  BY <1>1, <1>2, <1>3, <1>4, TkgmFrame, TkgmTyped DEF Typed, Keeps
<1>6. TkgmLocal(o)'
  BY <1>1, <1>2, <1>3, <1>4, <1>5, TkgmPaths
  DEF TkgmLocal, SameBut, Resizes, Kind, TkgmCalls, TkgmCreates, TkgmUpdates, TkgmDeletes,
      TkgmForced, TkgmNodes, Refused, Terminal, TaskStatuses, T!Kinds
<1>7. TkgmCreate(o)' /\ TkgmDelete(o)'
  BY <1>1, <1>2, <1>3, <1>4, <1>5
  DEF TkgmCreate, TkgmDelete, SameBut, Creates, TkgmCalls, TkgmLocal, Kind, Resizes, Terminal
<1> QED
  BY <1>1, <1>2, <1>3, <1>4, <1>5, <1>6, <1>7
  DEF TkgmSummary, SameBut, TkgmLinked, Rewrites, Unexposing, T!Unexposes, Exists, Refused,
      Creates, Kind, PreCreated, T!Kinds

\* A handler that raised is answered.
LEMMA TkgmAnswerError ==
  ASSUME TkgmInv, NEW o \in Ops, T!AnswerError(o)
  PROVE  TkgmSummary(o)
<1>1. PICK p : /\ pc[o] = "error" /\ p = "done" /\ T!Goto(o, p)
               /\ UNCHANGED <<vapp, token, rule, req, faults>>
               /\ rde' \in Entities \cup {Absent} /\ (Exists' => Exists)
               /\ Exists' => rde'.linked = rde.linked /\ rde'.exposed = rde.exposed
               /\ Exists' => rde'.state = rde.state \/ Kind(o) = "create"
  <2>1. "ERROR" \in Terminal
    BY DEF Terminal
  <2> QED
    BY <2>1, TkgmEnds DEF T!AnswerError
<1>2. /\ TkgmLocal(o) /\ TkgmCreate(o) /\ TkgmDelete(o) /\ TkgmLinked /\ Kind(o) \in T!Kinds
      /\ req[o].expose \in BOOLEAN /\ mem[o] \in Memory /\ task[o] \in TaskStatuses
  <2>1. TkgmLocal(o) /\ TkgmCreate(o) /\ TkgmDelete(o) /\ TkgmLinked
    BY DEF TkgmInv
  <2> QED
    BY <1>1, <2>1, TkgmAt, TkgmTyped DEF TkgmCalls
<1>3. PICK m \in Memory : /\ Keeps(o, m)
                          /\ m = mem[o]
  BY TkgmKeeps DEF T!AnswerError
<1>4. PICK t \in TaskStatuses : /\ (UNCHANGED task /\ t = task[o]) \/ task' = [task EXCEPT ![o] = t]
                                /\ t \in Terminal /\ (task[o] \in Terminal \/ t = "ERROR")
  <2>1. "ERROR" \in TaskStatuses /\ "ERROR" \in Terminal
    BY DEF TaskStatuses, Terminal
  <2> QED
    BY <1>2, <2>1, TkgmTasks, TkgmEnds DEF T!AnswerError, Terminal
<1>5. /\ Frame(o) /\ T!TypeOK' /\ req'[o] = req[o] /\ mem'[o] = m /\ task'[o] = t
      /\ pc'[o] = p
  BY <1>1, <1>2, <1>3, <1>4, TkgmFrame, TkgmTyped DEF Typed, Keeps
<1>6. TkgmLocal(o)'
  BY <1>1, <1>2, <1>3, <1>4, <1>5, TkgmPaths
  DEF TkgmLocal, SameBut, Resizes, Kind, TkgmCalls, TkgmCreates, TkgmUpdates, TkgmDeletes,
      TkgmForced, TkgmNodes, Refused, Terminal, TaskStatuses, T!Kinds
<1>7. TkgmCreate(o)' /\ TkgmDelete(o)'
  BY <1>1, <1>2, <1>3, <1>4, <1>5
  DEF TkgmCreate, TkgmDelete, SameBut, Creates, TkgmCalls, TkgmLocal, Kind, Resizes, Terminal,
      T!Kinds
<1> QED
  BY <1>1, <1>2, <1>3, <1>4, <1>5, <1>6, <1>7
  DEF TkgmSummary, SameBut, TkgmLinked, Rewrites, Unexposing, T!Unexposes, Exists, Refused,
      Creates, Kind, PreCreated, T!Kinds

\* A request succeeds.
LEMMA TkgmOk ==
  ASSUME TkgmInv, NEW o \in Ops, T!Ok(o)
  PROVE  TkgmSummary(o)
<1>1. PICK p : /\ pc[o] = "ok" /\ p = "done" /\ T!Goto(o, p)
               /\ UNCHANGED <<vapp, token, rule, req, faults>>
               /\ rde' \in Entities \cup {Absent} /\ (Exists' => Exists)
               /\ Exists' => rde'.linked = rde.linked /\ rde'.exposed = rde.exposed
               /\ Exists' => rde'.state = rde.state \/ Kind(o) = "create"
               /\ Kind(o) = "delete" => ~Exists'
  <2>1. "SUCCESS" \in Terminal
    BY DEF Terminal
  <2> QED
    BY <2>1, TkgmEnds DEF T!Ok
<1>2. /\ TkgmLocal(o) /\ TkgmCreate(o) /\ TkgmDelete(o) /\ TkgmLinked /\ Kind(o) \in T!Kinds
      /\ req[o].expose \in BOOLEAN /\ mem[o] \in Memory /\ task[o] \in TaskStatuses
  <2>1. TkgmLocal(o) /\ TkgmCreate(o) /\ TkgmDelete(o) /\ TkgmLinked
    BY DEF TkgmInv
  <2> QED
    BY <1>1, <2>1, TkgmAt, TkgmTyped DEF TkgmCalls
<1>3. PICK m \in Memory : /\ Keeps(o, m)
                          /\ m = mem[o]
  BY TkgmKeeps DEF T!Ok
<1>4. PICK t \in TaskStatuses : /\ (UNCHANGED task /\ t = task[o]) \/ task' = [task EXCEPT ![o] = t]
                                /\ t \in Terminal /\ (task[o] \in Terminal \/ t = "SUCCESS")
  <2>1. "SUCCESS" \in TaskStatuses /\ "SUCCESS" \in Terminal
    BY DEF TaskStatuses, Terminal
  <2> QED
    BY <1>2, <2>1, TkgmTasks, TkgmEnds DEF T!Ok, Terminal
<1>5. /\ Frame(o) /\ T!TypeOK' /\ req'[o] = req[o] /\ mem'[o] = m /\ task'[o] = t
      /\ pc'[o] = p
  BY <1>1, <1>2, <1>3, <1>4, TkgmFrame, TkgmTyped DEF Typed, Keeps
<1>6. TkgmLocal(o)'
  BY <1>1, <1>2, <1>3, <1>4, <1>5, TkgmPaths
  DEF TkgmLocal, SameBut, Resizes, Kind, TkgmCalls, TkgmCreates, TkgmUpdates, TkgmDeletes,
      TkgmForced, TkgmNodes, Refused, Terminal, TaskStatuses, T!Kinds
<1>7. TkgmCreate(o)' /\ TkgmDelete(o)'
  BY <1>1, <1>2, <1>3, <1>4, <1>5
  DEF TkgmCreate, TkgmDelete, SameBut, Creates, TkgmCalls, TkgmLocal, Kind, Resizes, Terminal,
      T!Kinds
<1> QED
  BY <1>1, <1>2, <1>3, <1>4, <1>5, <1>6, <1>7
  DEF TkgmSummary, SameBut, TkgmLinked, Rewrites, Unexposing, T!Unexposes, Exists, Refused,
      Creates, Kind, PreCreated, T!Kinds

\* A request fails; where a child thread does, the request goes on.
LEMMA TkgmErr ==
  ASSUME TkgmInv, NEW o \in Ops, T!Err(o)
  PROVE  TkgmSummary(o)
<1>1. PICK p : /\ pc[o] = "err" /\ T!Goto(o, p)
               /\ UNCHANGED <<vapp, token, rule, req, faults>>
               /\ rde' \in Entities \cup {Absent} /\ (Exists' => Exists)
               /\ Exists' => rde'.linked = rde.linked /\ rde'.exposed = rde.exposed
               /\ Exists' => rde'.state = rde.state \/ Kind(o) = "create"
               /\ p = "done" \/ (mem[o].child /\ p = (IF Kind(o) = "update" THEN "unexpose" ELSE "finish"))
  <2>1. "ERROR" \in Terminal
    BY DEF Terminal
  <2> QED
    BY <2>1, TkgmEnds DEF T!Err, T!AfterChild, Kind
<1>2. /\ TkgmLocal(o) /\ TkgmCreate(o) /\ TkgmDelete(o) /\ TkgmLinked /\ Kind(o) \in T!Kinds
      /\ req[o].expose \in BOOLEAN /\ mem[o] \in Memory /\ task[o] \in TaskStatuses
  <2>1. TkgmLocal(o) /\ TkgmCreate(o) /\ TkgmDelete(o) /\ TkgmLinked
    BY DEF TkgmInv
  <2> QED
    BY <1>1, <2>1, TkgmAt, TkgmTyped DEF TkgmCalls
<1>3. PICK m \in Memory : /\ Keeps(o, m)
                          /\ SameBut(m, mem[o], {"error", "child"}) /\ m.error /\ ~m.child
  <2>1. TRUE \in BOOLEAN
    OBVIOUS
  <2> QED
    BY <2>1, TkgmKeeps DEF T!Err
<1>4. PICK t \in TaskStatuses : /\ (UNCHANGED task /\ t = task[o]) \/ task' = [task EXCEPT ![o] = t]
                                /\ t \in Terminal /\ (task[o] \in Terminal \/ t = "ERROR")
  <2>1. "ERROR" \in TaskStatuses /\ "ERROR" \in Terminal
    BY DEF TaskStatuses, Terminal
  <2> QED
    BY <1>2, <2>1, TkgmTasks, TkgmEnds DEF T!Err, Terminal
<1>5. /\ Frame(o) /\ T!TypeOK' /\ req'[o] = req[o] /\ mem'[o] = m /\ task'[o] = t
      /\ pc'[o] = p
  BY <1>1, <1>2, <1>3, <1>4, TkgmFrame, TkgmTyped DEF Typed, Keeps
<1>6. TkgmLocal(o)'
  BY <1>1, <1>2, <1>3, <1>4, <1>5, TkgmPaths
  DEF TkgmLocal, SameBut, Resizes, Kind, TkgmCalls, TkgmCreates, TkgmUpdates, TkgmDeletes,
      TkgmForced, TkgmNodes, Refused, Terminal, TaskStatuses, T!Kinds
<1>7. TkgmCreate(o)' /\ TkgmDelete(o)'
  BY <1>1, <1>2, <1>3, <1>4, <1>5
  DEF TkgmCreate, TkgmDelete, SameBut, Creates, TkgmCalls, TkgmLocal, Kind, Resizes, Terminal,
      T!Kinds
<1> QED
  BY <1>1, <1>2, <1>3, <1>4, <1>5, <1>6, <1>7
  DEF TkgmSummary, SameBut, TkgmLinked, Rewrites, Unexposing, T!Unexposes, Exists, Refused,
      Creates, Kind, PreCreated, T!Kinds, TkgmLocal, Resizes

\* A new request.
LEMMA TkgmBegin ==
  ASSUME TkgmInv, NEW o \in Ops, NEW r \in T!Requests, T!Begin(o, r)
  PROVE  TkgmSummary(o)
<1>1. /\ pc[o] = "idle" /\ T!Accepts(r.kind) /\ req' = [req EXCEPT ![o] = r]
      /\ rde' = IF r.kind = "create" THEN T!NewEntity("PRE_CREATED", "NONE", Absent) ELSE rde
      /\ T!Goto(o, "get") /\ UNCHANGED <<vapp, token, rule, mem, task, faults>>
  BY DEF T!Begin
<1>2. /\ TkgmLocal(o) /\ TkgmLinked /\ TkgmOrder /\ mem[o] = NoMemory /\ task[o] = "NONE"
      /\ Typed /\ req \in [Ops -> T!Requests \cup {Absent}] /\ DOMAIN pc = Ops
      /\ mem \in [Ops -> Memory] /\ task \in [Ops -> TaskStatuses]
  BY <1>1, TkgmTyped DEF TkgmInv, TkgmLocal, T!TypeOK, T!TypeOKWith
<1>3. r.kind \in T!Kinds /\ r.expose \in BOOLEAN
  BY DEF T!Requests
<1>4. /\ T!NewEntity("PRE_CREATED", "NONE", Absent) \in Entities
      /\ T!NewEntity("PRE_CREATED", "NONE", Absent).state = "PRE_CREATED"
      /\ ~T!NewEntity("PRE_CREATED", "NONE", Absent).exposed
  BY DEF T!NewEntity, Entities, States, PhaseOps, Statuses
<1>5. /\ r.kind = "create" => ~Exists /\ \A p \in Ops : pc[p] = "idle"
      /\ r.kind # "create" => Exists
           /\ (r.kind \in {"update", "info"} \/ rde.state # "PRE_CREATED")
  BY <1>1 DEF T!Accepts, T!Exists, Exists
<1>6. rde' \in Entities \cup {Absent} /\ Exists'
  BY <1>1, <1>2, <1>4, <1>5, ThreadsAssumption DEF Typed, Exists
<1>7. /\ pc'[o] = "get" /\ DOMAIN pc' = Ops /\ req'[o] = r /\ mem' = mem /\ task' = task
      /\ req' \in [Ops -> T!Requests \cup {Absent}]
      /\ \A p \in Ops \ {o} : pc'[p] = pc[p] /\ req'[p] = req[p]
  BY <1>1, <1>2 DEF T!Goto
<1>8. Frame(o) /\ T!TypeOK'
  BY <1>1, <1>2, <1>6, <1>7
  DEF Frame, Typed, T!TypeOK, T!TypeOKWith, T!Entities, Entities, T!Vapps, Vapps, T!Memory,
      Memory, T!TaskStatuses, TaskStatuses, T!States, States, T!PhaseOps, PhaseOps, T!Statuses,
      Statuses, T!Groups, Groups
<1>9. /\ ~mem[o].exposed /\ ~mem[o].undo /\ ~mem[o].tok /\ ~mem[o].child /\ ~mem[o].error
      /\ ~mem[o].linked
  BY <1>2 DEF NoMemory
<1>10. TkgmLocal(o)'
  BY <1>2, <1>3, <1>7, <1>9, TkgmPaths
  DEF TkgmLocal, Kind, T!Kinds, TkgmCreates, TkgmUpdates, TkgmDeletes, TkgmForced, TkgmNodes,
      Refused, Resizes, Terminal
<1>11. TkgmCreate(o)' /\ TkgmDelete(o)'
  BY <1>1, <1>2, <1>3, <1>5, <1>7, <1>9
  DEF TkgmCreate, TkgmDelete, Creates, Kind, TkgmOrder, TkgmCalls
<1>12. /\ Exists => rde' = rde
       /\ ~Exists => Kind(o)' = "create" /\ rde' = T!NewEntity("PRE_CREATED", "NONE", Absent)
  BY <1>1, <1>5, <1>7 DEF Kind
<1> QED
  BY <1>1, <1>2, <1>3, <1>4, <1>5, <1>6, <1>7, <1>8, <1>9, <1>10, <1>11, <1>12
  DEF TkgmSummary, TkgmLinked, Unexposing, Refused, Creates, Kind, PreCreated, T!Kinds, Exists

\* Every step does what the summary says.
LEMMA TkgmSteps ==
  ASSUME TkgmInv, NEW o \in Ops, T!Step(o)
  PROVE  TkgmSummary(o)
BY TkgmCheckCreate, TkgmCheckEntity, TkgmCheckRaises, TkgmMarkBusy, TkgmAbortCreate, TkgmInfo,
   TkgmMakeVapp, TkgmCreateToken, TkgmAddControlPlane, TkgmLinkVapp, TkgmAddWorkers,
   TkgmCallRaises, TkgmRecord, TkgmMonitor, TkgmMonitorRaises, TkgmAdd, TkgmAddRaises, TkgmDel,
   TkgmDelRaises, TkgmUnexpose, TkgmUnexposeRaises, TkgmFinish, TkgmDeleteVapp,
   TkgmDeleteVappRaises, TkgmRevoke, TkgmDeleteRule, TkgmPurge, TkgmForget, TkgmRevokeFailed,
   TkgmFail, TkgmRollback, TkgmUndo, TkgmSync, TkgmAnswerError, TkgmErr, TkgmOk
DEF T!Step

\* Every step of the TKGm service, and every stutter, keeps the invariant.
LEMMA TkgmNextInv ==
  ASSUME TkgmInv, [T!Next]_vars
  PROVE  TkgmInv'
<1>1. CASE T!Next
  <2>1. PICK o \in Ops : T!Step(o) \/ \E r \in T!Requests : T!Begin(o, r)
    BY <1>1 DEF T!Next
  <2>2. TkgmSummary(o)
    BY <2>1, TkgmSteps, TkgmBegin
  <2> QED
    BY <2>2, TkgmSummaryStep
<1>2. CASE UNCHANGED vars
  <2> USE <1>2 DEF vars, state
  <2>1. T!TypeOK'
    BY DEF TkgmInv, T!TypeOK, T!TypeOKWith
  <2>2. \A o \in Ops : TkgmLocal(o)' /\ TkgmCreate(o)' /\ TkgmDelete(o)'
    BY DEF TkgmInv, TkgmLocal, TkgmCreate, TkgmDelete, Creates, Kind, Resizes, Exists
  <2>3. TkgmOrder' /\ TkgmLinked'
    BY DEF TkgmInv, TkgmOrder, TkgmLinked, PreCreated, Creates, Kind, Exists
  <2>4. TkgmExposed'
    BY DEF TkgmInv, TkgmExposed, Unexposing, T!Unexposes, Kind, Exists
  <2> QED
    BY <2>1, <2>2, <2>3, <2>4 DEF TkgmInv
<1> QED
  BY <1>1, <1>2

\* The invariant holds with no cluster, and with a deployed one.
LEMMA TkgmInitInv == T!Init => TkgmInv
<1> SUFFICES ASSUME T!Init PROVE TkgmInv
  OBVIOUS
<1>1. /\ req = [o \in Ops |-> Absent] /\ pc = [o \in Ops |-> "idle"]
      /\ mem = [o \in Ops |-> NoMemory] /\ task = [o \in Ops |-> "NONE"] /\ faults = 0
      /\ \/ rde = Absent /\ vapp = Absent /\ token = FALSE /\ rule = FALSE
         \/ \E w \in 0..MaxWorkers, x \in BOOLEAN :
              /\ rde = T!Deployed(w, x) /\ vapp = [T!NewVapp EXCEPT !.workers = w]
              /\ token = TRUE /\ rule = x
  BY DEF T!Init, T!InitWith, T!NoMemory, NoMemory
<1>2. ASSUME NEW w \in 0..MaxWorkers, NEW x \in BOOLEAN
      PROVE  /\ T!Deployed(w, x) \in Entities /\ T!Deployed(w, x) # Absent
             /\ T!Deployed(w, x).linked /\ T!Deployed(w, x).exposed = x
             /\ [T!NewVapp EXCEPT !.workers = w] \in Vapps
  <2>1. w \in Nat
    BY ThreadsAssumption
  <2>2. /\ T!Deployed(w, x) \in Entities
        /\ T!Deployed(w, x).linked /\ T!Deployed(w, x).exposed = x
    BY <2>1 DEF T!Deployed, Entities, States, PhaseOps, Statuses
  <2>3. [T!NewVapp EXCEPT !.workers = w] \in Vapps
    BY <2>1 DEF T!NewVapp, Vapps
  <2> QED
    BY <2>2, <2>3, ThreadsAssumption
<1>3. NoMemory \in Memory /\ ~NoMemory.error /\ ~NoMemory.undo /\ ~NoMemory.exposed
  BY DEF NoMemory, Memory
<1>4. /\ rde \in Entities \cup {Absent} /\ vapp \in Vapps \cup {Absent}
      /\ token \in BOOLEAN /\ rule \in BOOLEAN /\ (Exists => rde.linked /\ rde.exposed = rule)
      /\ ~Exists => vapp = Absent /\ ~token /\ ~rule
  <2>1. CASE rde = Absent /\ vapp = Absent /\ token = FALSE /\ rule = FALSE
    BY <2>1 DEF Exists
  <2>2. CASE \E w \in 0..MaxWorkers, x \in BOOLEAN :
               /\ rde = T!Deployed(w, x) /\ vapp = [T!NewVapp EXCEPT !.workers = w]
               /\ token = TRUE /\ rule = x
    BY <1>2, <2>2 DEF Exists
  <2> QED
    BY <1>1, <2>1, <2>2
<1>8. faults \in 0..MaxFaults
  BY <1>1, ThreadsAssumption
<1>5. T!TypeOK
  BY <1>1, <1>3, <1>4, <1>8
  DEF T!TypeOK, T!TypeOKWith, Typed, T!Entities, Entities, T!Vapps, Vapps, T!Memory, Memory,
      T!TaskStatuses, T!States, States, T!PhaseOps, PhaseOps, T!Statuses, Statuses, T!Groups,
      Groups
<1>6. \A o \in Ops : TkgmLocal(o) /\ TkgmCreate(o) /\ TkgmDelete(o)
  BY <1>1, <1>3 DEF TkgmLocal, TkgmCreate, TkgmDelete, Creates
<1>7. TkgmOrder /\ TkgmLinked /\ TkgmExposed
  BY <1>1, <1>3, <1>4 DEF TkgmOrder, TkgmLinked, TkgmExposed, Creates, Exists
<1> QED
  BY <1>5, <1>6, <1>7 DEF TkgmInv

\* What the invariant says of the properties.
LEMMA TkgmAsked ==
  ASSUME TkgmInv
  PROVE  /\ T!TypeOK /\ T!RollbackIsComplete /\ T!DeleteIsComplete /\ T!ExposedHasRule
         /\ \A o \in Ops : pc[o] = "done" => task[o] # "RUNNING"
<1>1. T!RollbackIsComplete
  <2> SUFFICES ASSUME NEW o \in Ops, mem[o].undo, pc[o] = "done", faults = 0
               PROVE  ~Exists /\ vapp = Absent /\ ~token /\ ~rule
    BY DEF T!RollbackIsComplete, T!Exists, Exists
  <2>1. TkgmLocal(o) /\ TkgmCreate(o)
    BY DEF TkgmInv
  <2> QED
    BY <2>1 DEF TkgmLocal, TkgmCreate, Creates
<1>2. T!DeleteIsComplete
  <2> SUFFICES ASSUME NEW o \in Ops, task[o] = "SUCCESS", Kind(o) = "delete", mem[o].linked,
                      faults = 0
               PROVE  vapp = Absent /\ ~token /\ (mem[o].exposed => ~rule)
    BY DEF T!DeleteIsComplete, Kind
  <2>1. TkgmLocal(o) /\ TkgmDelete(o)
    BY DEF TkgmInv
  <2> QED
    BY <2>1 DEF TkgmLocal, TkgmDelete
<1>3. T!ExposedHasRule
  BY DEF TkgmInv, TkgmExposed, Unexposing, T!ExposedHasRule, T!Settled, T!Exists, Exists
<1> QED
  BY <1>1, <1>2, <1>3 DEF TkgmInv, TkgmLocal, Terminal
-----------------------------------------------------------------------------
\* What the threads of a request other than o see of a step of o.
LEMMA NativeSeen ==
  ASSUME NativeInv, NEW o \in Ops, NativeSummary(o), NEW p \in Ops \ {o}, pc[p] # "idle"
  PROVE  /\ pc'[p] = pc[p] /\ req'[p] = req[p] /\ mem'[p] = mem[p] /\ task'[p] = task[p]
         /\ faults' = 0 => faults = 0
         /\ pc[o] = "idle" => Kind(o)' # "create" /\ Exists
         /\ Exists' => Exists
         /\ vapp' # Absent => vapp # Absent \/ (Creates(o) /\ pc[o] = "makeVapp")
         /\ rule' => rule \/ (Creates(o) /\ pc[o] = "address")
         /\ Creates(o) => pc[o] \notin {"get", "set"}
<1>1. NativeCreate(o) /\ NativeLocal(o)
  BY DEF NativeInv
<1>2. pc[o] = "idle" => Kind(o)' # "create" /\ Exists /\ UNCHANGED <<rde, vapp, rule>>
  BY DEF NativeSummary
<1>3. pc'[p] = pc[p] /\ req'[p] = req[p] /\ mem'[p] = mem[p] /\ task'[p] = task[p]
  BY DEF NativeSummary, Frame
<1>4. Creates(o) => pc[o] \notin {"get", "set"}
  BY <1>1 DEF NativeCreate
<1>5. pc[o] # "idle" /\ Kind(o) = "create" <=> Creates(o)
  BY DEF Creates
<1>6. /\ Exists' => Exists
      /\ vapp' # Absent => vapp # Absent \/ (Creates(o) /\ pc[o] = "makeVapp")
      /\ rule' => rule \/ (Creates(o) /\ pc[o] = "address")
  BY <1>2, <1>4, <1>5 DEF NativeSummary, Worked
<1> QED
  BY <1>2, <1>3, <1>4, <1>6 DEF NativeSummary

\* What a create knows of the cluster, the steps of the others leave true.
LEMMA NativeOthersCreate ==
  ASSUME NativeInv, NEW o \in Ops, NativeSummary(o), NEW p \in Ops \ {o}
  PROVE  NativeCreate(p)'
<1> SUFFICES ASSUME Creates(p)
             PROVE  NativeCreate(p)'
  BY DEF NativeSummary, Frame, NativeCreate, Creates, Kind
<1>1. NativeCreate(p) /\ ~Creates(o)
  BY DEF NativeInv, NativeOrder, Creates
<1>2. /\ pc'[p] = pc[p] /\ req'[p] = req[p] /\ mem'[p] = mem[p] /\ task'[p] = task[p]
      /\ faults' = 0 => faults = 0
      /\ pc[o] = "idle" => Exists
      /\ Exists' => Exists
      /\ vapp' # Absent => vapp # Absent
      /\ rule' => rule
  BY <1>1, NativeSeen DEF Creates
<1>3. pc[p] \notin {"get", "set"}
  BY <1>1, <1>2 DEF NativeCreate
<1> QED
  BY <1>1, <1>2, <1>3 DEF NativeCreate, Creates, Kind, Exists, Unmade

\* What was deleted stays so.
LEMMA NativeOthersDelete ==
  ASSUME NativeInv, NEW o \in Ops, NativeSummary(o), NEW p \in Ops \ {o}
  PROVE  NativeDelete(p)'
<1> SUFFICES ASSUME pc[p] # "idle", Kind(p) = "delete"
             PROVE  NativeDelete(p)'
  BY DEF NativeSummary, Frame, NativeDelete, Kind
<1>1. NativeDelete(p)
  BY DEF NativeInv
<1>2. /\ pc'[p] = pc[p] /\ req'[p] = req[p] /\ task'[p] = task[p]
      /\ pc[o] = "idle" => Kind(o)' # "create"
      /\ Exists' => Exists
      /\ vapp' # Absent => vapp # Absent \/ (Creates(o) /\ pc[o] = "makeVapp")
      /\ Creates(o) => pc[o] \notin {"get", "set"}
  BY NativeSeen
<1>3. NoneUnmade => NoneUnmade' /\ (vapp' # Absent => vapp # Absent)
  <2>1. NoneUnmade => (vapp' # Absent => vapp # Absent)
    BY <1>2 DEF NoneUnmade, Unmade
  <2>2. ASSUME NEW q \in Ops, Creates(q)', pc'[q] \in Unmade
        PROVE  Creates(q) /\ pc[q] \in Unmade
    <3>1. CASE q = o
      <4>1. pc[o] \in {"idle", "get", "set"}
        BY <2>2, <3>1 DEF NativeSummary
      <4>2. pc[o] # "idle"
        BY <1>2, <2>2, <3>1 DEF Creates, Kind
      <4>3. Creates(o)
        BY <2>2, <3>1, <4>2 DEF NativeSummary, Creates, Kind
      <4> QED
        BY <1>2, <4>1, <4>2, <4>3
    <3>2. CASE q # o
      BY <2>2, <3>2 DEF NativeSummary, Frame, Creates, Kind
    <3> QED
      BY <3>1, <3>2
  <2> QED
    BY <2>1, <2>2 DEF NoneUnmade
<1> QED
  BY <1>1, <1>2, <1>3 DEF NativeDelete, Kind, Exists

\* A request that is alone sees no step of another.
LEMMA NativeOthersAlone ==
  ASSUME NativeInv, NEW o \in Ops, NativeSummary(o), NEW p \in Ops \ {o}
  PROVE  NativeAlone(p)'
<1>1. pc'[p] = pc[p] /\ req'[p] = req[p] /\ NativeLocal(p) /\ NativeLocal(o)' /\ pc'[o] # "idle"
  BY DEF NativeSummary, Frame, NativeInv
<1>2. pc[p] # "idle" => req'[p] # Absent /\ req'[o] # Absent
  BY <1>1, LifeCyclesAssumption DEF NativeLocal
<1> QED
  BY <1>1, <1>2 DEF NativeAlone, Alone, X!OneAtATime

\* A create is the first request, and nothing is left of a cluster that nobody asks for.
LEMMA NativeOrderStep ==
  ASSUME NativeInv, NEW o \in Ops, NativeSummary(o)
  PROVE  NativeOrder'
<1>1. \A p \in Ops \ {o} : pc'[p] = pc[p] /\ Kind(p)' = Kind(p)
  BY DEF NativeSummary, Frame, Kind
<1>2. /\ pc[o] # "idle" => Kind(o)' = Kind(o)
      /\ pc'[o] # "idle"
      /\ pc[o] = "idle" /\ Kind(o)' = "create" => \A p \in Ops : pc[p] = "idle"
  BY DEF NativeSummary, Kind
<1> QED
  BY <1>1, <1>2 DEF NativeInv, NativeOrder, Creates

\* A thread that upgrades goes on, fails, or has finished its part.
LEMMA NativeFailing ==
  ASSUME NativeInv, NEW o \in Ops, NativeSummary(o), pc[o] \in Upgrading, pc'[o] \in Failed
  PROVE  Failing(o)'
<1>1. NativeLocal(o) /\ pc[o] # "idle" /\ req'[o] = req[o]
  BY DEF NativeInv, NativeSummary, Upgrading
<1>2. Kind(o) = "upgrade"
  BY <1>1 DEF NativeLocal, NativePath, NativeCreates, NativeDeletes, NativeInfo, NativeUpdates,
     Upgrading, NativeDeploys, Failed
<1> QED
  BY <1>1, <1>2 DEF Failing, Kind

\* While nodes are drained, an upgrade is at work or has failed.
LEMMA NativeDrained ==
  ASSUME NativeInv, NEW o \in Ops, NativeSummary(o), vapp' # Absent, vapp'.drained # {}
  PROVE  \E p \in Ops : pc'[p] \in Upgrading \/ Failing(p)'
<1>1. UpgradeMove(o)
  BY DEF NativeSummary
<1>2. CASE vapp # Absent /\ vapp'.drained = vapp.drained
  <2>1. PICK p \in Ops : pc[p] \in Upgrading \/ Failing(p)
    BY <1>2 DEF NativeInv, NativeUpgrade
  <2>2. CASE p # o
    BY <2>1, <2>2 DEF NativeSummary, Frame, Failing, Kind
  <2>3. CASE p = o
    BY <1>1, <2>1, <2>3, NativeFailing DEF UpgradeMove
  <2> QED
    BY <2>2, <2>3
<1>3. CASE Worked(o) /\ vapp'.drained # vapp.drained
  BY <1>1, <1>3 DEF UpgradeMove
<1>4. CASE vapp' = NewVapp
  BY <1>4 DEF NewVapp
<1> QED
  BY <1>2, <1>3, <1>4 DEF NativeSummary, Worked

\* While the groups of nodes run different versions, an upgrade is at work or has failed.
LEMMA NativeRenewed ==
  ASSUME NativeInv, NEW o \in Ops, NativeSummary(o), vapp' # Absent, vapp'.new \notin {{}, Groups}
  PROVE  \E p \in Ops : pc'[p] \in Renewing \/ Failing(p)'
<1>1. UpgradeMove(o) /\ vapp' \in Vapps
  BY DEF NativeSummary, X!TypeOK, X!TypeOKWith, X!Vapps, Vapps, X!Groups, Groups
<1>2. CASE vapp # Absent /\ vapp'.new = vapp.new
  <2>1. PICK p \in Ops : pc[p] \in Renewing \/ Failing(p)
    BY <1>2 DEF NativeInv, NativeUpgrade
  <2>2. CASE p # o
    BY <2>1, <2>2 DEF NativeSummary, Frame, Failing, Kind
  <2>3. CASE p = o /\ pc[o] \in Renewing
    <3>1. pc[o] \in Upgrading
      BY <2>3 DEF Renewing, Upgrading
    <3>2. CASE pc'[o] \in Renewing \cup Failed
      BY <3>1, <3>2, NativeFailing
    <3>3. CASE Worked(o) /\ vapp' = X!UpgradeEffect("runWorkers")
      <4>1. "controlPlane" \in vapp.new /\ vapp.new \subseteq Groups /\ vapp \in Vapps
        BY <1>2, <2>3 DEF NativeInv, NativeUpgrade, X!TypeOK, X!TypeOKWith, X!Vapps, Vapps,
           X!Groups, Groups
      <4>2. vapp'.new = vapp.new \cup {"workers"}
        BY <3>3, <4>1 DEF X!UpgradeEffect, X!Renewed, Vapps
      <4> QED
        BY <4>1, <4>2 DEF Groups
    <3> QED
      BY <1>1, <2>3, <3>2, <3>3 DEF UpgradeMove
  <2>4. CASE p = o /\ Failing(o)
    BY <1>1, <2>4 DEF UpgradeMove
  <2> QED
    BY <2>1, <2>2, <2>3, <2>4
<1>3. CASE Worked(o) /\ vapp'.new # vapp.new
  <2>1. CASE pc'[o] \in Renewing \/ Failing(o)'
    BY <2>1
  <2>2. CASE pc[o] = "runWorkers" /\ vapp'.new = vapp.new \cup {"workers"}
    <3>1. "controlPlane" \in vapp.new /\ vapp.new \subseteq Groups
      BY <1>3, <2>2 DEF Worked, Renewing, NativeInv, NativeUpgrade, X!TypeOK, X!TypeOKWith,
          X!Vapps, X!Groups, Groups
    <3> QED
      BY <2>2, <3>1 DEF Groups
  <2> QED
    BY <1>1, <1>3, <2>1, <2>2 DEF UpgradeMove
<1>4. CASE vapp' = NewVapp
  BY <1>4 DEF NewVapp
<1> QED
  BY <1>2, <1>3, <1>4 DEF NativeSummary, Worked

\* The control plane is upgraded first.
LEMMA NativeFirst ==
  ASSUME NativeInv, NEW o \in Ops, NativeSummary(o), vapp' # Absent,
         NEW p \in Ops, pc'[p] \in Renewing
  PROVE  "controlPlane" \in vapp'.new
<1>1. UpgradeMove(o) /\ vapp' \in Vapps /\ vapp \in Vapps \cup {Absent}
  BY DEF NativeSummary, NativeInv, X!TypeOK, X!TypeOKWith, X!Vapps, Vapps, X!Groups, Groups
<1>2. CASE pc[p] \in Renewing
  <2>1. vapp # Absent
    <3>1. NoneUnmade
      BY <1>2 DEF Renewing, Upgrading, NativeInv, NativeUpgrade
    <3>2. pc[o] = "makeVapp" /\ Kind(o) = "create" => ~NoneUnmade
      BY DEF NoneUnmade, Unmade, Creates
    <3> QED
      BY <3>1, <3>2 DEF NativeSummary, Worked
  <2>2. "controlPlane" \in vapp.new
    BY <1>2, <2>1 DEF NativeInv, NativeUpgrade
  <2> QED
    BY <1>1, <2>1, <2>2 DEF UpgradeMove
<1>3. CASE pc[p] \notin Renewing
  <2>1. p = o
    BY <1>3 DEF NativeSummary, Frame
  <2>2. vapp # Absent /\ vapp' = X!UpgradeEffect("runControl")
    BY <1>1, <1>3, <2>1 DEF UpgradeMove, Worked
  <2> QED
    BY <1>1, <2>2 DEF X!UpgradeEffect, X!Renewed, Vapps
<1> QED
  BY <1>2, <1>3

\* No vApp is made during an upgrade.
LEMMA NativeMade ==
  ASSUME NativeInv, NEW o \in Ops, NativeSummary(o), NEW q \in Ops, pc'[q] \in Upgrading
  PROVE  NoneUnmade'
<1>1. UpgradeMove(o)
  BY DEF NativeSummary
<1> SUFFICES ASSUME NEW r \in Ops, Creates(r)', pc'[r] \in Unmade
             PROVE  FALSE
  BY DEF NoneUnmade
<1>2. q # r
  BY DEF Upgrading, Unmade
<1>3. CASE r = o
  <2>1. pc[q] \in Upgrading /\ q # o
    BY <1>2, <1>3 DEF NativeSummary, Frame
  <2>2. pc[o] \in {"idle", "get", "set"}
    BY <1>3 DEF NativeSummary
  <2>3. pc[o] = "idle" => Kind(o)' # "create"
    BY <2>1 DEF NativeSummary, Upgrading
  <2>4. Creates(o) => pc[o] \notin {"get", "set"}
    BY <2>1 DEF NativeInv, NativeCreate, Upgrading
  <2> QED
    BY <1>3, <2>2, <2>3, <2>4 DEF NativeSummary, Creates, Kind
<1>4. CASE r # o
  <2>1. Creates(r) /\ pc[r] \in Unmade
    BY <1>4 DEF NativeSummary, Frame, Creates, Kind
  <2>2. vapp = Absent /\ ~NoneUnmade
    BY <2>1 DEF NativeInv, NativeCreate, NoneUnmade
  <2>3. pc[q] \notin Upgrading
    BY <2>2 DEF NativeInv, NativeUpgrade
  <2>4. q = o
    BY <2>3 DEF NativeSummary, Frame
  <2> QED
    BY <1>1, <2>2, <2>3, <2>4 DEF UpgradeMove
<1> QED
  BY <1>3, <1>4

\* A step that does what the summary says keeps the whole invariant.
LEMMA NativeSummaryStep ==
  ASSUME NativeInv, NEW o \in Ops, NativeSummary(o)
  PROVE  NativeInv'
<1>1. ASSUME NEW p \in Ops \ {o}
      PROVE  NativeLocal(p)' /\ NativeCreate(p)' /\ NativeDelete(p)' /\ NativeAlone(p)'
  <2>1. NativeLocal(p)'
    BY DEF NativeSummary, Frame, NativeInv, NativeLocal, Resizes, Kind, Copying
  <2> QED
    BY <2>1, NativeOthersCreate, NativeOthersDelete, NativeOthersAlone
<1>2. NativeUpgrade'
  BY NativeDrained, NativeRenewed, NativeFirst, NativeMade DEF NativeUpgrade
<1>3. NativeExposed'
  BY DEF NativeSummary, NativeExposed
<1> QED
  BY <1>1, <1>2, <1>3, NativeOrderStep DEF NativeInv, NativeSummary

-----------------------------------------------------------------------------
\* The invariant gives every variable its type, in the words of ClusterThreads.
LEMMA NativeTyped ==
  ASSUME NativeInv
  PROVE  /\ Typed /\ Truthful(rde) /\ DOMAIN pc = Ops /\ req \in [Ops -> X!Requests \cup {Absent}]
         /\ mem \in [Ops -> Memory] /\ task \in [Ops -> TaskStatuses]
BY DEF NativeInv, Typed, X!TypeOK, X!TypeOKWith, X!Entities, Entities, X!Vapps, Vapps, X!Memory,
   Memory, TaskStatuses, X!TaskStatuses, X!States, States, X!PhaseOps, PhaseOps, X!Statuses,
   Statuses, X!Groups, Groups

\* The threads of each kind of request, one by one.
LEMMA NativePaths ==
  /\ NativePath("create") = NativeCreates /\ NativePath("update") = NativeUpdates
  /\ NativePath("delete") = NativeDeletes /\ NativePath("upgrade") = NativeUpgrades
  /\ NativePath("deleteNodes") = NativeUpdates /\ NativePath("info") = NativeInfo
BY DEF NativePath

\* What the place of a thread says of the kind of its request.
LEMMA NativeAt ==
  ASSUME NEW o \in Ops, NativeLocal(o), pc[o] # "idle"
  PROVE  /\ req[o] \in X!Requests /\ req[o] # Absent /\ Kind(o) \in X!Kinds
         /\ req[o].workers \in Nat /\ req[o].expose \in BOOLEAN /\ req[o].rollback \in BOOLEAN
         /\ pc[o] \in {"makeVapp", "record", "resolve", "rollback", "undo", "resolveFailed"}
                        \cup NativeDeploys => Kind(o) = "create"
         /\ pc[o] \in {"monitor", "add", "del", "unexpose", "publish", "finish"} => Resizes(o)
         /\ pc[o] \in {"upgrade", "recordUpgrade"} \cup Upgrading => Kind(o) = "upgrade"
         /\ pc[o] = "deleteVapp" => Kind(o) = "delete"
         /\ pc[o] = "deleteRule" => Kind(o) \in {"create", "delete"}
         /\ pc[o] = "syncInfo" => Kind(o) = "info"
         /\ pc[o] = "set" => Kind(o) # "info"
         /\ pc[o] \in Failed => Kind(o) \in {"create", "upgrade", "delete"} \/ Resizes(o)
         /\ pc[o] \in Failed \ {"err"} => Kind(o) # "delete"
         /\ pc[o] = "ok" => Kind(o) \in {"create", "upgrade", "delete"}
<1>1. req[o] \in X!Requests /\ pc[o] \in NativePath(Kind(o))
  BY DEF NativeLocal
<1>2. /\ Kind(o) \in X!Kinds /\ req[o].workers \in Nat /\ req[o] # Absent
      /\ req[o].expose \in BOOLEAN /\ req[o].rollback \in BOOLEAN
  BY <1>1, ThreadsAssumption, LifeCyclesAssumption DEF X!Requests, X!Kinds, Kind
<1>3. /\ Kind(o) = "create" => pc[o] \in NativeCreates
      /\ Kind(o) = "upgrade" => pc[o] \in NativeUpgrades
      /\ Kind(o) = "delete" => pc[o] \in NativeDeletes
      /\ Kind(o) = "info" => pc[o] \in NativeInfo
      /\ Resizes(o) => pc[o] \in NativeUpdates
  BY <1>1, NativePaths DEF Resizes
<1> QED
  BY <1>1, <1>2, <1>3
  DEF X!Kinds, NativeCreates, NativeUpdates, NativeUpgrades, NativeDeletes, NativeInfo,
      NativeDeploys, Upgrading, Failed, Resizes

\* A step of request o, and what it keeps and its task are then.
LEMMA NativeFrame ==
  ASSUME NativeInv, NEW o \in Ops, NEW p, NEW m \in Memory, NEW t \in TaskStatuses,
         X!Goto(o, p), UNCHANGED req, Typed', Keeps(o, m),
         (UNCHANGED task /\ t = task[o]) \/ task' = [task EXCEPT ![o] = t]
  PROVE  /\ Frame(o) /\ X!TypeOK' /\ pc'[o] = p /\ req'[o] = req[o]
         /\ mem'[o] = m /\ task'[o] = t
<1>1. pc'[o] = p /\ DOMAIN pc' = Ops /\ \A q \in Ops \ {o} : pc'[q] = pc[q]
  BY NativeTyped DEF X!Goto
<1>2. mem' \in [Ops -> Memory] /\ mem'[o] = m /\ \A q \in Ops \ {o} : mem'[q] = mem[q]
  BY NativeTyped DEF Keeps
<1>3. task' \in [Ops -> TaskStatuses] /\ task'[o] = t /\ \A q \in Ops \ {o} : task'[q] = task[q]
  BY NativeTyped
<1>4. req' \in [Ops -> X!Requests \cup {Absent}]
  BY NativeTyped
<1> QED
  BY <1>1, <1>2, <1>3, <1>4
  DEF Typed, X!TypeOK, X!TypeOKWith, Frame, X!Entities, Entities, X!Vapps, Vapps,
      X!Memory, Memory, TaskStatuses, X!TaskStatuses, X!States, States, X!PhaseOps, PhaseOps,
      X!Statuses, Statuses, X!Groups, Groups

\* A step of request o, where it is alone.
LEMMA NativeLone ==
  ASSUME NativeInv, NEW o \in Ops, \A p \in Ops \ {o} : req'[p] = req[p], req'[o] # Absent,
         faults' = 0 => faults = 0, Alone'
  PROVE  /\ Alone /\ \A p \in Ops \ {o} : pc[p] = "idle"
         /\ Exists /\ rde.exposed /\ ~rule => Unexposed(o)
<1>1. Alone /\ \A p \in Ops \ {o} : req[p] = Absent
  BY DEF Alone, X!OneAtATime
<1>2. ASSUME NEW p \in Ops \ {o}
      PROVE  pc[p] = "idle"
  BY <1>1, LifeCyclesAssumption DEF NativeInv, NativeLocal
<1> QED
  BY <1>1, <1>2 DEF NativeInv, NativeExposed, Unexposed

\* A step that is not of an upgrade.
LEMMA NativeQuiet ==
  ASSUME NEW o \in Ops, pc[o] \notin Upgrading, pc'[o] \notin Upgrading,
         vapp' = vapp \/ vapp' = Absent \/ vapp = Absent \/ Worked(o),
         Failing(o) => Failing(o)'
  PROVE  UpgradeMove(o)
<1>1. Absent \notin Vapps
  BY ThreadsAssumption
<1>2. pc[o] \notin Renewing /\ pc'[o] \notin Renewing
  BY DEF Renewing, Upgrading
<1> QED
  BY <1>1, <1>2 DEF UpgradeMove, Worked

\* No create is about to make a vApp, where there is one, and a step of another
\* request does not change that.
LEMMA NativeUnmade ==
  ASSUME NativeInv
  PROVE  /\ vapp # Absent => NoneUnmade
         /\ \A o \in Ops : /\ Frame(o) /\ req'[o] = req[o] /\ Kind(o) # "create" /\ NoneUnmade
                           => NoneUnmade'
<1>1. vapp # Absent => NoneUnmade
  BY DEF NativeInv, NativeCreate, NoneUnmade
<1>2. ASSUME NEW o \in Ops, Frame(o), req'[o] = req[o], Kind(o) # "create", NoneUnmade
      PROVE  NoneUnmade'
  BY <1>2 DEF Frame, NoneUnmade, Creates, Kind
<1> QED
  BY <1>1, <1>2

\* A write of the entity, or one that fails.
LEMMA NativeWrites ==
  ASSUME NativeInv, NEW o \in Ops, NEW e, NEW p, Exists => e \in Entities /\ Truthful(e),
         X!Put(o, e, p) \/ X!PutRaises(o, e, p)
  PROVE  /\ X!Goto(o, p)
         /\ rde' \in Entities \cup {Absent} /\ Truthful(rde') /\ (Exists' <=> Exists)
         /\ rde' = rde \/ (Exists /\ rde' = e)
         /\ faults' \in 0..MaxFaults /\ (faults' = 0 => faults = 0)
         /\ X!Put(o, e, p) => rde' = e
         /\ X!PutRaises(o, e, p) /\ faults' = 0 => ~Exists
<1>1. Typed /\ Truthful(rde)
  BY NativeTyped
<1>2. Exists => e # Absent
  BY ThreadsAssumption
<1>3. rde' = rde \/ (Exists /\ rde' = e)
  BY DEF X!Put, X!PutRaises, X!Exists, Exists
<1>4. /\ faults' \in 0..MaxFaults /\ (faults' = 0 => faults = 0)
      /\ X!PutRaises(o, e, p) /\ faults' = 0 => ~Exists
  BY <1>1, ThreadsAssumption DEF Typed, X!Put, X!PutRaises, X!Exists, Exists, X!Fault
<1> QED
  BY <1>1, <1>2, <1>3, <1>4 DEF Typed, X!Put, X!PutRaises, Exists

\* A removal of the entity, or one that fails.
LEMMA NativeRemoves ==
  ASSUME NativeInv, NEW o \in Ops, NEW p, NEW q, X!Remove(o, p, q)
  PROVE  /\ (X!Goto(o, p) /\ ~Exists') \/ X!Goto(o, q)
         /\ rde' \in {rde, Absent} /\ rde' \in Entities \cup {Absent} /\ Truthful(rde')
         /\ faults' \in 0..MaxFaults /\ (faults' = 0 => faults = 0 /\ ~Exists')
BY NativeTyped, ThreadsAssumption
DEF X!Remove, X!CallFails, X!Fault, X!Exists, Exists, Typed, Truthful

\* A call that fails.
LEMMA NativeCallFails ==
  ASSUME NativeInv, X!CallFails
  PROVE  faults' \in 0..MaxFaults /\ (faults' = 0 => faults = 0)
BY NativeTyped, ThreadsAssumption DEF X!CallFails, X!Fault, Typed

\* The entities that are written from one that was read.
LEMMA NativeWith ==
  ASSUME NEW e \in Entities, Truthful(e), NEW op \in PhaseOps, NEW s \in Statuses
  PROVE  /\ X!With(e, op, s) \in Entities /\ Truthful(X!With(e, op, s))
         /\ X!With(e, op, s).exposed = e.exposed /\ X!With(e, op, s).linked = e.linked
<1>1. /\ X!With(e, op, s) \in Entities /\ e # Absent
      /\ X!With(e, op, s).exposed = e.exposed /\ X!With(e, op, s).linked = e.linked
  BY ThreadsAssumption DEF X!With, Entities
<1> QED
  BY <1>1 DEF Truthful

\* What a native thread writes into an entity keeps it truthful.
LEMMA NativeEntities ==
  ASSUME NativeInv, NEW e \in Entities, Truthful(e)
  PROVE  /\ e # Absent
         /\ X!Synced(e) \in Entities /\ Truthful(X!Synced(e))
         /\ X!Synced(e).exposed = e.exposed /\ X!Synced(e).linked = e.linked
         /\ [e EXCEPT !.state = "RESOLVED"] \in Entities
         /\ Truthful([e EXCEPT !.state = "RESOLVED"])
         /\ [e EXCEPT !.state = "RESOLVED"].exposed = e.exposed
         /\ \A o \in Ops : /\ [e EXCEPT !.task = o] \in Entities
                          /\ Truthful([e EXCEPT !.task = o])
                          /\ [e EXCEPT !.task = o].exposed = e.exposed
<1> DEFINE w == IF vapp = Absent THEN e.workers ELSE vapp.workers
<1>1. w \in Nat /\ e # Absent
  BY NativeTyped, ThreadsAssumption DEF Entities, Vapps, Typed
<1>2. X!Synced(e) = [e EXCEPT !.workers = w]
  BY DEF X!Synced, Entities
<1> HIDE DEF w
<1>3. /\ X!Synced(e) \in Entities /\ Truthful(X!Synced(e))
      /\ X!Synced(e).exposed = e.exposed /\ X!Synced(e).linked = e.linked
  BY <1>1, <1>2 DEF Entities, Truthful
<1>4. /\ [e EXCEPT !.state = "RESOLVED"] \in Entities
      /\ [e EXCEPT !.state = "RESOLVED"].exposed = e.exposed
      /\ [e EXCEPT !.state = "RESOLVED"].linked = e.linked
  BY DEF Entities, States
<1>5. ASSUME NEW o \in Ops
      PROVE  /\ [e EXCEPT !.task = o] \in Entities
             /\ [e EXCEPT !.task = o].exposed = e.exposed
             /\ [e EXCEPT !.task = o].linked = e.linked
  BY DEF Entities
<1>6. ASSUME NEW f, f.exposed = e.exposed, f.linked = e.linked
      PROVE  Truthful(f)
  BY <1>1, <1>6 DEF Truthful
<1> QED
  BY <1>1, <1>3, <1>4, <1>5, <1>6

\* Work on the vApp.
LEMMA NativeVapps ==
  ASSUME NativeInv
  PROVE  /\ X!NewVapp = NewVapp /\ NewVapp \in Vapps /\ NewVapp # Absent
         /\ \A n \in Int : vapp # Absent /\ vapp.workers + n \in Nat =>
              /\ X!MoreWorkers(n) \in Vapps /\ X!MoreWorkers(n) # Absent
              /\ X!MoreWorkers(n).drained = vapp.drained /\ X!MoreWorkers(n).new = vapp.new
BY NativeTyped, ThreadsAssumption DEF X!NewVapp, NewVapp, X!MoreWorkers, Vapps, Typed

\* What a step changes of what a request keeps.
LEMMA NativeKeeps ==
  ASSUME NativeInv, NEW o \in Ops, NEW e \in Entities \cup {Absent}
  PROVE  /\ X!Keep(o, e) =>
              \E m \in Memory : Keeps(o, m) /\ SameBut(m, mem[o], {"copy"}) /\ m.copy = e
         /\ X!Local(o, e) =>
              \E m \in Memory : Keeps(o, m) /\ SameBut(m, mem[o], {"temp"}) /\ m.temp = e
<1>1. mem \in [Ops -> Memory]
  BY NativeTyped
<1>2. /\ [mem[o] EXCEPT !.copy = e] \in Memory
      /\ SameBut([mem[o] EXCEPT !.copy = e], mem[o], {"copy"})
      /\ [mem[o] EXCEPT !.copy = e].copy = e
  BY <1>1 DEF Memory, SameBut
<1>3. /\ [mem[o] EXCEPT !.temp = e] \in Memory
      /\ SameBut([mem[o] EXCEPT !.temp = e], mem[o], {"temp"})
      /\ [mem[o] EXCEPT !.temp = e].temp = e
  BY <1>1 DEF Memory, SameBut
<1>4. /\ X!Keep(o, e) => mem' = [mem EXCEPT ![o] = [mem[o] EXCEPT !.copy = e]]
      /\ X!Local(o, e) => mem' = [mem EXCEPT ![o] = [mem[o] EXCEPT !.temp = e]]
  BY <1>1 DEF X!Keep, X!Local
<1> QED
  BY <1>2, <1>3, <1>4 DEF Keeps

\* A request that sets a mark remembers it, and the rest as it was.
LEMMA NativeFlags ==
  ASSUME NativeInv, NEW o \in Ops, NEW b \in BOOLEAN
  PROVE  /\ mem' = [mem EXCEPT ![o].undo = b] =>
              \E m \in Memory : Keeps(o, m) /\ SameBut(m, mem[o], {"undo"}) /\ m.undo = b
         /\ mem' = [mem EXCEPT ![o].exposed = b] =>
              \E m \in Memory : Keeps(o, m) /\ SameBut(m, mem[o], {"exposed"}) /\ m.exposed = b
         /\ mem' = [mem EXCEPT ![o].child = b] =>
              \E m \in Memory : Keeps(o, m) /\ SameBut(m, mem[o], {"child"}) /\ m.child = b
<1>1. mem \in [Ops -> Memory]
  BY NativeTyped
<1>2. /\ [mem[o] EXCEPT !.undo = b] \in Memory
      /\ SameBut([mem[o] EXCEPT !.undo = b], mem[o], {"undo"})
      /\ [mem[o] EXCEPT !.undo = b].undo = b
  BY <1>1 DEF Memory, SameBut
<1>3. /\ [mem[o] EXCEPT !.exposed = b] \in Memory
      /\ SameBut([mem[o] EXCEPT !.exposed = b], mem[o], {"exposed"})
      /\ [mem[o] EXCEPT !.exposed = b].exposed = b
  BY <1>1 DEF Memory, SameBut
<1>4. /\ [mem[o] EXCEPT !.child = b] \in Memory
      /\ SameBut([mem[o] EXCEPT !.child = b], mem[o], {"child"})
      /\ [mem[o] EXCEPT !.child = b].child = b
  BY <1>1 DEF Memory, SameBut
<1>5. /\ mem' = [mem EXCEPT ![o].undo = b] =>
           mem' = [mem EXCEPT ![o] = [mem[o] EXCEPT !.undo = b]]
      /\ mem' = [mem EXCEPT ![o].exposed = b] =>
           mem' = [mem EXCEPT ![o] = [mem[o] EXCEPT !.exposed = b]]
      /\ mem' = [mem EXCEPT ![o].child = b] =>
           mem' = [mem EXCEPT ![o] = [mem[o] EXCEPT !.child = b]]
  BY <1>1
<1> QED
  BY <1>2, <1>3, <1>4, <1>5 DEF Keeps

\* What the end of a thread leaves of what the request kept.
LEMMA NativeForgets ==
  ASSUME NativeInv, NEW o \in Ops
  PROVE  /\ X!Forget(o) =>
              \E m \in Memory : /\ Keeps(o, m) /\ m.undo = mem[o].undo /\ ~m.exposed /\ ~m.child
                                /\ ~m.error /\ m.copy = Absent /\ m.temp = Absent
         /\ mem' = [mem EXCEPT ![o].error = TRUE, ![o].child = FALSE] =>
              \E m \in Memory : /\ Keeps(o, m) /\ SameBut(m, mem[o], {"error", "child"})
                                /\ m.error /\ ~m.child
<1>1. mem \in [Ops -> Memory]
  BY NativeTyped
<1> DEFINE f == [X!NoMemory EXCEPT !.undo = mem[o].undo]
<1>2. /\ f \in Memory /\ f.undo = mem[o].undo /\ ~f.exposed /\ ~f.child
      /\ ~f.error /\ f.copy = Absent /\ f.temp = Absent
  BY <1>1 DEF Memory, X!NoMemory
<1>3. /\ [mem[o] EXCEPT !.error = TRUE, !.child = FALSE] \in Memory
      /\ SameBut([mem[o] EXCEPT !.error = TRUE, !.child = FALSE], mem[o], {"error", "child"})
      /\ [mem[o] EXCEPT !.error = TRUE, !.child = FALSE].error
      /\ ~[mem[o] EXCEPT !.error = TRUE, !.child = FALSE].child
  BY <1>1 DEF Memory, SameBut
<1>4. /\ X!Forget(o) => mem' = [mem EXCEPT ![o] = f]
      /\ mem' = [mem EXCEPT ![o].error = TRUE, ![o].child = FALSE] =>
           mem' = [mem EXCEPT ![o] = [mem[o] EXCEPT !.error = TRUE, !.child = FALSE]]
  BY <1>1 DEF X!Forget
<1> HIDE DEF f
<1> QED
  BY <1>2, <1>3, <1>4 DEF Keeps

\* A status is given to a task, unless it has ended.
LEMMA NativeTasks ==
  ASSUME NativeInv, NEW o \in Ops, NEW s \in TaskStatuses, X!SetTask(o, s)
  PROVE  \E t \in TaskStatuses : /\ task' = [task EXCEPT ![o] = t]
                                 /\ t = IF task[o] \in Terminal THEN task[o] ELSE s
<1>1. task \in [Ops -> TaskStatuses]
  BY NativeTyped
<1>2. task' = [task EXCEPT ![o] = IF task[o] \in Terminal THEN task[o] ELSE s]
  BY <1>1 DEF X!SetTask, X!Terminal, Terminal
<1> QED
  BY <1>1, <1>2

\* The copies of the entity that a thread will write.
LEMMA NativeCopies ==
  ASSUME NativeInv, NEW o \in Ops
  PROVE  /\ \/ pc[o] \in {"recordUpgrade", "unexpose", "publish", "finish"}
            \/ pc[o] = "set" /\ Kind(o) # "create"
            => mem[o].copy \in Entities /\ Truthful(mem[o].copy)
         /\ pc[o] \in Local => mem[o].temp \in Entities /\ Truthful(mem[o].temp)
<1>1. NativeLocal(o) /\ mem[o] \in Memory
  BY NativeTyped DEF NativeInv
<1>2. /\ pc[o] = "recordUpgrade" => Kind(o) = "upgrade"
      /\ pc[o] \in {"unexpose", "publish", "finish"} => Resizes(o)
      /\ pc[o] = "set" /\ Kind(o) # "create" => Kind(o) \in {"upgrade", "delete"} \/ Resizes(o)
  BY <1>1, NativeAt DEF X!Kinds, Resizes
<1>3. \/ pc[o] \in {"recordUpgrade", "unexpose", "publish", "finish"}
      \/ pc[o] = "set" /\ Kind(o) # "create"
      => Copying(o)
  BY <1>2 DEF Copying, Resizes
<1> QED
  BY <1>1, <1>3 DEF NativeLocal, Memory

\* A request that keeps all.
LEMMA NativeKeepsAll ==
  ASSUME NEW o \in Ops, mem[o] \in Memory, UNCHANGED mem
  PROVE  \E m \in Memory : Keeps(o, m) /\ m = mem[o] /\ \A fields : SameBut(m, mem[o], fields)
BY DEF Keeps, SameBut

\* _sync_def_entity of the copy a thread keeps.
LEMMA NativeSyncs ==
  ASSUME NativeInv, NEW o \in Ops, pc[o] \in Local, NEW own \in BOOLEAN, NEW p,
         X!Sync(o, mem[o].temp, own, p, p)
  PROVE  /\ X!Goto(o, p)
         /\ rde' \in Entities \cup {Absent} /\ Truthful(rde') /\ (Exists' <=> Exists)
         /\ rde' = rde \/ (Exists /\ rde'.exposed = mem[o].temp.exposed)
         /\ faults' \in 0..MaxFaults /\ (faults' = 0 => faults = 0)
<1>1. mem[o].temp \in Entities /\ Truthful(mem[o].temp)
  BY NativeCopies
<1> DEFINE e == X!Synced(mem[o].temp)
<1>2. e \in Entities /\ Truthful(e) /\ e.exposed = mem[o].temp.exposed
  BY <1>1, NativeEntities
<1>3. \/ X!Put(o, e, p) \/ X!PutRaises(o, e, p)
      \/ X!Goto(o, p) /\ UNCHANGED <<rde, faults>>
  BY DEF X!Sync
<1> HIDE DEF e
<1> QED
  BY <1>2, <1>3, NativeTyped, NativeWrites DEF Typed, Exists

\* What the steps of an upgrade do to the vApp.
LEMMA NativeEffect ==
  ASSUME vapp \in Vapps, NEW p \in Upgrading
  PROVE  LET v == X!UpgradeEffect(p) IN
         /\ v \in Vapps /\ vapp.new \subseteq v.new
         /\ p = "uncordonAll" => v.drained = {}
         /\ p \notin {"runControl", "runWorkers"} => v.new = vapp.new
         /\ p = "runWorkers" => v.new = vapp.new \cup {"workers"}
<1>1. /\ X!Groups = Groups /\ {"controlPlane"} \subseteq Groups /\ {"workers"} \subseteq Groups
      /\ vapp.drained \subseteq Groups
  BY DEF X!Groups, Groups, Vapps
<1>2. \A gs : gs \subseteq Groups =>
        /\ X!Drained(gs) \in Vapps /\ X!Drained(gs).new = vapp.new
        /\ X!Uncordoned(gs) \in Vapps /\ X!Uncordoned(gs).new = vapp.new
        /\ X!Uncordoned(gs).drained = vapp.drained \ gs
        /\ X!Renewed(gs) \in Vapps /\ X!Renewed(gs).new = vapp.new \cup gs
  BY DEF X!Drained, X!Uncordoned, X!Renewed, Vapps
<1>3. /\ p = "drainControl" => X!UpgradeEffect(p) = X!Drained({"controlPlane"})
      /\ p = "runControl" => X!UpgradeEffect(p) = X!Renewed({"controlPlane"})
      /\ p = "uncordonControl" => X!UpgradeEffect(p) = X!Uncordoned({"controlPlane"})
      /\ p = "drainWorkers" => X!UpgradeEffect(p) = X!Drained({"workers"})
      /\ p = "runWorkers" => X!UpgradeEffect(p) = X!Renewed({"workers"})
      /\ p = "uncordonWorkers" => X!UpgradeEffect(p) = X!Uncordoned({"workers"})
      /\ p = "drainAll" => X!UpgradeEffect(p) = X!Drained(Groups)
      /\ p = "runAll" => X!UpgradeEffect(p) = vapp
      /\ p = "uncordonAll" => X!UpgradeEffect(p) = X!Uncordoned(Groups)
  BY <1>1 DEF X!UpgradeEffect
<1> QED
  BY <1>1, <1>2, <1>3 DEF Upgrading

\* The handler of a create checks that its name is free.
LEMMA NativeCheckCreate ==
  ASSUME NativeInv, NEW o \in Ops, X!CheckCreate(o)
  PROVE  NativeSummary(o)
<1>1. PICK p : /\ pc[o] = "get" /\ Kind(o) = "create"
               /\ UNCHANGED <<rde, vapp, token, rule, faults, req, mem>>
               /\ X!Goto(o, p)
               /\ (p = "set" /\ vapp = Absent /\ X!SetTask(o, "RUNNING")) \/ (p = "done" /\ UNCHANGED task)
  BY DEF X!CheckCreate, X!NameTaken, X!state, Kind
<1>2. /\ NativeLocal(o) /\ NativeCreate(o) /\ NativeDelete(o) /\ NativeAlone(o)
      /\ Kind(o) = "create"
      /\ req[o].expose \in BOOLEAN /\ req[o] # Absent /\ mem[o] \in Memory
      /\ task[o] \in TaskStatuses
  <2>1. NativeLocal(o) /\ NativeCreate(o) /\ NativeDelete(o) /\ NativeAlone(o)
    BY DEF NativeInv
  <2> QED
    BY <1>1, <2>1, NativeAt, NativeTyped DEF NativeDeploys, Failed, Upgrading
<1>3. PICK t \in TaskStatuses : /\ (UNCHANGED task /\ t = task[o]) \/ task' = [task EXCEPT ![o] = t]
                                /\ t = (IF p = "set" THEN "RUNNING" ELSE task[o])
  <2>1. "RUNNING" \in TaskStatuses
    BY DEF TaskStatuses
  <2> QED
    BY <1>1, <1>2, <2>1, NativeTasks DEF NativeLocal, Terminal
<1>4. /\ Frame(o) /\ X!TypeOK' /\ req'[o] = req[o] /\ mem'[o] = mem[o] /\ task'[o] = t
      /\ pc'[o] = p
  BY <1>1, <1>2, <1>3, NativeFrame, NativeTyped DEF Typed, Keeps
<1>5. NativeLocal(o)'
  BY <1>1, <1>2, <1>3, <1>4, NativePaths
  DEF NativeLocal, Copying, Resizes, Kind, Truthful, Local, NativeCreates, NativeUpdates,
      NativeUpgrades, NativeDeletes, NativeInfo, NativeDeploys, Upgrading, Failed, Terminal
<1>6. NativeCreate(o)' /\ NativeDelete(o)'
  BY <1>1, <1>2, <1>3, <1>4, NativeUnmade
  DEF NativeCreate, NativeDelete, NativeLocal, Creates, Kind, Resizes, Exists, Unmade, Frame,
      NativeDeploys, Failed, Terminal
<1>7. /\ NativeAlone(o)'
      /\ Alone' /\ Exists' /\ rde'.exposed /\ ~rule' => Unexposed(o)'
  <2> SUFFICES ASSUME Alone'
               PROVE  NativeAlone(o)' /\ (Exists' /\ rde'.exposed /\ ~rule' => Unexposed(o)')
    BY DEF NativeAlone
  <2>1. Alone /\ (Exists /\ rde.exposed /\ ~rule => Unexposed(o)) /\ faults' = 0
    BY <1>1, <1>2, <1>3, <1>4, NativeLone DEF Frame, Alone
  <2> QED
    BY <1>1, <1>2, <1>3, <1>4, <2>1
    DEF NativeAlone, NativeLocal, Unexposed, Copying, Resizes, Kind, Truthful, Exists, Local,
        NativeDeploys, Failed, NativeCreate, NativeDelete, Creates, Unmade
<1>8. UpgradeMove(o)
  <2>1. Failing(o) => Failing(o)'
    BY <1>1, <1>2, <1>3, <1>4 DEF Failing, Failed, Kind, NativeLocal, Resizes, Terminal
  <2> QED
    BY <1>1, <1>2, <1>3, <1>4, <2>1, NativeQuiet DEF Upgrading, Worked, NativeDeploys
<1> QED
  BY <1>1, <1>2, <1>3, <1>4, <1>5, <1>6, <1>7, <1>8, NativeTyped
  DEF NativeSummary, Creates, Kind, Exists, Unmade, NativeDeploys, Truthful

\* And creates the entity.
LEMMA NativeCreateEntity ==
  ASSUME NativeInv, NEW o \in Ops, X!CreateEntity(o)
  PROVE  NativeSummary(o)
<1>1. PICK p : /\ pc[o] = "set" /\ Kind(o) = "create"
               /\ UNCHANGED <<vapp, token, rule, req, mem, task>>
               /\ X!Goto(o, p) /\ p \in {"makeVapp", "err"}
               /\ rde' \in Entities \cup {Absent} /\ Truthful(rde')
               /\ (Exists' /\ rde' # rde => ~rde'.exposed)
               /\ p = "makeVapp" => rde' # rde \/ ~rde'.exposed
               /\ faults' \in 0..MaxFaults /\ (faults' = 0 => faults = 0)
  <2>1. /\ X!NewEntity("PRE_CREATED", "IN_PROGRESS", o) \in Entities
        /\ X!NewEntity("PRE_CREATED", "IN_PROGRESS", o).exposed = FALSE
    BY DEF X!NewEntity, Entities, States, PhaseOps, Statuses
  <2>2. Typed /\ Truthful(rde)
    BY NativeTyped
  <2>3. /\ rde' = rde \/ rde' = X!NewEntity("PRE_CREATED", "IN_PROGRESS", o)
        /\ faults' = faults \/ X!Fault
        /\ X!Goto(o, "err") \/ (X!Goto(o, "makeVapp") /\ rde' = X!NewEntity("PRE_CREATED", "IN_PROGRESS", o))
    BY DEF X!CreateEntity
  <2>4. faults' \in 0..MaxFaults /\ (faults' = 0 => faults = 0)
    BY <2>2, <2>3, ThreadsAssumption DEF Typed, X!Fault
  <2>5. rde' \in Entities \cup {Absent} /\ Truthful(rde')
          /\ (Exists' /\ rde' # rde => ~rde'.exposed)
    BY <2>1, <2>2, <2>3 DEF Typed, Truthful, Exists
  <2> QED
    BY <2>1, <2>3, <2>4, <2>5 DEF X!CreateEntity, Kind
<1>2. /\ NativeLocal(o) /\ NativeCreate(o) /\ NativeDelete(o) /\ NativeAlone(o)
      /\ Kind(o) = "create"
      /\ req[o].expose \in BOOLEAN /\ req[o] # Absent /\ mem[o] \in Memory
      /\ task[o] \in TaskStatuses
  <2>1. NativeLocal(o) /\ NativeCreate(o) /\ NativeDelete(o) /\ NativeAlone(o)
    BY DEF NativeInv
  <2> QED
    BY <1>1, <2>1, NativeAt, NativeTyped DEF NativeDeploys, Failed, Upgrading
<1>3. /\ Frame(o) /\ X!TypeOK' /\ req'[o] = req[o] /\ mem'[o] = mem[o] /\ task'[o] = task[o]
      /\ pc'[o] = p
  BY <1>1, <1>2, NativeFrame, NativeTyped DEF Typed, Keeps
<1>4. NativeLocal(o)'
  BY <1>1, <1>2, <1>3, NativePaths
  DEF NativeLocal, Copying, Resizes, Kind, Truthful, Local, NativeCreates, NativeUpdates,
      NativeUpgrades, NativeDeletes, NativeInfo, NativeDeploys, Upgrading, Failed, Terminal
<1>5. NativeCreate(o)' /\ NativeDelete(o)'
  BY <1>1, <1>2, <1>3, NativeUnmade
  DEF NativeCreate, NativeDelete, NativeLocal, Creates, Kind, Resizes, Exists, Unmade, Frame,
      NativeDeploys, Failed, Terminal
<1>6. /\ NativeAlone(o)'
      /\ Alone' /\ Exists' /\ rde'.exposed /\ ~rule' => Unexposed(o)'
  <2> SUFFICES ASSUME Alone'
               PROVE  NativeAlone(o)' /\ (Exists' /\ rde'.exposed /\ ~rule' => Unexposed(o)')
    BY DEF NativeAlone
  <2>1. Alone /\ (Exists /\ rde.exposed /\ ~rule => Unexposed(o)) /\ faults' = 0
    BY <1>1, <1>2, <1>3, NativeLone DEF Frame, Alone
  <2> QED
    BY <1>1, <1>2, <1>3, <2>1
    DEF NativeAlone, NativeLocal, Unexposed, Copying, Resizes, Kind, Truthful, Exists, Local,
        NativeDeploys, Failed, NativeCreate, NativeDelete, Creates, Unmade
<1>7. UpgradeMove(o)
  <2>1. Failing(o) => Failing(o)'
    BY <1>1, <1>2, <1>3 DEF Failing, Failed, Kind, NativeLocal, Resizes, Terminal
  <2> QED
    BY <1>1, <1>2, <1>3, <2>1, NativeQuiet DEF Upgrading, Worked, NativeDeploys
<1> QED
  BY <1>1, <1>2, <1>3, <1>4, <1>5, <1>6, <1>7, NativeTyped
  DEF NativeSummary, Creates, Kind, Exists, Unmade, NativeDeploys, Truthful

\* The vApp of a create.
LEMMA NativeMakeVapp ==
  ASSUME NativeInv, NEW o \in Ops, X!MakeVapp(o)
  PROVE  NativeSummary(o)
<1>1. /\ pc[o] = "makeVapp" /\ UNCHANGED <<rde, token, rule, faults, req, mem, task>>
      /\ X!Goto(o, "controlPlane")
      /\ vapp = Absent /\ vapp' = NewVapp /\ vapp' \in Vapps
  BY NativeVapps DEF X!MakeVapp, X!NextCall
<1>2. /\ NativeLocal(o) /\ NativeCreate(o) /\ NativeDelete(o) /\ NativeAlone(o)
      /\ Kind(o) = "create"
      /\ req[o].expose \in BOOLEAN /\ req[o] # Absent /\ mem[o] \in Memory
      /\ task[o] \in TaskStatuses
  <2>1. NativeLocal(o) /\ NativeCreate(o) /\ NativeDelete(o) /\ NativeAlone(o)
    BY DEF NativeInv
  <2> QED
    BY <1>1, <2>1, NativeAt, NativeTyped DEF NativeDeploys, Failed, Upgrading
<1>3. /\ Frame(o) /\ X!TypeOK' /\ req'[o] = req[o] /\ mem'[o] = mem[o] /\ task'[o] = task[o]
      /\ pc'[o] = "controlPlane"
  BY <1>1, <1>2, NativeFrame, NativeTyped DEF Typed, Keeps
<1>4. NativeLocal(o)'
  BY <1>1, <1>2, <1>3, NativePaths
  DEF NativeLocal, Copying, Resizes, Kind, Truthful, Local, NativeCreates, NativeUpdates,
      NativeUpgrades, NativeDeletes, NativeInfo, NativeDeploys, Upgrading, Failed, Terminal
<1>5. NativeCreate(o)' /\ NativeDelete(o)'
  BY <1>1, <1>2, <1>3, NativeUnmade
  DEF NativeCreate, NativeDelete, NativeLocal, Creates, Kind, Resizes, Exists, Unmade, Frame,
      NativeDeploys, Failed, Terminal
<1>6. /\ NativeAlone(o)'
      /\ Alone' /\ Exists' /\ rde'.exposed /\ ~rule' => Unexposed(o)'
  <2> SUFFICES ASSUME Alone'
               PROVE  NativeAlone(o)' /\ (Exists' /\ rde'.exposed /\ ~rule' => Unexposed(o)')
    BY DEF NativeAlone
  <2>1. Alone /\ (Exists /\ rde.exposed /\ ~rule => Unexposed(o)) /\ faults' = 0
    BY <1>1, <1>2, <1>3, NativeLone DEF Frame, Alone
  <2> QED
    BY <1>1, <1>2, <1>3, <2>1
    DEF NativeAlone, NativeLocal, Unexposed, Copying, Resizes, Kind, Truthful, Exists, Local,
        NativeDeploys, Failed, NativeCreate, NativeDelete, Creates, Unmade
<1>7. UpgradeMove(o)
  <2>1. Failing(o) => Failing(o)'
    BY <1>1, <1>2, <1>3 DEF Failing, Failed, Kind, NativeLocal, Resizes, Terminal
  <2> QED
    BY <1>1, <1>2, <1>3, <2>1, NativeQuiet DEF Upgrading, Worked, NativeDeploys
<1> QED
  BY <1>1, <1>2, <1>3, <1>4, <1>5, <1>6, <1>7, NativeTyped
  DEF NativeSummary, Creates, Kind, Exists, Unmade, NativeDeploys, Truthful

\* The vApp cannot be deleted.
LEMMA NativeDeleteVappRaises ==
  ASSUME NativeInv, NEW o \in Ops, X!DeleteVappRaises(o)
  PROVE  NativeSummary(o)
<1>1. /\ pc[o] = "deleteVapp" /\ UNCHANGED <<rde, vapp, token, rule, faults, req, mem, task>>
      /\ X!Goto(o, "err")
  BY DEF X!DeleteVappRaises, X!state
<1>2. /\ NativeLocal(o) /\ NativeCreate(o) /\ NativeDelete(o) /\ NativeAlone(o)
      /\ Kind(o) = "delete"
      /\ req[o].expose \in BOOLEAN /\ req[o] # Absent /\ mem[o] \in Memory
      /\ task[o] \in TaskStatuses
  <2>1. NativeLocal(o) /\ NativeCreate(o) /\ NativeDelete(o) /\ NativeAlone(o)
    BY DEF NativeInv
  <2> QED
    BY <1>1, <2>1, NativeAt, NativeTyped DEF NativeDeploys, Failed, Upgrading
<1>3. /\ Frame(o) /\ X!TypeOK' /\ req'[o] = req[o] /\ mem'[o] = mem[o] /\ task'[o] = task[o]
      /\ pc'[o] = "err"
  BY <1>1, <1>2, NativeFrame, NativeTyped DEF Typed, Keeps
<1>4. NativeLocal(o)'
  BY <1>1, <1>2, <1>3, NativePaths
  DEF NativeLocal, Copying, Resizes, Kind, Truthful, Local, NativeCreates, NativeUpdates,
      NativeUpgrades, NativeDeletes, NativeInfo, NativeDeploys, Upgrading, Failed, Terminal
<1>5. NativeCreate(o)' /\ NativeDelete(o)'
  BY <1>1, <1>2, <1>3, NativeUnmade
  DEF NativeCreate, NativeDelete, NativeLocal, Creates, Kind, Resizes, Exists, Unmade, Frame,
      NativeDeploys, Failed, Terminal
<1>6. /\ NativeAlone(o)'
      /\ Alone' /\ Exists' /\ rde'.exposed /\ ~rule' => Unexposed(o)'
  <2> SUFFICES ASSUME Alone'
               PROVE  NativeAlone(o)' /\ (Exists' /\ rde'.exposed /\ ~rule' => Unexposed(o)')
    BY DEF NativeAlone
  <2>1. Alone /\ (Exists /\ rde.exposed /\ ~rule => Unexposed(o)) /\ faults' = 0
    BY <1>1, <1>2, <1>3, NativeLone DEF Frame, Alone
  <2> QED
    BY <1>1, <1>2, <1>3, <2>1
    DEF NativeAlone, NativeLocal, Unexposed, Copying, Resizes, Kind, Truthful, Exists, Local,
        NativeDeploys, Failed, NativeCreate, NativeDelete, Creates, Unmade
<1>7. UpgradeMove(o)
  <2>1. Failing(o) => Failing(o)'
    BY <1>1, <1>2, <1>3 DEF Failing, Failed, Kind, NativeLocal, Resizes, Terminal
  <2> QED
    BY <1>1, <1>2, <1>3, <2>1, NativeQuiet DEF Upgrading, Worked, NativeDeploys
<1> QED
  BY <1>1, <1>2, <1>3, <1>4, <1>5, <1>6, <1>7, NativeTyped
  DEF NativeSummary, Creates, Kind, Exists, Unmade, NativeDeploys, Truthful

\* A deletion deletes the entity first.
LEMMA NativeDeleteEntity ==
  ASSUME NativeInv, NEW o \in Ops, X!DeleteEntity(o)
  PROVE  NativeSummary(o)
<1>1. PICK p : /\ pc[o] = "set" /\ Kind(o) = "delete"
               /\ UNCHANGED <<vapp, token, rule, req, mem, task>>
               /\ X!Goto(o, p) /\ p \in {"deleteVapp", "err"}
               /\ rde' \in {rde, Absent} /\ rde' \in Entities \cup {Absent} /\ Truthful(rde')
               /\ p = "deleteVapp" => ~Exists'
               /\ faults' \in 0..MaxFaults /\ (faults' = 0 => faults = 0)
  <2>1. X!Remove(o, "deleteVapp", "err") /\ pc[o] = "set" /\ Kind(o) = "delete"
    BY DEF X!DeleteEntity, Kind
  <2> QED
    BY <2>1, NativeRemoves DEF X!DeleteEntity
<1>2. /\ NativeLocal(o) /\ NativeCreate(o) /\ NativeDelete(o) /\ NativeAlone(o)
      /\ Kind(o) = "delete"
      /\ req[o].expose \in BOOLEAN /\ req[o] # Absent /\ mem[o] \in Memory
      /\ task[o] \in TaskStatuses
  <2>1. NativeLocal(o) /\ NativeCreate(o) /\ NativeDelete(o) /\ NativeAlone(o)
    BY DEF NativeInv
  <2> QED
    BY <1>1, <2>1, NativeAt, NativeTyped DEF NativeDeploys, Failed, Upgrading
<1>3. /\ Frame(o) /\ X!TypeOK' /\ req'[o] = req[o] /\ mem'[o] = mem[o] /\ task'[o] = task[o]
      /\ pc'[o] = p
  BY <1>1, <1>2, NativeFrame, NativeTyped DEF Typed, Keeps
<1>4. NativeLocal(o)'
  BY <1>1, <1>2, <1>3, NativePaths
  DEF NativeLocal, Copying, Resizes, Kind, Truthful, Local, NativeCreates, NativeUpdates,
      NativeUpgrades, NativeDeletes, NativeInfo, NativeDeploys, Upgrading, Failed, Terminal
<1>5. NativeCreate(o)' /\ NativeDelete(o)'
  BY <1>1, <1>2, <1>3, NativeUnmade
  DEF NativeCreate, NativeDelete, NativeLocal, Creates, Kind, Resizes, Exists, Unmade, Frame,
      NativeDeploys, Failed, Terminal
<1>6. /\ NativeAlone(o)'
      /\ Alone' /\ Exists' /\ rde'.exposed /\ ~rule' => Unexposed(o)'
  <2> SUFFICES ASSUME Alone'
               PROVE  NativeAlone(o)' /\ (Exists' /\ rde'.exposed /\ ~rule' => Unexposed(o)')
    BY DEF NativeAlone
  <2>1. Alone /\ (Exists /\ rde.exposed /\ ~rule => Unexposed(o)) /\ faults' = 0
    BY <1>1, <1>2, <1>3, NativeLone DEF Frame, Alone
  <2> QED
    BY <1>1, <1>2, <1>3, <2>1
    DEF NativeAlone, NativeLocal, Unexposed, Copying, Resizes, Kind, Truthful, Exists, Local,
        NativeDeploys, Failed, NativeCreate, NativeDelete, Creates, Unmade
<1>7. UpgradeMove(o)
  <2>1. Failing(o) => Failing(o)'
    BY <1>1, <1>2, <1>3 DEF Failing, Failed, Kind, NativeLocal, Resizes, Terminal
  <2> QED
    BY <1>1, <1>2, <1>3, <2>1, NativeQuiet DEF Upgrading, Worked, NativeDeploys
<1> QED
  BY <1>1, <1>2, <1>3, <1>4, <1>5, <1>6, <1>7, NativeTyped
  DEF NativeSummary, Creates, Kind, Exists, Unmade, NativeDeploys, Truthful

\* The handler stores the copy it read.
LEMMA NativeMarkBusy ==
  ASSUME NativeInv, NEW o \in Ops, X!MarkBusy(o)
  PROVE  NativeSummary(o)
<1>1. PICK p : /\ pc[o] = "set" /\ Kind(o) \in {"update", "deleteNodes", "upgrade"}
               /\ UNCHANGED <<vapp, token, rule, req, mem, task>>
               /\ X!Goto(o, p)
               /\ rde' \in Entities \cup {Absent} /\ Truthful(rde') /\ (Exists' <=> Exists)
               /\ rde' = rde \/ (Exists /\ rde'.exposed = mem[o].copy.exposed)
               /\ faults' \in 0..MaxFaults /\ (faults' = 0 => faults = 0)
               /\ p = "err" \/ p = (IF Kind(o) = "upgrade" THEN "upgrade" ELSE "monitor")
  <2>1. /\ pc[o] = "set" /\ Kind(o) \in {"update", "deleteNodes", "upgrade"}
        /\ \/ X!Put(o, X!InProgress(o), X!FirstPc[Kind(o)])
           \/ X!PutRaises(o, X!InProgress(o), "err")
    BY DEF X!MarkBusy, X!FirstPc, Kind
  <2>2. X!FirstPc[Kind(o)] = IF Kind(o) = "upgrade" THEN "upgrade" ELSE "monitor"
    BY <2>1 DEF X!FirstPc
  <2>3. mem[o].copy \in Entities /\ Truthful(mem[o].copy)
    BY <2>1, NativeCopies
  <2>4. X!PhaseOp(o) \in PhaseOps /\ "IN_PROGRESS" \in Statuses
    BY DEF X!PhaseOp, PhaseOps, Statuses
  <2> DEFINE e == X!With(mem[o].copy, X!PhaseOp(o), "IN_PROGRESS")
  <2>5. e \in Entities /\ Truthful(e) /\ e.exposed = mem[o].copy.exposed
    BY <2>3, <2>4, NativeWith
  <2>6. X!InProgress(o) = [e EXCEPT !.task = o]
    BY DEF X!InProgress
  <2> HIDE DEF e
  <2>7. /\ X!InProgress(o) \in Entities /\ Truthful(X!InProgress(o))
        /\ X!InProgress(o).exposed = mem[o].copy.exposed
    BY <2>5, <2>6, NativeEntities
  <2> QED
    BY <2>1, <2>2, <2>7, NativeWrites DEF X!MarkBusy
<1>2. /\ NativeLocal(o) /\ NativeCreate(o) /\ NativeDelete(o) /\ NativeAlone(o)
      /\ Kind(o) \in {"update", "deleteNodes", "upgrade"}
      /\ req[o].expose \in BOOLEAN /\ req[o] # Absent /\ mem[o] \in Memory
      /\ task[o] \in TaskStatuses
  <2>1. NativeLocal(o) /\ NativeCreate(o) /\ NativeDelete(o) /\ NativeAlone(o)
    BY DEF NativeInv
  <2> QED
    BY <1>1, <2>1, NativeAt, NativeTyped DEF NativeDeploys, Failed, Upgrading
<1>3. /\ Frame(o) /\ X!TypeOK' /\ req'[o] = req[o] /\ mem'[o] = mem[o] /\ task'[o] = task[o]
      /\ pc'[o] = p
  BY <1>1, <1>2, NativeFrame, NativeTyped DEF Typed, Keeps
<1>4. NativeLocal(o)'
  BY <1>1, <1>2, <1>3, NativePaths
  DEF NativeLocal, Copying, Resizes, Kind, Truthful, Local, NativeCreates, NativeUpdates,
      NativeUpgrades, NativeDeletes, NativeInfo, NativeDeploys, Upgrading, Failed, Terminal
<1>5. NativeCreate(o)' /\ NativeDelete(o)'
  BY <1>1, <1>2, <1>3, NativeUnmade
  DEF NativeCreate, NativeDelete, NativeLocal, Creates, Kind, Resizes, Exists, Unmade, Frame,
      NativeDeploys, Failed, Terminal
<1>6. /\ NativeAlone(o)'
      /\ Alone' /\ Exists' /\ rde'.exposed /\ ~rule' => Unexposed(o)'
  <2> SUFFICES ASSUME Alone'
               PROVE  NativeAlone(o)' /\ (Exists' /\ rde'.exposed /\ ~rule' => Unexposed(o)')
    BY DEF NativeAlone
  <2>1. Alone /\ (Exists /\ rde.exposed /\ ~rule => Unexposed(o)) /\ faults' = 0
    BY <1>1, <1>2, <1>3, NativeLone DEF Frame, Alone
  <2> QED
    BY <1>1, <1>2, <1>3, <2>1
    DEF NativeAlone, NativeLocal, Unexposed, Copying, Resizes, Kind, Truthful, Exists, Local,
        NativeDeploys, Failed, NativeCreate, NativeDelete, Creates, Unmade
<1>7. UpgradeMove(o)
  <2>1. Failing(o) => Failing(o)'
    BY <1>1, <1>2, <1>3 DEF Failing, Failed, Kind, NativeLocal, Resizes, Terminal
  <2> QED
    BY <1>1, <1>2, <1>3, <2>1, NativeQuiet DEF Upgrading, Worked, NativeDeploys
<1> QED
  BY <1>1, <1>2, <1>3, <1>4, <1>5, <1>6, <1>7, NativeTyped
  DEF NativeSummary, Creates, Kind, Exists, Unmade, NativeDeploys, Truthful

\* The nodes of a create, and the scripts on them.
LEMMA NativeDeploy ==
  ASSUME NativeInv, NEW o \in Ops, X!Deploy(o)
  PROVE  NativeSummary(o)
<1>1. PICK p : /\ pc[o] \in {"controlPlane", "init", "workers", "join", "nfs"}
               /\ UNCHANGED <<rde, token, rule, faults, req, mem, task>>
               /\ vapp # Absent /\ Worked(o) /\ vapp' \in Vapps
               /\ X!Goto(o, p)
               /\ p \in {"address", "workers", "join", "nfs", "record"}
               /\ p = "address" <=> pc[o] = "controlPlane"
  <2>1. pc[o] \in {"controlPlane", "init", "workers", "join", "nfs"} /\ vapp # Absent
    BY DEF X!Deploy
  <2>2. req[o].workers \in Nat /\ vapp \in Vapps
    BY <2>1, NativeAt, NativeTyped DEF NativeInv, Typed
  <2>3. Worked(o) /\ vapp' \in Vapps
    BY <2>1, <2>2, NativeVapps DEF X!Deploy, X!AddNodes, Worked, Vapps
  <2> QED
    BY <2>1, <2>3 DEF X!Deploy, X!NextCall
<1>2. /\ NativeLocal(o) /\ NativeCreate(o) /\ NativeDelete(o) /\ NativeAlone(o)
      /\ Kind(o) = "create"
      /\ req[o].expose \in BOOLEAN /\ req[o] # Absent /\ mem[o] \in Memory
      /\ task[o] \in TaskStatuses
  <2>1. NativeLocal(o) /\ NativeCreate(o) /\ NativeDelete(o) /\ NativeAlone(o)
    BY DEF NativeInv
  <2> QED
    BY <1>1, <2>1, NativeAt, NativeTyped DEF NativeDeploys, Failed, Upgrading
<1>3. /\ Frame(o) /\ X!TypeOK' /\ req'[o] = req[o] /\ mem'[o] = mem[o] /\ task'[o] = task[o]
      /\ pc'[o] = p
  BY <1>1, <1>2, NativeFrame, NativeTyped DEF Typed, Keeps
<1>4. NativeLocal(o)'
  BY <1>1, <1>2, <1>3, NativePaths
  DEF NativeLocal, Copying, Resizes, Kind, Truthful, Local, NativeCreates, NativeUpdates,
      NativeUpgrades, NativeDeletes, NativeInfo, NativeDeploys, Upgrading, Failed, Terminal
<1>5. NativeCreate(o)' /\ NativeDelete(o)'
  BY <1>1, <1>2, <1>3, NativeUnmade
  DEF NativeCreate, NativeDelete, NativeLocal, Creates, Kind, Resizes, Exists, Unmade, Frame,
      NativeDeploys, Failed, Terminal
<1>6. /\ NativeAlone(o)'
      /\ Alone' /\ Exists' /\ rde'.exposed /\ ~rule' => Unexposed(o)'
  <2> SUFFICES ASSUME Alone'
               PROVE  NativeAlone(o)' /\ (Exists' /\ rde'.exposed /\ ~rule' => Unexposed(o)')
    BY DEF NativeAlone
  <2>1. Alone /\ (Exists /\ rde.exposed /\ ~rule => Unexposed(o)) /\ faults' = 0
    BY <1>1, <1>2, <1>3, NativeLone DEF Frame, Alone
  <2> QED
    BY <1>1, <1>2, <1>3, <2>1
    DEF NativeAlone, NativeLocal, Unexposed, Copying, Resizes, Kind, Truthful, Exists, Local,
        NativeDeploys, Failed, NativeCreate, NativeDelete, Creates, Unmade
<1>7. UpgradeMove(o)
  <2>1. Failing(o) => Failing(o)'
    BY <1>1, <1>2, <1>3 DEF Failing, Failed, Kind, NativeLocal, Resizes, Terminal
  <2> QED
    BY <1>1, <1>2, <1>3, <2>1, NativeQuiet DEF Upgrading, Worked, NativeDeploys
<1> QED
  BY <1>1, <1>2, <1>3, <1>4, <1>5, <1>6, <1>7, NativeTyped
  DEF NativeSummary, Creates, Kind, Exists, Unmade, NativeDeploys, Truthful

\* The end of a create is recorded.
LEMMA NativeRecord ==
  ASSUME NativeInv, NEW o \in Ops, X!Record(o)
  PROVE  NativeSummary(o)
<1>1. PICK p : /\ pc[o] = "record" /\ UNCHANGED <<vapp, token, rule, req, mem, task>>
               /\ X!Goto(o, p) /\ p \in {"resolve", "fail"}
               /\ rde' \in Entities \cup {Absent} /\ Truthful(rde') /\ (Exists' <=> Exists)
               /\ rde' = rde \/ (Exists /\ rde'.exposed = mem[o].exposed)
               /\ faults' \in 0..MaxFaults /\ (faults' = 0 => faults = 0)
  <2>1. /\ pc[o] = "record"
        /\ \/ Exists /\ (X!Put(o, X!Created(o), "resolve") \/ X!PutRaises(o, X!Created(o), "fail"))
           \/ ~Exists /\ X!Goto(o, "fail") /\ UNCHANGED <<rde, faults>>
    BY DEF X!Record, X!Exists, Exists
  <2>2. ASSUME Exists
        PROVE  /\ X!Created(o) \in Entities /\ Truthful(X!Created(o))
               /\ X!Created(o).exposed = mem[o].exposed
    <3>1. rde \in Entities /\ Truthful(rde) /\ mem[o].exposed \in BOOLEAN
      BY <2>2, NativeTyped DEF Typed, Exists, Memory
    <3>2. X!Synced(rde) \in Entities /\ Truthful(X!Synced(rde))
      BY <3>1, NativeEntities
    <3>3. "CREATE" \in PhaseOps /\ "SUCCEEDED" \in Statuses
      BY DEF PhaseOps, Statuses
    <3>4. X!With(X!Synced(rde), "CREATE", "SUCCEEDED") \in Entities
      BY <3>2, <3>3, NativeWith
    <3>5. /\ X!Created(o) \in Entities /\ X!Created(o).linked = TRUE
          /\ X!Created(o).exposed = mem[o].exposed
      BY <3>1, <3>4 DEF X!Created, Entities
    <3> QED
      BY <3>5 DEF Truthful
  <2>3. CASE Exists
    BY <2>1, <2>2, <2>3, NativeWrites DEF X!Record
  <2>4. CASE ~Exists
    BY <2>1, <2>4, NativeTyped DEF X!Record, Typed, Exists
  <2> QED
    BY <2>3, <2>4
<1>2. /\ NativeLocal(o) /\ NativeCreate(o) /\ NativeDelete(o) /\ NativeAlone(o)
      /\ Kind(o) = "create"
      /\ req[o].expose \in BOOLEAN /\ req[o] # Absent /\ mem[o] \in Memory
      /\ task[o] \in TaskStatuses
  <2>1. NativeLocal(o) /\ NativeCreate(o) /\ NativeDelete(o) /\ NativeAlone(o)
    BY DEF NativeInv
  <2> QED
    BY <1>1, <2>1, NativeAt, NativeTyped DEF NativeDeploys, Failed, Upgrading
<1>3. /\ Frame(o) /\ X!TypeOK' /\ req'[o] = req[o] /\ mem'[o] = mem[o] /\ task'[o] = task[o]
      /\ pc'[o] = p
  BY <1>1, <1>2, NativeFrame, NativeTyped DEF Typed, Keeps
<1>4. NativeLocal(o)'
  BY <1>1, <1>2, <1>3, NativePaths
  DEF NativeLocal, Copying, Resizes, Kind, Truthful, Local, NativeCreates, NativeUpdates,
      NativeUpgrades, NativeDeletes, NativeInfo, NativeDeploys, Upgrading, Failed, Terminal
<1>5. NativeCreate(o)' /\ NativeDelete(o)'
  BY <1>1, <1>2, <1>3, NativeUnmade
  DEF NativeCreate, NativeDelete, NativeLocal, Creates, Kind, Resizes, Exists, Unmade, Frame,
      NativeDeploys, Failed, Terminal
<1>6. /\ NativeAlone(o)'
      /\ Alone' /\ Exists' /\ rde'.exposed /\ ~rule' => Unexposed(o)'
  <2> SUFFICES ASSUME Alone'
               PROVE  NativeAlone(o)' /\ (Exists' /\ rde'.exposed /\ ~rule' => Unexposed(o)')
    BY DEF NativeAlone
  <2>1. Alone /\ (Exists /\ rde.exposed /\ ~rule => Unexposed(o)) /\ faults' = 0
    BY <1>1, <1>2, <1>3, NativeLone DEF Frame, Alone
  <2> QED
    BY <1>1, <1>2, <1>3, <2>1
    DEF NativeAlone, NativeLocal, Unexposed, Copying, Resizes, Kind, Truthful, Exists, Local,
        NativeDeploys, Failed, NativeCreate, NativeDelete, Creates, Unmade
<1>7. UpgradeMove(o)
  <2>1. Failing(o) => Failing(o)'
    BY <1>1, <1>2, <1>3 DEF Failing, Failed, Kind, NativeLocal, Resizes, Terminal
  <2> QED
    BY <1>1, <1>2, <1>3, <2>1, NativeQuiet DEF Upgrading, Worked, NativeDeploys
<1> QED
  BY <1>1, <1>2, <1>3, <1>4, <1>5, <1>6, <1>7, NativeTyped
  DEF NativeSummary, Creates, Kind, Exists, Unmade, NativeDeploys, Truthful

\* And the entity resolved.
LEMMA NativeResolve ==
  ASSUME NativeInv, NEW o \in Ops, X!Resolve(o)
  PROVE  NativeSummary(o)
<1>1. PICK p : /\ pc[o] = "resolve" /\ UNCHANGED <<vapp, token, rule, req, mem, task>>
               /\ X!Goto(o, p) /\ p \in {"ok", "fail"}
               /\ rde' \in Entities \cup {Absent} /\ Truthful(rde') /\ (Exists' <=> Exists)
               /\ rde' = rde \/ (Exists /\ rde'.exposed = rde.exposed)
               /\ faults' \in 0..MaxFaults /\ (faults' = 0 => faults = 0)
  <2>1. /\ pc[o] = "resolve"
        /\ \/ Exists /\ (X!Put(o, X!Resolved, "ok") \/ X!PutRaises(o, X!Resolved, "fail"))
           \/ ~Exists /\ X!Goto(o, "fail") /\ UNCHANGED <<rde, faults>>
    BY DEF X!Resolve, X!Exists, Exists, X!PutOrNot
  <2>2. ASSUME Exists
        PROVE  X!Resolved \in Entities /\ Truthful(X!Resolved) /\ X!Resolved.exposed = rde.exposed
    BY <2>2, NativeTyped, NativeEntities DEF X!Resolved, Typed, Exists
  <2>3. CASE Exists
    BY <2>1, <2>2, <2>3, NativeWrites DEF X!Resolve
  <2>4. CASE ~Exists
    BY <2>1, <2>4, NativeTyped DEF X!Resolve, Typed, Exists
  <2> QED
    BY <2>3, <2>4
<1>2. /\ NativeLocal(o) /\ NativeCreate(o) /\ NativeDelete(o) /\ NativeAlone(o)
      /\ Kind(o) = "create"
      /\ req[o].expose \in BOOLEAN /\ req[o] # Absent /\ mem[o] \in Memory
      /\ task[o] \in TaskStatuses
  <2>1. NativeLocal(o) /\ NativeCreate(o) /\ NativeDelete(o) /\ NativeAlone(o)
    BY DEF NativeInv
  <2> QED
    BY <1>1, <2>1, NativeAt, NativeTyped DEF NativeDeploys, Failed, Upgrading
<1>3. /\ Frame(o) /\ X!TypeOK' /\ req'[o] = req[o] /\ mem'[o] = mem[o] /\ task'[o] = task[o]
      /\ pc'[o] = p
  BY <1>1, <1>2, NativeFrame, NativeTyped DEF Typed, Keeps
<1>4. NativeLocal(o)'
  BY <1>1, <1>2, <1>3, NativePaths
  DEF NativeLocal, Copying, Resizes, Kind, Truthful, Local, NativeCreates, NativeUpdates,
      NativeUpgrades, NativeDeletes, NativeInfo, NativeDeploys, Upgrading, Failed, Terminal
<1>5. NativeCreate(o)' /\ NativeDelete(o)'
  BY <1>1, <1>2, <1>3, NativeUnmade
  DEF NativeCreate, NativeDelete, NativeLocal, Creates, Kind, Resizes, Exists, Unmade, Frame,
      NativeDeploys, Failed, Terminal
<1>6. /\ NativeAlone(o)'
      /\ Alone' /\ Exists' /\ rde'.exposed /\ ~rule' => Unexposed(o)'
  <2> SUFFICES ASSUME Alone'
               PROVE  NativeAlone(o)' /\ (Exists' /\ rde'.exposed /\ ~rule' => Unexposed(o)')
    BY DEF NativeAlone
  <2>1. Alone /\ (Exists /\ rde.exposed /\ ~rule => Unexposed(o)) /\ faults' = 0
    BY <1>1, <1>2, <1>3, NativeLone DEF Frame, Alone
  <2> QED
    BY <1>1, <1>2, <1>3, <2>1
    DEF NativeAlone, NativeLocal, Unexposed, Copying, Resizes, Kind, Truthful, Exists, Local,
        NativeDeploys, Failed, NativeCreate, NativeDelete, Creates, Unmade
<1>7. UpgradeMove(o)
  <2>1. Failing(o) => Failing(o)'
    BY <1>1, <1>2, <1>3 DEF Failing, Failed, Kind, NativeLocal, Resizes, Terminal
  <2> QED
    BY <1>1, <1>2, <1>3, <2>1, NativeQuiet DEF Upgrading, Worked, NativeDeploys
<1> QED
  BY <1>1, <1>2, <1>3, <1>4, <1>5, <1>6, <1>7, NativeTyped
  DEF NativeSummary, Creates, Kind, Exists, Unmade, NativeDeploys, Truthful

\* Or resolved where it failed.
LEMMA NativeResolveFailed ==
  ASSUME NativeInv, NEW o \in Ops, X!ResolveFailed(o)
  PROVE  NativeSummary(o)
<1>1. /\ pc[o] = "resolveFailed" /\ UNCHANGED <<vapp, token, rule, req, mem, task>>
      /\ X!Goto(o, "err")
      /\ rde' \in Entities \cup {Absent} /\ Truthful(rde') /\ (Exists' <=> Exists)
      /\ rde' = rde \/ (Exists /\ rde'.exposed = rde.exposed)
      /\ faults' \in 0..MaxFaults /\ (faults' = 0 => faults = 0)
  <2>1. /\ pc[o] = "resolveFailed"
        /\ \/ Exists /\ (X!Put(o, X!Resolved, "err") \/ X!PutRaises(o, X!Resolved, "err"))
           \/ ~Exists /\ X!Goto(o, "err") /\ UNCHANGED <<rde, faults>>
    BY DEF X!ResolveFailed, X!Exists, Exists, X!PutOrNot
  <2>2. ASSUME Exists
        PROVE  X!Resolved \in Entities /\ Truthful(X!Resolved) /\ X!Resolved.exposed = rde.exposed
    BY <2>2, NativeTyped, NativeEntities DEF X!Resolved, Typed, Exists
  <2>3. CASE Exists
    BY <2>1, <2>2, <2>3, NativeWrites DEF X!ResolveFailed
  <2>4. CASE ~Exists
    BY <2>1, <2>4, NativeTyped DEF X!ResolveFailed, Typed, Exists
  <2> QED
    BY <2>3, <2>4
<1>2. /\ NativeLocal(o) /\ NativeCreate(o) /\ NativeDelete(o) /\ NativeAlone(o)
      /\ Kind(o) = "create"
      /\ req[o].expose \in BOOLEAN /\ req[o] # Absent /\ mem[o] \in Memory
      /\ task[o] \in TaskStatuses
  <2>1. NativeLocal(o) /\ NativeCreate(o) /\ NativeDelete(o) /\ NativeAlone(o)
    BY DEF NativeInv
  <2> QED
    BY <1>1, <2>1, NativeAt, NativeTyped DEF NativeDeploys, Failed, Upgrading
<1>3. /\ Frame(o) /\ X!TypeOK' /\ req'[o] = req[o] /\ mem'[o] = mem[o] /\ task'[o] = task[o]
      /\ pc'[o] = "err"
  BY <1>1, <1>2, NativeFrame, NativeTyped DEF Typed, Keeps
<1>4. NativeLocal(o)'
  BY <1>1, <1>2, <1>3, NativePaths
  DEF NativeLocal, Copying, Resizes, Kind, Truthful, Local, NativeCreates, NativeUpdates,
      NativeUpgrades, NativeDeletes, NativeInfo, NativeDeploys, Upgrading, Failed, Terminal
<1>5. NativeCreate(o)' /\ NativeDelete(o)'
  BY <1>1, <1>2, <1>3, NativeUnmade
  DEF NativeCreate, NativeDelete, NativeLocal, Creates, Kind, Resizes, Exists, Unmade, Frame,
      NativeDeploys, Failed, Terminal
<1>6. /\ NativeAlone(o)'
      /\ Alone' /\ Exists' /\ rde'.exposed /\ ~rule' => Unexposed(o)'
  <2> SUFFICES ASSUME Alone'
               PROVE  NativeAlone(o)' /\ (Exists' /\ rde'.exposed /\ ~rule' => Unexposed(o)')
    BY DEF NativeAlone
  <2>1. Alone /\ (Exists /\ rde.exposed /\ ~rule => Unexposed(o)) /\ faults' = 0
    BY <1>1, <1>2, <1>3, NativeLone DEF Frame, Alone
  <2> QED
    BY <1>1, <1>2, <1>3, <2>1
    DEF NativeAlone, NativeLocal, Unexposed, Copying, Resizes, Kind, Truthful, Exists, Local,
        NativeDeploys, Failed, NativeCreate, NativeDelete, Creates, Unmade
<1>7. UpgradeMove(o)
  <2>1. Failing(o) => Failing(o)'
    BY <1>1, <1>2, <1>3 DEF Failing, Failed, Kind, NativeLocal, Resizes, Terminal
  <2> QED
    BY <1>1, <1>2, <1>3, <2>1, NativeQuiet DEF Upgrading, Worked, NativeDeploys
<1> QED
  BY <1>1, <1>2, <1>3, <1>4, <1>5, <1>6, <1>7, NativeTyped
  DEF NativeSummary, Creates, Kind, Exists, Unmade, NativeDeploys, Truthful

\* A thread that cannot read the entity.
LEMMA NativeMonitorRaises ==
  ASSUME NativeInv, NEW o \in Ops, X!MonitorRaises(o)
  PROVE  NativeSummary(o)
<1>1. /\ pc[o] \in {"monitor", "upgrade"} /\ UNCHANGED <<rde, vapp, token, rule, req, mem, task>>
      /\ X!Goto(o, "fail")
      /\ faults' \in 0..MaxFaults /\ (faults' = 0 => faults = 0)
  BY NativeCallFails DEF X!MonitorRaises, X!state
<1>2. /\ NativeLocal(o) /\ NativeCreate(o) /\ NativeDelete(o) /\ NativeAlone(o)
      /\ (IF pc[o] = "upgrade" THEN Kind(o) = "upgrade" ELSE Resizes(o))
      /\ req[o].expose \in BOOLEAN /\ req[o] # Absent /\ mem[o] \in Memory
      /\ task[o] \in TaskStatuses
  <2>1. NativeLocal(o) /\ NativeCreate(o) /\ NativeDelete(o) /\ NativeAlone(o)
    BY DEF NativeInv
  <2> QED
    BY <1>1, <2>1, NativeAt, NativeTyped DEF NativeDeploys, Failed, Upgrading
<1>3. /\ Frame(o) /\ X!TypeOK' /\ req'[o] = req[o] /\ mem'[o] = mem[o] /\ task'[o] = task[o]
      /\ pc'[o] = "fail"
  BY <1>1, <1>2, NativeFrame, NativeTyped DEF Typed, Keeps
<1>4. NativeLocal(o)'
  BY <1>1, <1>2, <1>3, NativePaths
  DEF NativeLocal, Copying, Resizes, Kind, Truthful, Local, NativeCreates, NativeUpdates,
      NativeUpgrades, NativeDeletes, NativeInfo, NativeDeploys, Upgrading, Failed, Terminal
<1>5. NativeCreate(o)' /\ NativeDelete(o)'
  BY <1>1, <1>2, <1>3, NativeUnmade
  DEF NativeCreate, NativeDelete, NativeLocal, Creates, Kind, Resizes, Exists, Unmade, Frame,
      NativeDeploys, Failed, Terminal
<1>6. /\ NativeAlone(o)'
      /\ Alone' /\ Exists' /\ rde'.exposed /\ ~rule' => Unexposed(o)'
  <2> SUFFICES ASSUME Alone'
               PROVE  NativeAlone(o)' /\ (Exists' /\ rde'.exposed /\ ~rule' => Unexposed(o)')
    BY DEF NativeAlone
  <2>1. Alone /\ (Exists /\ rde.exposed /\ ~rule => Unexposed(o)) /\ faults' = 0
    BY <1>1, <1>2, <1>3, NativeLone DEF Frame, Alone
  <2> QED
    BY <1>1, <1>2, <1>3, <2>1
    DEF NativeAlone, NativeLocal, Unexposed, Copying, Resizes, Kind, Truthful, Exists, Local,
        NativeDeploys, Failed, NativeCreate, NativeDelete, Creates, Unmade
<1>7. UpgradeMove(o)
  <2>1. Failing(o) => Failing(o)'
    BY <1>1, <1>2, <1>3 DEF Failing, Failed, Kind, NativeLocal, Resizes, Terminal
  <2> QED
    BY <1>1, <1>2, <1>3, <2>1, NativeQuiet DEF Upgrading, Worked, NativeDeploys
<1> QED
  BY <1>1, <1>2, <1>3, <1>4, <1>5, <1>6, <1>7, NativeTyped
  DEF NativeSummary, Creates, Kind, Exists, Unmade, NativeDeploys, Truthful

\* New workers.
LEMMA NativeAdd ==
  ASSUME NativeInv, NEW o \in Ops, X!Add(o)
  PROVE  NativeSummary(o)
<1>1. PICK p : /\ pc[o] = "add" /\ UNCHANGED <<rde, token, rule, faults, req, mem, task>>
               /\ vapp # Absent /\ Worked(o) /\ vapp' \in Vapps
               /\ X!Goto(o, p) /\ p \in {"unexpose", "publish"}
  <2>1. pc[o] = "add" /\ vapp # Absent /\ Exists
    BY DEF X!Add, X!Exists, Exists
  <2>2. req[o].workers \in Nat /\ vapp \in Vapps /\ rde.workers \in Nat
    BY <2>1, NativeAt, NativeTyped DEF NativeInv, Typed, Entities, Exists
  <2>3. \/ vapp' = vapp
        \/ /\ vapp' = X!MoreWorkers(req[o].workers - rde.workers)
           /\ req[o].workers - rde.workers \in Int
           /\ vapp.workers + (req[o].workers - rde.workers) \in Nat
    BY <2>2 DEF X!Add, Vapps
  <2>4. Worked(o) /\ vapp' \in Vapps
    BY <2>1, <2>2, <2>3, NativeVapps DEF Worked
  <2> QED
    BY <2>1, <2>4 DEF X!Add, X!AfterChild
<1>2. /\ NativeLocal(o) /\ NativeCreate(o) /\ NativeDelete(o) /\ NativeAlone(o) /\ Resizes(o)
      /\ req[o].expose \in BOOLEAN /\ req[o] # Absent /\ mem[o] \in Memory
      /\ task[o] \in TaskStatuses
  <2>1. NativeLocal(o) /\ NativeCreate(o) /\ NativeDelete(o) /\ NativeAlone(o)
    BY DEF NativeInv
  <2> QED
    BY <1>1, <2>1, NativeAt, NativeTyped DEF NativeDeploys, Failed, Upgrading
<1>3. /\ Frame(o) /\ X!TypeOK' /\ req'[o] = req[o] /\ mem'[o] = mem[o] /\ task'[o] = task[o]
      /\ pc'[o] = p
  BY <1>1, <1>2, NativeFrame, NativeTyped DEF Typed, Keeps
<1>4. NativeLocal(o)'
  BY <1>1, <1>2, <1>3, NativePaths
  DEF NativeLocal, Copying, Resizes, Kind, Truthful, Local, NativeCreates, NativeUpdates,
      NativeUpgrades, NativeDeletes, NativeInfo, NativeDeploys, Upgrading, Failed, Terminal
<1>5. NativeCreate(o)' /\ NativeDelete(o)'
  BY <1>1, <1>2, <1>3, NativeUnmade
  DEF NativeCreate, NativeDelete, NativeLocal, Creates, Kind, Resizes, Exists, Unmade, Frame,
      NativeDeploys, Failed, Terminal
<1>6. /\ NativeAlone(o)'
      /\ Alone' /\ Exists' /\ rde'.exposed /\ ~rule' => Unexposed(o)'
  <2> SUFFICES ASSUME Alone'
               PROVE  NativeAlone(o)' /\ (Exists' /\ rde'.exposed /\ ~rule' => Unexposed(o)')
    BY DEF NativeAlone
  <2>1. Alone /\ (Exists /\ rde.exposed /\ ~rule => Unexposed(o)) /\ faults' = 0
    BY <1>1, <1>2, <1>3, NativeLone DEF Frame, Alone
  <2> QED
    BY <1>1, <1>2, <1>3, <2>1
    DEF NativeAlone, NativeLocal, Unexposed, Copying, Resizes, Kind, Truthful, Exists, Local,
        NativeDeploys, Failed, NativeCreate, NativeDelete, Creates, Unmade
<1>7. UpgradeMove(o)
  <2>1. Failing(o) => Failing(o)'
    BY <1>1, <1>2, <1>3 DEF Failing, Failed, Kind, NativeLocal, Resizes, Terminal
  <2> QED
    BY <1>1, <1>2, <1>3, <2>1, NativeQuiet DEF Upgrading, Worked, NativeDeploys
<1> QED
  BY <1>1, <1>2, <1>3, <1>4, <1>5, <1>6, <1>7, NativeTyped
  DEF NativeSummary, Creates, Kind, Exists, Unmade, NativeDeploys, Truthful

\* Deleted workers.
LEMMA NativeDel ==
  ASSUME NativeInv, NEW o \in Ops, X!Del(o)
  PROVE  NativeSummary(o)
<1>1. PICK p : /\ pc[o] = "del" /\ UNCHANGED <<rde, token, rule, faults, req, mem, task>>
               /\ vapp # Absent /\ Worked(o) /\ vapp' \in Vapps
               /\ X!Goto(o, p) /\ p \in {"unexpose", "publish"}
  <2>1. pc[o] = "del" /\ vapp # Absent /\ Exists
    BY DEF X!Del, X!Exists, Exists
  <2>2. req[o].workers \in Nat /\ vapp \in Vapps /\ rde.workers \in Nat
    BY <2>1, NativeAt, NativeTyped DEF NativeInv, Typed, Entities, Exists
  <2>3. X!Surplus(o) \in Nat
    BY <2>2 DEF X!Surplus
  <2>4. /\ vapp' = X!MoreWorkers(-X!Surplus(o))
        /\ -X!Surplus(o) \in Int /\ vapp.workers + (-X!Surplus(o)) \in Nat
    BY <2>2, <2>3 DEF X!Del, Vapps
  <2>5. Worked(o) /\ vapp' \in Vapps
    BY <2>1, <2>2, <2>4, NativeVapps DEF Worked
  <2> QED
    BY <2>1, <2>5 DEF X!Del, X!AfterChild
<1>2. /\ NativeLocal(o) /\ NativeCreate(o) /\ NativeDelete(o) /\ NativeAlone(o) /\ Resizes(o)
      /\ req[o].expose \in BOOLEAN /\ req[o] # Absent /\ mem[o] \in Memory
      /\ task[o] \in TaskStatuses
  <2>1. NativeLocal(o) /\ NativeCreate(o) /\ NativeDelete(o) /\ NativeAlone(o)
    BY DEF NativeInv
  <2> QED
    BY <1>1, <2>1, NativeAt, NativeTyped DEF NativeDeploys, Failed, Upgrading
<1>3. /\ Frame(o) /\ X!TypeOK' /\ req'[o] = req[o] /\ mem'[o] = mem[o] /\ task'[o] = task[o]
      /\ pc'[o] = p
  BY <1>1, <1>2, NativeFrame, NativeTyped DEF Typed, Keeps
<1>4. NativeLocal(o)'
  BY <1>1, <1>2, <1>3, NativePaths
  DEF NativeLocal, Copying, Resizes, Kind, Truthful, Local, NativeCreates, NativeUpdates,
      NativeUpgrades, NativeDeletes, NativeInfo, NativeDeploys, Upgrading, Failed, Terminal
<1>5. NativeCreate(o)' /\ NativeDelete(o)'
  BY <1>1, <1>2, <1>3, NativeUnmade
  DEF NativeCreate, NativeDelete, NativeLocal, Creates, Kind, Resizes, Exists, Unmade, Frame,
      NativeDeploys, Failed, Terminal
<1>6. /\ NativeAlone(o)'
      /\ Alone' /\ Exists' /\ rde'.exposed /\ ~rule' => Unexposed(o)'
  <2> SUFFICES ASSUME Alone'
               PROVE  NativeAlone(o)' /\ (Exists' /\ rde'.exposed /\ ~rule' => Unexposed(o)')
    BY DEF NativeAlone
  <2>1. Alone /\ (Exists /\ rde.exposed /\ ~rule => Unexposed(o)) /\ faults' = 0
    BY <1>1, <1>2, <1>3, NativeLone DEF Frame, Alone
  <2> QED
    BY <1>1, <1>2, <1>3, <2>1
    DEF NativeAlone, NativeLocal, Unexposed, Copying, Resizes, Kind, Truthful, Exists, Local,
        NativeDeploys, Failed, NativeCreate, NativeDelete, Creates, Unmade
<1>7. UpgradeMove(o)
  <2>1. Failing(o) => Failing(o)'
    BY <1>1, <1>2, <1>3 DEF Failing, Failed, Kind, NativeLocal, Resizes, Terminal
  <2> QED
    BY <1>1, <1>2, <1>3, <2>1, NativeQuiet DEF Upgrading, Worked, NativeDeploys
<1> QED
  BY <1>1, <1>2, <1>3, <1>4, <1>5, <1>6, <1>7, NativeTyped
  DEF NativeSummary, Creates, Kind, Exists, Unmade, NativeDeploys, Truthful

\* A deletion deletes the vApp.
LEMMA NativeDeleteVapp ==
  ASSUME NativeInv, NEW o \in Ops, X!DeleteVapp(o)
  PROVE  NativeSummary(o)
<1>1. PICK p : /\ pc[o] = "deleteVapp" /\ UNCHANGED <<rde, token, rule, faults, req, mem, task>>
               /\ vapp # Absent /\ vapp' = Absent
               /\ X!Goto(o, p) /\ p \in {"deleteRule", "ok"}
  BY DEF X!DeleteVapp
<1>2. /\ NativeLocal(o) /\ NativeCreate(o) /\ NativeDelete(o) /\ NativeAlone(o)
      /\ Kind(o) = "delete"
      /\ req[o].expose \in BOOLEAN /\ req[o] # Absent /\ mem[o] \in Memory
      /\ task[o] \in TaskStatuses
  <2>1. NativeLocal(o) /\ NativeCreate(o) /\ NativeDelete(o) /\ NativeAlone(o)
    BY DEF NativeInv
  <2> QED
    BY <1>1, <2>1, NativeAt, NativeTyped DEF NativeDeploys, Failed, Upgrading
<1>3. /\ Frame(o) /\ X!TypeOK' /\ req'[o] = req[o] /\ mem'[o] = mem[o] /\ task'[o] = task[o]
      /\ pc'[o] = p
  BY <1>1, <1>2, NativeFrame, NativeTyped DEF Typed, Keeps
<1>4. NativeLocal(o)'
  BY <1>1, <1>2, <1>3, NativePaths
  DEF NativeLocal, Copying, Resizes, Kind, Truthful, Local, NativeCreates, NativeUpdates,
      NativeUpgrades, NativeDeletes, NativeInfo, NativeDeploys, Upgrading, Failed, Terminal
<1>5. NativeCreate(o)' /\ NativeDelete(o)'
  BY <1>1, <1>2, <1>3, NativeUnmade
  DEF NativeCreate, NativeDelete, NativeLocal, Creates, Kind, Resizes, Exists, Unmade, Frame,
      NativeDeploys, Failed, Terminal
<1>6. /\ NativeAlone(o)'
      /\ Alone' /\ Exists' /\ rde'.exposed /\ ~rule' => Unexposed(o)'
  <2> SUFFICES ASSUME Alone'
               PROVE  NativeAlone(o)' /\ (Exists' /\ rde'.exposed /\ ~rule' => Unexposed(o)')
    BY DEF NativeAlone
  <2>1. Alone /\ (Exists /\ rde.exposed /\ ~rule => Unexposed(o)) /\ faults' = 0
    BY <1>1, <1>2, <1>3, NativeLone DEF Frame, Alone
  <2> QED
    BY <1>1, <1>2, <1>3, <2>1
    DEF NativeAlone, NativeLocal, Unexposed, Copying, Resizes, Kind, Truthful, Exists, Local,
        NativeDeploys, Failed, NativeCreate, NativeDelete, Creates, Unmade
<1>7. UpgradeMove(o)
  <2>1. Failing(o) => Failing(o)'
    BY <1>1, <1>2, <1>3 DEF Failing, Failed, Kind, NativeLocal, Resizes, Terminal
  <2> QED
    BY <1>1, <1>2, <1>3, <2>1, NativeQuiet DEF Upgrading, Worked, NativeDeploys
<1> QED
  BY <1>1, <1>2, <1>3, <1>4, <1>5, <1>6, <1>7, NativeTyped
  DEF NativeSummary, Creates, Kind, Exists, Unmade, NativeDeploys, Truthful

\* A rolled back create removes its entity.
LEMMA NativeUndo ==
  ASSUME NativeInv, NEW o \in Ops, X!Undo(o)
  PROVE  NativeSummary(o)
<1>1. /\ pc[o] = "undo" /\ UNCHANGED <<vapp, token, rule, req, mem, task>> /\ X!Goto(o, "err")
      /\ rde' \in {rde, Absent} /\ rde' \in Entities \cup {Absent} /\ Truthful(rde')
      /\ faults' \in 0..MaxFaults /\ (faults' = 0 => faults = 0 /\ ~Exists')
  <2>1. X!Remove(o, "err", "err") /\ pc[o] = "undo"
    BY DEF X!Undo
  <2> QED
    BY <2>1, NativeRemoves DEF X!Undo
<1>2. /\ NativeLocal(o) /\ NativeCreate(o) /\ NativeDelete(o) /\ NativeAlone(o)
      /\ Kind(o) = "create"
      /\ req[o].expose \in BOOLEAN /\ req[o] # Absent /\ mem[o] \in Memory
      /\ task[o] \in TaskStatuses
  <2>1. NativeLocal(o) /\ NativeCreate(o) /\ NativeDelete(o) /\ NativeAlone(o)
    BY DEF NativeInv
  <2> QED
    BY <1>1, <2>1, NativeAt, NativeTyped DEF NativeDeploys, Failed, Upgrading
<1>3. /\ Frame(o) /\ X!TypeOK' /\ req'[o] = req[o] /\ mem'[o] = mem[o] /\ task'[o] = task[o]
      /\ pc'[o] = "err"
  BY <1>1, <1>2, NativeFrame, NativeTyped DEF Typed, Keeps
<1>4. NativeLocal(o)'
  BY <1>1, <1>2, <1>3, NativePaths
  DEF NativeLocal, Copying, Resizes, Kind, Truthful, Local, NativeCreates, NativeUpdates,
      NativeUpgrades, NativeDeletes, NativeInfo, NativeDeploys, Upgrading, Failed, Terminal
<1>5. NativeCreate(o)' /\ NativeDelete(o)'
  BY <1>1, <1>2, <1>3, NativeUnmade
  DEF NativeCreate, NativeDelete, NativeLocal, Creates, Kind, Resizes, Exists, Unmade, Frame,
      NativeDeploys, Failed, Terminal
<1>6. /\ NativeAlone(o)'
      /\ Alone' /\ Exists' /\ rde'.exposed /\ ~rule' => Unexposed(o)'
  <2> SUFFICES ASSUME Alone'
               PROVE  NativeAlone(o)' /\ (Exists' /\ rde'.exposed /\ ~rule' => Unexposed(o)')
    BY DEF NativeAlone
  <2>1. Alone /\ (Exists /\ rde.exposed /\ ~rule => Unexposed(o)) /\ faults' = 0
    BY <1>1, <1>2, <1>3, NativeLone DEF Frame, Alone
  <2> QED
    BY <1>1, <1>2, <1>3, <2>1
    DEF NativeAlone, NativeLocal, Unexposed, Copying, Resizes, Kind, Truthful, Exists, Local,
        NativeDeploys, Failed, NativeCreate, NativeDelete, Creates, Unmade
<1>7. UpgradeMove(o)
  <2>1. Failing(o) => Failing(o)'
    BY <1>1, <1>2, <1>3 DEF Failing, Failed, Kind, NativeLocal, Resizes, Terminal
  <2> QED
    BY <1>1, <1>2, <1>3, <2>1, NativeQuiet DEF Upgrading, Worked, NativeDeploys
<1> QED
  BY <1>1, <1>2, <1>3, <1>4, <1>5, <1>6, <1>7, NativeTyped
  DEF NativeSummary, Creates, Kind, Exists, Unmade, NativeDeploys, Truthful

\* The rule is deleted.
LEMMA NativeDeleteRule ==
  ASSUME NativeInv, NEW o \in Ops, X!DeleteRule(o)
  PROVE  NativeSummary(o)
<1>1. PICK p : /\ pc[o] = "deleteRule" /\ UNCHANGED <<rde, vapp, token, req, mem, task>>
               /\ rule' \in BOOLEAN /\ (rule' => rule /\ faults' # 0)
               /\ faults' \in 0..MaxFaults /\ (faults' = 0 => faults = 0)
               /\ X!Goto(o, p) /\ p = (IF Kind(o) = "create" THEN "undo" ELSE "ok")
  <2>1. Typed /\ ((rule' = FALSE /\ UNCHANGED faults) \/ (UNCHANGED rule /\ X!Fault))
    BY NativeTyped DEF X!DeleteRule
  <2>2. CASE rule' = FALSE /\ UNCHANGED faults
    BY <2>1, <2>2 DEF X!DeleteRule, Kind, Typed
  <2>3. CASE UNCHANGED rule /\ X!Fault
    <3>1. faults' \in 0..MaxFaults /\ faults' # 0
      BY <2>1, <2>3, ThreadsAssumption DEF Typed, X!Fault
    <3> QED
      BY <2>1, <2>3, <3>1 DEF X!DeleteRule, Kind, Typed
  <2> QED
    BY <2>1, <2>2, <2>3
<1>2. /\ NativeLocal(o) /\ NativeCreate(o) /\ NativeDelete(o) /\ NativeAlone(o)
      /\ Kind(o) \in {"create", "delete"}
      /\ req[o].expose \in BOOLEAN /\ req[o] # Absent /\ mem[o] \in Memory
      /\ task[o] \in TaskStatuses
  <2>1. NativeLocal(o) /\ NativeCreate(o) /\ NativeDelete(o) /\ NativeAlone(o)
    BY DEF NativeInv
  <2> QED
    BY <1>1, <2>1, NativeAt, NativeTyped DEF NativeDeploys, Failed, Upgrading
<1>3. /\ Frame(o) /\ X!TypeOK' /\ req'[o] = req[o] /\ mem'[o] = mem[o] /\ task'[o] = task[o]
      /\ pc'[o] = p
  BY <1>1, <1>2, NativeFrame, NativeTyped DEF Typed, Keeps
<1>4. NativeLocal(o)'
  BY <1>1, <1>2, <1>3, NativePaths
  DEF NativeLocal, Copying, Resizes, Kind, Truthful, Local, NativeCreates, NativeUpdates,
      NativeUpgrades, NativeDeletes, NativeInfo, NativeDeploys, Upgrading, Failed, Terminal
<1>5. NativeCreate(o)' /\ NativeDelete(o)'
  BY <1>1, <1>2, <1>3, NativeUnmade
  DEF NativeCreate, NativeDelete, NativeLocal, Creates, Kind, Resizes, Exists, Unmade, Frame,
      NativeDeploys, Failed, Terminal
<1>6. /\ NativeAlone(o)'
      /\ Alone' /\ Exists' /\ rde'.exposed /\ ~rule' => Unexposed(o)'
  <2> SUFFICES ASSUME Alone'
               PROVE  NativeAlone(o)' /\ (Exists' /\ rde'.exposed /\ ~rule' => Unexposed(o)')
    BY DEF NativeAlone
  <2>1. Alone /\ (Exists /\ rde.exposed /\ ~rule => Unexposed(o)) /\ faults' = 0
    BY <1>1, <1>2, <1>3, NativeLone DEF Frame, Alone
  <2> QED
    BY <1>1, <1>2, <1>3, <2>1
    DEF NativeAlone, NativeLocal, Unexposed, Copying, Resizes, Kind, Truthful, Exists, Local,
        NativeDeploys, Failed, NativeCreate, NativeDelete, Creates, Unmade
<1>7. UpgradeMove(o)
  <2>1. Failing(o) => Failing(o)'
    BY <1>1, <1>2, <1>3 DEF Failing, Failed, Kind, NativeLocal, Resizes, Terminal
  <2> QED
    BY <1>1, <1>2, <1>3, <2>1, NativeQuiet DEF Upgrading, Worked, NativeDeploys
<1> QED
  BY <1>1, <1>2, <1>3, <1>4, <1>5, <1>6, <1>7, NativeTyped
  DEF NativeSummary, Creates, Kind, Exists, Unmade, NativeDeploys, Truthful

\* The vApp of a create is deleted again.
LEMMA NativeRollback ==
  ASSUME NativeInv, NEW o \in Ops, X!Rollback(o)
  PROVE  NativeSummary(o)
<1>1. PICK p : /\ pc[o] = "rollback" /\ UNCHANGED <<rde, token, rule, req, mem, task>>
               /\ vapp' = Absent \/ (vapp' = vapp /\ faults' # 0)
               /\ faults' \in 0..MaxFaults /\ (faults' = 0 => faults = 0)
               /\ X!Goto(o, p) /\ p = (IF mem[o].exposed THEN "deleteRule" ELSE "undo")
  <2>1. Typed /\ ((vapp' = Absent /\ UNCHANGED faults) \/ (UNCHANGED vapp /\ X!Fault))
    BY NativeTyped DEF X!Rollback
  <2>2. /\ vapp' = Absent \/ (vapp' = vapp /\ faults' # 0)
        /\ faults' \in 0..MaxFaults /\ (faults' = 0 => faults = 0)
    BY <2>1, ThreadsAssumption DEF Typed, X!Fault
  <2> QED
    BY <2>2 DEF X!Rollback
<1>2. /\ NativeLocal(o) /\ NativeCreate(o) /\ NativeDelete(o) /\ NativeAlone(o)
      /\ Kind(o) = "create"
      /\ req[o].expose \in BOOLEAN /\ req[o] # Absent /\ mem[o] \in Memory
      /\ task[o] \in TaskStatuses
  <2>1. NativeLocal(o) /\ NativeCreate(o) /\ NativeDelete(o) /\ NativeAlone(o)
    BY DEF NativeInv
  <2> QED
    BY <1>1, <2>1, NativeAt, NativeTyped DEF NativeDeploys, Failed, Upgrading
<1>3. /\ Frame(o) /\ X!TypeOK' /\ req'[o] = req[o] /\ mem'[o] = mem[o] /\ task'[o] = task[o]
      /\ pc'[o] = p
  BY <1>1, <1>2, NativeFrame, NativeTyped DEF Typed, Keeps
<1>4. NativeLocal(o)'
  BY <1>1, <1>2, <1>3, NativePaths
  DEF NativeLocal, Copying, Resizes, Kind, Truthful, Local, NativeCreates, NativeUpdates,
      NativeUpgrades, NativeDeletes, NativeInfo, NativeDeploys, Upgrading, Failed, Terminal
<1>5. NativeCreate(o)' /\ NativeDelete(o)'
  BY <1>1, <1>2, <1>3, NativeUnmade
  DEF NativeCreate, NativeDelete, NativeLocal, Creates, Kind, Resizes, Exists, Unmade, Frame,
      NativeDeploys, Failed, Terminal
<1>6. /\ NativeAlone(o)'
      /\ Alone' /\ Exists' /\ rde'.exposed /\ ~rule' => Unexposed(o)'
  <2> SUFFICES ASSUME Alone'
               PROVE  NativeAlone(o)' /\ (Exists' /\ rde'.exposed /\ ~rule' => Unexposed(o)')
    BY DEF NativeAlone
  <2>1. Alone /\ (Exists /\ rde.exposed /\ ~rule => Unexposed(o)) /\ faults' = 0
    BY <1>1, <1>2, <1>3, NativeLone DEF Frame, Alone
  <2> QED
    BY <1>1, <1>2, <1>3, <2>1
    DEF NativeAlone, NativeLocal, Unexposed, Copying, Resizes, Kind, Truthful, Exists, Local,
        NativeDeploys, Failed, NativeCreate, NativeDelete, Creates, Unmade
<1>7. UpgradeMove(o)
  <2>1. Failing(o) => Failing(o)'
    BY <1>1, <1>2, <1>3 DEF Failing, Failed, Kind, NativeLocal, Resizes, Terminal
  <2> QED
    BY <1>1, <1>2, <1>3, <2>1, NativeQuiet DEF Upgrading, Worked, NativeDeploys
<1> QED
  BY <1>1, <1>2, <1>3, <1>4, <1>5, <1>6, <1>7, NativeTyped
  DEF NativeSummary, Creates, Kind, Exists, Unmade, NativeDeploys, Truthful

\* The end of an exposure fails.
LEMMA NativeUnexposeRaises ==
  ASSUME NativeInv, NEW o \in Ops, X!UnexposeRaises(o)
  PROVE  NativeSummary(o)
<1>1. /\ pc[o] = "unexpose" /\ UNCHANGED <<rde, vapp, token, req, mem, task>>
      /\ rule' \in BOOLEAN /\ (rule' => rule) /\ (faults' = 0 => rule' = rule)
      /\ faults' \in 0..MaxFaults /\ (faults' = 0 => faults = 0)
      /\ X!Goto(o, "publish")
  <2>1. Typed /\ (UNCHANGED <<rule, faults>> \/ (rule' = FALSE /\ X!Fault))
    BY NativeTyped DEF X!UnexposeRaises
  <2>2. CASE UNCHANGED <<rule, faults>>
    BY <2>1, <2>2 DEF X!UnexposeRaises, Typed
  <2>3. CASE rule' = FALSE /\ X!Fault
    <3>1. faults' \in 0..MaxFaults /\ faults' # 0
      BY <2>1, <2>3, ThreadsAssumption DEF Typed, X!Fault
    <3> QED
      BY <2>1, <2>3, <3>1 DEF X!UnexposeRaises
  <2> QED
    BY <2>1, <2>2, <2>3
<1>2. /\ NativeLocal(o) /\ NativeCreate(o) /\ NativeDelete(o) /\ NativeAlone(o) /\ Resizes(o)
      /\ req[o].expose \in BOOLEAN /\ req[o] # Absent /\ mem[o] \in Memory
      /\ task[o] \in TaskStatuses
  <2>1. NativeLocal(o) /\ NativeCreate(o) /\ NativeDelete(o) /\ NativeAlone(o)
    BY DEF NativeInv
  <2> QED
    BY <1>1, <2>1, NativeAt, NativeTyped DEF NativeDeploys, Failed, Upgrading
<1>3. /\ Frame(o) /\ X!TypeOK' /\ req'[o] = req[o] /\ mem'[o] = mem[o] /\ task'[o] = task[o]
      /\ pc'[o] = "publish"
  BY <1>1, <1>2, NativeFrame, NativeTyped DEF Typed, Keeps
<1>4. NativeLocal(o)'
  BY <1>1, <1>2, <1>3, NativePaths
  DEF NativeLocal, Copying, Resizes, Kind, Truthful, Local, NativeCreates, NativeUpdates,
      NativeUpgrades, NativeDeletes, NativeInfo, NativeDeploys, Upgrading, Failed, Terminal
<1>5. NativeCreate(o)' /\ NativeDelete(o)'
  BY <1>1, <1>2, <1>3, NativeUnmade
  DEF NativeCreate, NativeDelete, NativeLocal, Creates, Kind, Resizes, Exists, Unmade, Frame,
      NativeDeploys, Failed, Terminal
<1>6. /\ NativeAlone(o)'
      /\ Alone' /\ Exists' /\ rde'.exposed /\ ~rule' => Unexposed(o)'
  <2> SUFFICES ASSUME Alone'
               PROVE  NativeAlone(o)' /\ (Exists' /\ rde'.exposed /\ ~rule' => Unexposed(o)')
    BY DEF NativeAlone
  <2>1. Alone /\ (Exists /\ rde.exposed /\ ~rule => Unexposed(o)) /\ faults' = 0
    BY <1>1, <1>2, <1>3, NativeLone DEF Frame, Alone
  <2> QED
    BY <1>1, <1>2, <1>3, <2>1
    DEF NativeAlone, NativeLocal, Unexposed, Copying, Resizes, Kind, Truthful, Exists, Local,
        NativeDeploys, Failed, NativeCreate, NativeDelete, Creates, Unmade
<1>7. UpgradeMove(o)
  <2>1. Failing(o) => Failing(o)'
    BY <1>1, <1>2, <1>3 DEF Failing, Failed, Kind, NativeLocal, Resizes, Terminal
  <2> QED
    BY <1>1, <1>2, <1>3, <2>1, NativeQuiet DEF Upgrading, Worked, NativeDeploys
<1> QED
  BY <1>1, <1>2, <1>3, <1>4, <1>5, <1>6, <1>7, NativeTyped
  DEF NativeSummary, Creates, Kind, Exists, Unmade, NativeDeploys, Truthful

\* The end of an upgrade is recorded.
LEMMA NativeRecordUpgrade ==
  ASSUME NativeInv, NEW o \in Ops, X!RecordUpgrade(o)
  PROVE  NativeSummary(o)
<1>1. PICK p : /\ pc[o] = "recordUpgrade" /\ UNCHANGED <<vapp, token, rule, req, mem, task>>
               /\ X!Goto(o, p) /\ p \in {"ok", "fail"}
               /\ rde' \in Entities \cup {Absent} /\ Truthful(rde') /\ (Exists' <=> Exists)
               /\ rde' = rde \/ (Exists /\ rde'.exposed = mem[o].copy.exposed)
               /\ faults' \in 0..MaxFaults /\ (faults' = 0 => faults = 0)
  <2> DEFINE e == X!With(mem[o].copy, "UPGRADE", "SUCCEEDED")
  <2>1. pc[o] = "recordUpgrade" /\ (X!Put(o, e, "ok") \/ X!PutRaises(o, e, "fail"))
    BY DEF X!RecordUpgrade
  <2>2. mem[o].copy \in Entities /\ Truthful(mem[o].copy)
    BY <2>1, NativeCopies
  <2>3. e \in Entities /\ Truthful(e) /\ e.exposed = mem[o].copy.exposed
    BY <2>2, NativeWith DEF PhaseOps, Statuses
  <2> HIDE DEF e
  <2> QED
    BY <2>1, <2>3, NativeWrites DEF X!RecordUpgrade
<1>2. /\ NativeLocal(o) /\ NativeCreate(o) /\ NativeDelete(o) /\ NativeAlone(o)
      /\ Kind(o) = "upgrade"
      /\ req[o].expose \in BOOLEAN /\ req[o] # Absent /\ mem[o] \in Memory
      /\ task[o] \in TaskStatuses
  <2>1. NativeLocal(o) /\ NativeCreate(o) /\ NativeDelete(o) /\ NativeAlone(o)
    BY DEF NativeInv
  <2> QED
    BY <1>1, <2>1, NativeAt, NativeTyped DEF NativeDeploys, Failed, Upgrading
<1>3. /\ Frame(o) /\ X!TypeOK' /\ req'[o] = req[o] /\ mem'[o] = mem[o] /\ task'[o] = task[o]
      /\ pc'[o] = p
  BY <1>1, <1>2, NativeFrame, NativeTyped DEF Typed, Keeps
<1>4. NativeLocal(o)'
  BY <1>1, <1>2, <1>3, NativePaths
  DEF NativeLocal, Copying, Resizes, Kind, Truthful, Local, NativeCreates, NativeUpdates,
      NativeUpgrades, NativeDeletes, NativeInfo, NativeDeploys, Upgrading, Failed, Terminal
<1>5. NativeCreate(o)' /\ NativeDelete(o)'
  BY <1>1, <1>2, <1>3, NativeUnmade
  DEF NativeCreate, NativeDelete, NativeLocal, Creates, Kind, Resizes, Exists, Unmade, Frame,
      NativeDeploys, Failed, Terminal
<1>6. /\ NativeAlone(o)'
      /\ Alone' /\ Exists' /\ rde'.exposed /\ ~rule' => Unexposed(o)'
  <2> SUFFICES ASSUME Alone'
               PROVE  NativeAlone(o)' /\ (Exists' /\ rde'.exposed /\ ~rule' => Unexposed(o)')
    BY DEF NativeAlone
  <2>1. Alone /\ (Exists /\ rde.exposed /\ ~rule => Unexposed(o)) /\ faults' = 0
    BY <1>1, <1>2, <1>3, NativeLone DEF Frame, Alone
  <2> QED
    BY <1>1, <1>2, <1>3, <2>1
    DEF NativeAlone, NativeLocal, Unexposed, Copying, Resizes, Kind, Truthful, Exists, Local,
        NativeDeploys, Failed, NativeCreate, NativeDelete, Creates, Unmade
<1>7. UpgradeMove(o)
  <2>1. Failing(o) => Failing(o)'
    BY <1>1, <1>2, <1>3 DEF Failing, Failed, Kind, NativeLocal, Resizes, Terminal
  <2> QED
    BY <1>1, <1>2, <1>3, <2>1, NativeQuiet DEF Upgrading, Worked, NativeDeploys
<1> QED
  BY <1>1, <1>2, <1>3, <1>4, <1>5, <1>6, <1>7, NativeTyped
  DEF NativeSummary, Creates, Kind, Exists, Unmade, NativeDeploys, Truthful

\* The address of a create, and its exposure.
LEMMA NativeGetAddress ==
  ASSUME NativeInv, NEW o \in Ops, X!GetAddress(o)
  PROVE  NativeSummary(o)
<1>1. PICK b : /\ b \in BOOLEAN /\ pc[o] = "address"
               /\ UNCHANGED <<rde, vapp, token, faults, req, task>> /\ X!Goto(o, "init")
               /\ rule' = (rule \/ b) /\ rule' \in BOOLEAN /\ ~rule
               /\ mem' = [mem EXCEPT ![o].exposed = b]
  <2>1. PICK b \in {FALSE, req[o].expose} :
             rule' = (rule \/ b) /\ mem' = [mem EXCEPT ![o].exposed = b]
    BY DEF X!GetAddress
  <2>2. pc[o] = "address" /\ NativeLocal(o) /\ NativeCreate(o)
    BY DEF X!GetAddress, NativeInv
  <2>3. req[o].expose \in BOOLEAN /\ ~rule
    BY <2>2, NativeAt DEF NativeCreate, Creates, NativeDeploys
  <2>4. b \in BOOLEAN /\ rule' \in BOOLEAN
    BY <2>1, <2>3, NativeTyped DEF Typed
  <2>5. UNCHANGED <<rde, vapp, token, faults, req, task>> /\ X!Goto(o, "init")
    BY <2>2 DEF X!GetAddress, X!NextCall
  <2> QED
    BY <2>1, <2>2, <2>3, <2>4, <2>5
<1>2. /\ NativeLocal(o) /\ NativeCreate(o) /\ NativeDelete(o) /\ NativeAlone(o)
      /\ Kind(o) = "create"
      /\ req[o].expose \in BOOLEAN /\ req[o] # Absent /\ mem[o] \in Memory
      /\ task[o] \in TaskStatuses
  <2>1. NativeLocal(o) /\ NativeCreate(o) /\ NativeDelete(o) /\ NativeAlone(o)
    BY DEF NativeInv
  <2> QED
    BY <1>1, <2>1, NativeAt, NativeTyped DEF NativeDeploys, Failed, Upgrading
<1>3. PICK m \in Memory : /\ Keeps(o, m)
                          /\ SameBut(m, mem[o], {"exposed"})
                          /\ m.exposed = b
  BY <1>1, NativeFlags
<1>4. /\ Frame(o) /\ X!TypeOK' /\ req'[o] = req[o] /\ mem'[o] = m /\ task'[o] = task[o]
      /\ pc'[o] = "init"
  BY <1>1, <1>2, <1>3, NativeFrame, NativeTyped DEF Typed
<1>5. NativeLocal(o)'
  BY <1>1, <1>2, <1>3, <1>4, NativePaths
  DEF NativeLocal, SameBut, Copying, Resizes, Kind, Truthful, Local, NativeCreates, NativeUpdates,
      NativeUpgrades, NativeDeletes, NativeInfo, NativeDeploys, Upgrading, Failed, Terminal
<1>6. NativeCreate(o)' /\ NativeDelete(o)'
  BY <1>1, <1>2, <1>3, <1>4, NativeUnmade
  DEF NativeCreate, NativeDelete, NativeLocal, SameBut, Creates, Kind, Resizes, Exists, Unmade,
      Frame, NativeDeploys, Failed, Terminal
<1>7. /\ NativeAlone(o)'
      /\ Alone' /\ Exists' /\ rde'.exposed /\ ~rule' => Unexposed(o)'
  <2> SUFFICES ASSUME Alone'
               PROVE  NativeAlone(o)' /\ (Exists' /\ rde'.exposed /\ ~rule' => Unexposed(o)')
    BY DEF NativeAlone
  <2>1. Alone /\ (Exists /\ rde.exposed /\ ~rule => Unexposed(o)) /\ faults' = 0
    BY <1>1, <1>2, <1>3, <1>4, NativeLone DEF Frame, Alone
  <2> QED
    BY <1>1, <1>2, <1>3, <1>4, <2>1
    DEF NativeAlone, NativeLocal, SameBut, Unexposed, Copying, Resizes, Kind, Truthful, Exists,
        Local, NativeDeploys, Failed, NativeCreate, NativeDelete, Creates, Unmade
<1>8. UpgradeMove(o)
  <2>1. Failing(o) => Failing(o)'
    BY <1>1, <1>2, <1>3, <1>4 DEF Failing, Failed, Kind, NativeLocal, Resizes, Terminal
  <2> QED
    BY <1>1, <1>2, <1>3, <1>4, <2>1, NativeQuiet DEF Upgrading, Worked, NativeDeploys
<1> QED
  BY <1>1, <1>2, <1>3, <1>4, <1>5, <1>6, <1>7, <1>8, NativeTyped
  DEF NativeSummary, Creates, Kind, Exists, Unmade, NativeDeploys, Truthful

\* A call of a create raises.
LEMMA NativeCallRaises ==
  ASSUME NativeInv, NEW o \in Ops, X!CallRaises(o)
  PROVE  NativeSummary(o)
<1>1. PICK b, p : /\ b \in BOOLEAN /\ pc[o] \in {"makeVapp"} \cup NativeDeploys
                  /\ UNCHANGED <<rde, token, rule, faults, req, task>>
                  /\ X!Goto(o, p) /\ p = (IF b THEN "rollback" ELSE "fail")
                  /\ mem' = [mem EXCEPT ![o].undo = b]
                  /\ vapp' \in Vapps \cup {Absent}
                  /\ vapp' = vapp \/ Worked(o) \/ (pc[o] = "makeVapp" /\ vapp = Absent /\ vapp' = NewVapp)
  <2>1. PICK e \in X!Raises[pc[o]] :
             /\ mem' = [mem EXCEPT ![o].undo = e \in X!Known /\ req[o].rollback]
             /\ X!Goto(o, IF e \in X!Known /\ req[o].rollback THEN "rollback" ELSE "fail")
             /\ vapp' \in IF pc[o] = "makeVapp"
                            THEN IF vapp = Absent
                              /\ e = "other" THEN {vapp, X!NewVapp} ELSE {vapp}
                            ELSE {vapp, IF vapp = Absent THEN vapp ELSE X!AddNodes(o)}
    BY DEF X!CallRaises
  <2>2. pc[o] \in {"makeVapp"} \cup NativeDeploys /\ NativeLocal(o)
    BY DEF X!CallRaises, X!Raises, NativeDeploys, NativeInv
  <2>3. req[o].workers \in Nat /\ vapp \in Vapps \cup {Absent}
    BY <2>2, NativeAt, NativeTyped DEF NativeDeploys, Typed
  <2>4. vapp # Absent => /\ X!AddNodes(o) \in Vapps
                         /\ X!AddNodes(o).drained = vapp.drained /\ X!AddNodes(o).new = vapp.new
    BY <2>3, NativeVapps DEF X!AddNodes, Vapps
  <2>5. /\ vapp' \in Vapps \cup {Absent}
        /\ vapp' = vapp \/ Worked(o) \/ (pc[o] = "makeVapp" /\ vapp = Absent /\ vapp' = NewVapp)
    BY <2>1, <2>3, <2>4, NativeVapps DEF Worked
  <2>6. UNCHANGED <<rde, token, rule, req, task, faults>>
    BY DEF X!CallRaises
  <2>7. CASE e \in X!Known /\ req[o].rollback
    <3>1. mem' = [mem EXCEPT ![o].undo = TRUE] /\ X!Goto(o, "rollback")
      BY <2>1, <2>7
    <3> QED
      BY <2>2, <2>5, <2>6, <3>1
  <2>8. CASE ~(e \in X!Known /\ req[o].rollback)
    <3>1. mem' = [mem EXCEPT ![o].undo = FALSE] /\ X!Goto(o, "fail")
      BY <2>1, <2>8
    <3> QED
      BY <2>2, <2>5, <2>6, <3>1
  <2> QED
    BY <2>7, <2>8
<1>2. /\ NativeLocal(o) /\ NativeCreate(o) /\ NativeDelete(o) /\ NativeAlone(o)
      /\ Kind(o) = "create"
      /\ req[o].expose \in BOOLEAN /\ req[o] # Absent /\ mem[o] \in Memory
      /\ task[o] \in TaskStatuses
  <2>1. NativeLocal(o) /\ NativeCreate(o) /\ NativeDelete(o) /\ NativeAlone(o)
    BY DEF NativeInv
  <2> QED
    BY <1>1, <2>1, NativeAt, NativeTyped DEF NativeDeploys, Failed, Upgrading
<1>3. PICK m \in Memory : /\ Keeps(o, m)
                          /\ SameBut(m, mem[o], {"undo"})
                          /\ m.undo = b
  BY <1>1, NativeFlags
<1>4. /\ Frame(o) /\ X!TypeOK' /\ req'[o] = req[o] /\ mem'[o] = m /\ task'[o] = task[o]
      /\ pc'[o] = p
  BY <1>1, <1>2, <1>3, NativeFrame, NativeTyped DEF Typed
<1>5. NativeLocal(o)'
  BY <1>1, <1>2, <1>3, <1>4, NativePaths
  DEF NativeLocal, SameBut, Copying, Resizes, Kind, Truthful, Local, NativeCreates, NativeUpdates,
      NativeUpgrades, NativeDeletes, NativeInfo, NativeDeploys, Upgrading, Failed, Terminal
<1>6. NativeCreate(o)' /\ NativeDelete(o)'
  BY <1>1, <1>2, <1>3, <1>4, NativeUnmade
  DEF NativeCreate, NativeDelete, NativeLocal, SameBut, Creates, Kind, Resizes, Exists, Unmade,
      Frame, NativeDeploys, Failed, Terminal
<1>7. /\ NativeAlone(o)'
      /\ Alone' /\ Exists' /\ rde'.exposed /\ ~rule' => Unexposed(o)'
  <2> SUFFICES ASSUME Alone'
               PROVE  NativeAlone(o)' /\ (Exists' /\ rde'.exposed /\ ~rule' => Unexposed(o)')
    BY DEF NativeAlone
  <2>1. Alone /\ (Exists /\ rde.exposed /\ ~rule => Unexposed(o)) /\ faults' = 0
    BY <1>1, <1>2, <1>3, <1>4, NativeLone DEF Frame, Alone
  <2> QED
    BY <1>1, <1>2, <1>3, <1>4, <2>1
    DEF NativeAlone, NativeLocal, SameBut, Unexposed, Copying, Resizes, Kind, Truthful, Exists,
        Local, NativeDeploys, Failed, NativeCreate, NativeDelete, Creates, Unmade
<1>8. UpgradeMove(o)
  <2>1. Failing(o) => Failing(o)'
    BY <1>1, <1>2, <1>3, <1>4 DEF Failing, Failed, Kind, NativeLocal, Resizes, Terminal
  <2> QED
    BY <1>1, <1>2, <1>3, <1>4, <2>1, NativeQuiet DEF Upgrading, Worked, NativeDeploys
<1> QED
  BY <1>1, <1>2, <1>3, <1>4, <1>5, <1>6, <1>7, <1>8, NativeTyped
  DEF NativeSummary, Creates, Kind, Exists, Unmade, NativeDeploys, Truthful

\* An enquiry reads the entity.
LEMMA NativeEnquiry ==
  ASSUME NativeInv, NEW o \in Ops, X!Info(o)
  PROVE  NativeSummary(o)
<1>1. PICK p : /\ pc[o] = "get" /\ Kind(o) = "info"
               /\ UNCHANGED <<rde, vapp, token, rule, req, task>> /\ X!Goto(o, p)
               /\ faults' \in 0..MaxFaults /\ (faults' = 0 => faults = 0)
               /\ (p = "syncInfo" /\ Exists /\ X!Local(o, rde)) \/ (p = "done" /\ UNCHANGED mem)
  BY NativeTyped, NativeCallFails DEF X!Info, Kind, X!state, X!Exists, Exists, Typed
<1>2. /\ NativeLocal(o) /\ NativeCreate(o) /\ NativeDelete(o) /\ NativeAlone(o)
      /\ Kind(o) = "info"
      /\ req[o].expose \in BOOLEAN /\ req[o] # Absent /\ mem[o] \in Memory
      /\ task[o] \in TaskStatuses
  <2>1. NativeLocal(o) /\ NativeCreate(o) /\ NativeDelete(o) /\ NativeAlone(o)
    BY DEF NativeInv
  <2> QED
    BY <1>1, <2>1, NativeAt, NativeTyped DEF NativeDeploys, Failed, Upgrading
<1>3. PICK m \in Memory : /\ Keeps(o, m)
                          /\ SameBut(m, mem[o], {"temp"})
                          /\ (p = "syncInfo" /\ m.temp = rde /\ Exists /\ Truthful(m.temp) /\ m.temp # Absent) \/ (p = "done" /\ m = mem[o])
  <2>1. Exists => rde \in Entities /\ Truthful(rde) /\ rde # Absent
    BY NativeTyped DEF Typed, Exists
  <2>2. CASE p = "syncInfo"
    BY <1>1, <2>1, <2>2, NativeKeeps
  <2>3. CASE p = "done"
    BY <1>1, <1>2, <2>3, NativeKeepsAll
  <2> QED
    BY <1>1, <2>2, <2>3
<1>4. /\ Frame(o) /\ X!TypeOK' /\ req'[o] = req[o] /\ mem'[o] = m /\ task'[o] = task[o]
      /\ pc'[o] = p
  BY <1>1, <1>2, <1>3, NativeFrame, NativeTyped DEF Typed
<1>5. NativeLocal(o)'
  BY <1>1, <1>2, <1>3, <1>4, NativePaths
  DEF NativeLocal, SameBut, Copying, Resizes, Kind, Truthful, Local, NativeCreates, NativeUpdates,
      NativeUpgrades, NativeDeletes, NativeInfo, NativeDeploys, Upgrading, Failed, Terminal
<1>6. NativeCreate(o)' /\ NativeDelete(o)'
  BY <1>1, <1>2, <1>3, <1>4, NativeUnmade
  DEF NativeCreate, NativeDelete, NativeLocal, SameBut, Creates, Kind, Resizes, Exists, Unmade,
      Frame, NativeDeploys, Failed, Terminal
<1>7. /\ NativeAlone(o)'
      /\ Alone' /\ Exists' /\ rde'.exposed /\ ~rule' => Unexposed(o)'
  <2> SUFFICES ASSUME Alone'
               PROVE  NativeAlone(o)' /\ (Exists' /\ rde'.exposed /\ ~rule' => Unexposed(o)')
    BY DEF NativeAlone
  <2>1. Alone /\ (Exists /\ rde.exposed /\ ~rule => Unexposed(o)) /\ faults' = 0
    BY <1>1, <1>2, <1>3, <1>4, NativeLone DEF Frame, Alone
  <2> QED
    BY <1>1, <1>2, <1>3, <1>4, <2>1
    DEF NativeAlone, NativeLocal, SameBut, Unexposed, Copying, Resizes, Kind, Truthful, Exists,
        Local, NativeDeploys, Failed, NativeCreate, NativeDelete, Creates, Unmade
<1>8. UpgradeMove(o)
  <2>1. Failing(o) => Failing(o)'
    BY <1>1, <1>2, <1>3, <1>4 DEF Failing, Failed, Kind, NativeLocal, Resizes, Terminal
  <2> QED
    BY <1>1, <1>2, <1>3, <1>4, <2>1, NativeQuiet DEF Upgrading, Worked, NativeDeploys
<1> QED
  BY <1>1, <1>2, <1>3, <1>4, <1>5, <1>6, <1>7, <1>8, NativeTyped
  DEF NativeSummary, Creates, Kind, Exists, Unmade, NativeDeploys, Truthful

\* _fail_operation reads the entity.
LEMMA NativeFail ==
  ASSUME NativeInv, NEW o \in Ops, X!Fail(o)
  PROVE  NativeSummary(o)
<1>1. PICK p : /\ pc[o] = "fail" /\ UNCHANGED <<rde, vapp, token, rule, req, task>>
               /\ X!Goto(o, p)
               /\ faults' \in 0..MaxFaults /\ (faults' = 0 => faults = 0)
               /\ (p = "failWrite" /\ Exists /\ X!Local(o, X!With(rde, X!PhaseOp(o), "FAILED"))) \/ (p = "sync" /\ UNCHANGED mem)
  BY NativeTyped, NativeCallFails DEF X!Fail, X!state, X!Exists, Exists, Typed, Kind, X!AfterSync
<1>2. /\ NativeLocal(o) /\ NativeCreate(o) /\ NativeDelete(o) /\ NativeAlone(o)
      /\ (Kind(o) \in {"create", "upgrade"} \/ Resizes(o))
      /\ req[o].expose \in BOOLEAN /\ req[o] # Absent /\ mem[o] \in Memory
      /\ task[o] \in TaskStatuses
  <2>1. NativeLocal(o) /\ NativeCreate(o) /\ NativeDelete(o) /\ NativeAlone(o)
    BY DEF NativeInv
  <2> QED
    BY <1>1, <2>1, NativeAt, NativeTyped DEF NativeDeploys, Failed, Upgrading
<1>3. PICK m \in Memory : /\ Keeps(o, m)
                          /\ SameBut(m, mem[o], {"temp"})
                          /\ \/ p = "failWrite" /\ m.temp # Absent /\ Truthful(m.temp)
                                  /\ m.temp.exposed = rde.exposed /\ Exists
                             \/ p = "sync" /\ m = mem[o]
  <2>1. CASE p = "failWrite"
    <3> DEFINE e == X!With(rde, X!PhaseOp(o), "FAILED")
    <3>1. rde \in Entities /\ Truthful(rde) /\ X!PhaseOp(o) \in PhaseOps /\ "FAILED" \in Statuses
      BY <1>1, <2>1, NativeTyped DEF Typed, Exists, X!PhaseOp, PhaseOps, Statuses
    <3>2. e \in Entities /\ Truthful(e) /\ e.exposed = rde.exposed /\ X!Local(o, e) /\ e # Absent
      BY <1>1, <2>1, <3>1, NativeWith, ThreadsAssumption
    <3> HIDE DEF e
    <3> QED
      BY <1>1, <2>1, <3>2, NativeKeeps
  <2>2. CASE p = "sync"
    BY <1>1, <1>2, <2>2, NativeKeepsAll
  <2> QED
    BY <1>1, <2>1, <2>2
<1>4. /\ Frame(o) /\ X!TypeOK' /\ req'[o] = req[o] /\ mem'[o] = m /\ task'[o] = task[o]
      /\ pc'[o] = p
  BY <1>1, <1>2, <1>3, NativeFrame, NativeTyped DEF Typed
<1>5. NativeLocal(o)'
  BY <1>1, <1>2, <1>3, <1>4, NativePaths
  DEF NativeLocal, SameBut, Copying, Resizes, Kind, Truthful, Local, NativeCreates, NativeUpdates,
      NativeUpgrades, NativeDeletes, NativeInfo, NativeDeploys, Upgrading, Failed, Terminal
<1>6. NativeCreate(o)' /\ NativeDelete(o)'
  BY <1>1, <1>2, <1>3, <1>4, NativeUnmade
  DEF NativeCreate, NativeDelete, NativeLocal, SameBut, Creates, Kind, Resizes, Exists, Unmade,
      Frame, NativeDeploys, Failed, Terminal
<1>7. /\ NativeAlone(o)'
      /\ Alone' /\ Exists' /\ rde'.exposed /\ ~rule' => Unexposed(o)'
  <2> SUFFICES ASSUME Alone'
               PROVE  NativeAlone(o)' /\ (Exists' /\ rde'.exposed /\ ~rule' => Unexposed(o)')
    BY DEF NativeAlone
  <2>1. Alone /\ (Exists /\ rde.exposed /\ ~rule => Unexposed(o)) /\ faults' = 0
    BY <1>1, <1>2, <1>3, <1>4, NativeLone DEF Frame, Alone
  <2> QED
    BY <1>1, <1>2, <1>3, <1>4, <2>1
    DEF NativeAlone, NativeLocal, SameBut, Unexposed, Copying, Resizes, Kind, Truthful, Exists,
        Local, NativeDeploys, Failed, NativeCreate, NativeDelete, Creates, Unmade
<1>8. UpgradeMove(o)
  <2>1. Failing(o) => Failing(o)'
    BY <1>1, <1>2, <1>3, <1>4 DEF Failing, Failed, Kind, NativeLocal, Resizes, Terminal
  <2> QED
    BY <1>1, <1>2, <1>3, <1>4, <2>1, NativeQuiet DEF Upgrading, Worked, NativeDeploys
<1> QED
  BY <1>1, <1>2, <1>3, <1>4, <1>5, <1>6, <1>7, <1>8, NativeTyped
  DEF NativeSummary, Creates, Kind, Exists, Unmade, NativeDeploys, Truthful

\* _sync_def_entity reads it again.
LEMMA NativeSyncRead ==
  ASSUME NativeInv, NEW o \in Ops, X!SyncRead(o)
  PROVE  NativeSummary(o)
<1>1. PICK p : /\ pc[o] = "sync" /\ UNCHANGED <<rde, vapp, token, rule, req, task>>
               /\ X!Goto(o, p)
               /\ faults' \in 0..MaxFaults /\ (faults' = 0 => faults = 0)
               /\ \/ p = "syncWrite" /\ Exists /\ X!Local(o, rde)
                  \/ p = (IF Kind(o) = "create" THEN "resolveFailed" ELSE "err") /\ UNCHANGED mem
  BY NativeTyped, NativeCallFails DEF X!SyncRead, X!state, X!Exists, Exists, Typed, Kind,
      X!AfterSync
<1>2. /\ NativeLocal(o) /\ NativeCreate(o) /\ NativeDelete(o) /\ NativeAlone(o)
      /\ (Kind(o) \in {"create", "upgrade"} \/ Resizes(o))
      /\ req[o].expose \in BOOLEAN /\ req[o] # Absent /\ mem[o] \in Memory
      /\ task[o] \in TaskStatuses
  <2>1. NativeLocal(o) /\ NativeCreate(o) /\ NativeDelete(o) /\ NativeAlone(o)
    BY DEF NativeInv
  <2> QED
    BY <1>1, <2>1, NativeAt, NativeTyped DEF NativeDeploys, Failed, Upgrading
<1>3. PICK m \in Memory : /\ Keeps(o, m)
                          /\ SameBut(m, mem[o], {"temp"})
                          /\ \/ p = "syncWrite" /\ m.temp = rde /\ Exists /\ Truthful(m.temp)
                                  /\ m.temp # Absent
                             \/ p = (IF Kind(o) = "create" THEN "resolveFailed" ELSE "err")
                                  /\ m = mem[o]
  <2>1. CASE p = "syncWrite"
    <3>1. rde \in Entities /\ Truthful(rde) /\ rde # Absent
      BY <1>1, <2>1, NativeTyped DEF Typed, Exists
    <3> QED
      BY <1>1, <2>1, <3>1, NativeKeeps
  <2>2. CASE p # "syncWrite"
    BY <1>1, <1>2, <2>2, NativeKeepsAll
  <2> QED
    BY <1>1, <2>1, <2>2
<1>4. /\ Frame(o) /\ X!TypeOK' /\ req'[o] = req[o] /\ mem'[o] = m /\ task'[o] = task[o]
      /\ pc'[o] = p
  BY <1>1, <1>2, <1>3, NativeFrame, NativeTyped DEF Typed
<1>5. NativeLocal(o)'
  BY <1>1, <1>2, <1>3, <1>4, NativePaths
  DEF NativeLocal, SameBut, Copying, Resizes, Kind, Truthful, Local, NativeCreates, NativeUpdates,
      NativeUpgrades, NativeDeletes, NativeInfo, NativeDeploys, Upgrading, Failed, Terminal
<1>6. NativeCreate(o)' /\ NativeDelete(o)'
  BY <1>1, <1>2, <1>3, <1>4, NativeUnmade
  DEF NativeCreate, NativeDelete, NativeLocal, SameBut, Creates, Kind, Resizes, Exists, Unmade,
      Frame, NativeDeploys, Failed, Terminal
<1>7. /\ NativeAlone(o)'
      /\ Alone' /\ Exists' /\ rde'.exposed /\ ~rule' => Unexposed(o)'
  <2> SUFFICES ASSUME Alone'
               PROVE  NativeAlone(o)' /\ (Exists' /\ rde'.exposed /\ ~rule' => Unexposed(o)')
    BY DEF NativeAlone
  <2>1. Alone /\ (Exists /\ rde.exposed /\ ~rule => Unexposed(o)) /\ faults' = 0
    BY <1>1, <1>2, <1>3, <1>4, NativeLone DEF Frame, Alone
  <2> QED
    BY <1>1, <1>2, <1>3, <1>4, <2>1
    DEF NativeAlone, NativeLocal, SameBut, Unexposed, Copying, Resizes, Kind, Truthful, Exists,
        Local, NativeDeploys, Failed, NativeCreate, NativeDelete, Creates, Unmade
<1>8. UpgradeMove(o)
  <2>1. Failing(o) => Failing(o)'
    BY <1>1, <1>2, <1>3, <1>4 DEF Failing, Failed, Kind, NativeLocal, Resizes, Terminal
  <2> QED
    BY <1>1, <1>2, <1>3, <1>4, <2>1, NativeQuiet DEF Upgrading, Worked, NativeDeploys
<1> QED
  BY <1>1, <1>2, <1>3, <1>4, <1>5, <1>6, <1>7, <1>8, NativeTyped
  DEF NativeSummary, Creates, Kind, Exists, Unmade, NativeDeploys, Truthful

\* And stores it with the nodes of the vApp.
LEMMA NativeSyncInfo ==
  ASSUME NativeInv, NEW o \in Ops, X!SyncInfo(o)
  PROVE  NativeSummary(o)
<1>1. /\ pc[o] = "syncInfo" /\ UNCHANGED <<vapp, token, rule, req, task>> /\ X!Goto(o, "done")
      /\ rde' \in Entities \cup {Absent} /\ Truthful(rde') /\ (Exists' <=> Exists)
      /\ rde' = rde \/ (Exists /\ rde'.exposed = mem[o].temp.exposed)
      /\ faults' \in 0..MaxFaults /\ (faults' = 0 => faults = 0)
  <2>1. pc[o] = "syncInfo" /\ X!Sync(o, mem[o].temp, FALSE, "done", "done")
    BY DEF X!SyncInfo
  <2>2. UNCHANGED <<vapp, token, rule, req, task>>
    BY DEF X!SyncInfo
  <2> QED
    BY <2>1, <2>2, NativeSyncs DEF Local
<1>2. /\ NativeLocal(o) /\ NativeCreate(o) /\ NativeDelete(o) /\ NativeAlone(o)
      /\ Kind(o) = "info"
      /\ req[o].expose \in BOOLEAN /\ req[o] # Absent /\ mem[o] \in Memory
      /\ task[o] \in TaskStatuses
  <2>1. NativeLocal(o) /\ NativeCreate(o) /\ NativeDelete(o) /\ NativeAlone(o)
    BY DEF NativeInv
  <2> QED
    BY <1>1, <2>1, NativeAt, NativeTyped DEF NativeDeploys, Failed, Upgrading
<1>3. PICK m \in Memory : /\ Keeps(o, m)
                          /\ SameBut(m, mem[o], {"temp"})
                          /\ m.temp = Absent
  BY NativeKeeps DEF X!SyncInfo
<1>4. /\ Frame(o) /\ X!TypeOK' /\ req'[o] = req[o] /\ mem'[o] = m /\ task'[o] = task[o]
      /\ pc'[o] = "done"
  BY <1>1, <1>2, <1>3, NativeFrame, NativeTyped DEF Typed
<1>5. NativeLocal(o)'
  BY <1>1, <1>2, <1>3, <1>4, NativePaths
  DEF NativeLocal, SameBut, Copying, Resizes, Kind, Truthful, Local, NativeCreates, NativeUpdates,
      NativeUpgrades, NativeDeletes, NativeInfo, NativeDeploys, Upgrading, Failed, Terminal
<1>6. NativeCreate(o)' /\ NativeDelete(o)'
  BY <1>1, <1>2, <1>3, <1>4, NativeUnmade
  DEF NativeCreate, NativeDelete, NativeLocal, SameBut, Creates, Kind, Resizes, Exists, Unmade,
      Frame, NativeDeploys, Failed, Terminal
<1>7. /\ NativeAlone(o)'
      /\ Alone' /\ Exists' /\ rde'.exposed /\ ~rule' => Unexposed(o)'
  <2> SUFFICES ASSUME Alone'
               PROVE  NativeAlone(o)' /\ (Exists' /\ rde'.exposed /\ ~rule' => Unexposed(o)')
    BY DEF NativeAlone
  <2>1. Alone /\ (Exists /\ rde.exposed /\ ~rule => Unexposed(o)) /\ faults' = 0
    BY <1>1, <1>2, <1>3, <1>4, NativeLone DEF Frame, Alone
  <2> QED
    BY <1>1, <1>2, <1>3, <1>4, <2>1
    DEF NativeAlone, NativeLocal, SameBut, Unexposed, Copying, Resizes, Kind, Truthful, Exists,
        Local, NativeDeploys, Failed, NativeCreate, NativeDelete, Creates, Unmade
<1>8. UpgradeMove(o)
  <2>1. Failing(o) => Failing(o)'
    BY <1>1, <1>2, <1>3, <1>4 DEF Failing, Failed, Kind, NativeLocal, Resizes, Terminal
  <2> QED
    BY <1>1, <1>2, <1>3, <1>4, <2>1, NativeQuiet DEF Upgrading, Worked, NativeDeploys
<1> QED
  BY <1>1, <1>2, <1>3, <1>4, <1>5, <1>6, <1>7, <1>8, NativeTyped
  DEF NativeSummary, Creates, Kind, Exists, Unmade, NativeDeploys, Truthful

\* _sync_def_entity of a request that failed.
LEMMA NativeSyncWrite ==
  ASSUME NativeInv, NEW o \in Ops, X!SyncWrite(o)
  PROVE  NativeSummary(o)
<1>1. PICK p : /\ pc[o] = "syncWrite" /\ UNCHANGED <<vapp, token, rule, req, task>>
               /\ X!Goto(o, p)
               /\ p = (IF Kind(o) = "create" THEN "resolveFailed" ELSE "err")
               /\ rde' \in Entities \cup {Absent} /\ Truthful(rde') /\ (Exists' <=> Exists)
               /\ rde' = rde \/ (Exists /\ rde'.exposed = mem[o].temp.exposed)
               /\ faults' \in 0..MaxFaults /\ (faults' = 0 => faults = 0)
  <2>1. pc[o] = "syncWrite"
          /\ X!Sync(o, mem[o].temp, vapp # Absent, X!AfterSync(o), X!AfterSync(o))
    BY DEF X!SyncWrite
  <2>2. UNCHANGED <<vapp, token, rule, req, task>>
    BY DEF X!SyncWrite
  <2>3. X!AfterSync(o) = IF Kind(o) = "create" THEN "resolveFailed" ELSE "err"
    BY DEF X!AfterSync, Kind
  <2> QED
    BY <2>1, <2>2, <2>3, NativeSyncs DEF Local
<1>2. /\ NativeLocal(o) /\ NativeCreate(o) /\ NativeDelete(o) /\ NativeAlone(o)
      /\ (Kind(o) \in {"create", "upgrade"} \/ Resizes(o))
      /\ req[o].expose \in BOOLEAN /\ req[o] # Absent /\ mem[o] \in Memory
      /\ task[o] \in TaskStatuses
  <2>1. NativeLocal(o) /\ NativeCreate(o) /\ NativeDelete(o) /\ NativeAlone(o)
    BY DEF NativeInv
  <2> QED
    BY <1>1, <2>1, NativeAt, NativeTyped DEF NativeDeploys, Failed, Upgrading
<1>3. PICK m \in Memory : /\ Keeps(o, m)
                          /\ SameBut(m, mem[o], {"temp"})
                          /\ m.temp = Absent
  BY NativeKeeps DEF X!SyncWrite
<1>4. /\ Frame(o) /\ X!TypeOK' /\ req'[o] = req[o] /\ mem'[o] = m /\ task'[o] = task[o]
      /\ pc'[o] = p
  BY <1>1, <1>2, <1>3, NativeFrame, NativeTyped DEF Typed
<1>5. NativeLocal(o)'
  BY <1>1, <1>2, <1>3, <1>4, NativePaths
  DEF NativeLocal, SameBut, Copying, Resizes, Kind, Truthful, Local, NativeCreates, NativeUpdates,
      NativeUpgrades, NativeDeletes, NativeInfo, NativeDeploys, Upgrading, Failed, Terminal
<1>6. NativeCreate(o)' /\ NativeDelete(o)'
  BY <1>1, <1>2, <1>3, <1>4, NativeUnmade
  DEF NativeCreate, NativeDelete, NativeLocal, SameBut, Creates, Kind, Resizes, Exists, Unmade,
      Frame, NativeDeploys, Failed, Terminal
<1>7. /\ NativeAlone(o)'
      /\ Alone' /\ Exists' /\ rde'.exposed /\ ~rule' => Unexposed(o)'
  <2> SUFFICES ASSUME Alone'
               PROVE  NativeAlone(o)' /\ (Exists' /\ rde'.exposed /\ ~rule' => Unexposed(o)')
    BY DEF NativeAlone
  <2>1. Alone /\ (Exists /\ rde.exposed /\ ~rule => Unexposed(o)) /\ faults' = 0
    BY <1>1, <1>2, <1>3, <1>4, NativeLone DEF Frame, Alone
  <2> QED
    BY <1>1, <1>2, <1>3, <1>4, <2>1
    DEF NativeAlone, NativeLocal, SameBut, Unexposed, Copying, Resizes, Kind, Truthful, Exists,
        Local, NativeDeploys, Failed, NativeCreate, NativeDelete, Creates, Unmade
<1>8. UpgradeMove(o)
  <2>1. Failing(o) => Failing(o)'
    BY <1>1, <1>2, <1>3, <1>4 DEF Failing, Failed, Kind, NativeLocal, Resizes, Terminal
  <2> QED
    BY <1>1, <1>2, <1>3, <1>4, <2>1, NativeQuiet DEF Upgrading, Worked, NativeDeploys
<1> QED
  BY <1>1, <1>2, <1>3, <1>4, <1>5, <1>6, <1>7, <1>8, NativeTyped
  DEF NativeSummary, Creates, Kind, Exists, Unmade, NativeDeploys, Truthful

\* _fail_operation writes what it read.
LEMMA NativeFailWrite ==
  ASSUME NativeInv, NEW o \in Ops, X!FailWrite(o)
  PROVE  NativeSummary(o)
<1>1. /\ pc[o] = "failWrite" /\ UNCHANGED <<vapp, token, rule, req, task>> /\ X!Goto(o, "sync")
      /\ rde' \in Entities \cup {Absent} /\ Truthful(rde') /\ (Exists' <=> Exists)
      /\ rde' = rde \/ (Exists /\ rde'.exposed = mem[o].temp.exposed)
      /\ faults' \in 0..MaxFaults /\ (faults' = 0 => faults = 0)
  <2>1. /\ pc[o] = "failWrite" /\ UNCHANGED <<vapp, token, rule, req, task>>
        /\ X!Put(o, mem[o].temp, "sync") \/ X!PutRaises(o, mem[o].temp, "sync")
    BY DEF X!FailWrite, X!PutOrNot
  <2>2. mem[o].temp \in Entities /\ Truthful(mem[o].temp)
    BY <2>1, NativeCopies DEF Local
  <2> QED
    BY <2>1, <2>2, NativeWrites
<1>2. /\ NativeLocal(o) /\ NativeCreate(o) /\ NativeDelete(o) /\ NativeAlone(o)
      /\ (Kind(o) \in {"create", "upgrade"} \/ Resizes(o))
      /\ req[o].expose \in BOOLEAN /\ req[o] # Absent /\ mem[o] \in Memory
      /\ task[o] \in TaskStatuses
  <2>1. NativeLocal(o) /\ NativeCreate(o) /\ NativeDelete(o) /\ NativeAlone(o)
    BY DEF NativeInv
  <2> QED
    BY <1>1, <2>1, NativeAt, NativeTyped DEF NativeDeploys, Failed, Upgrading
<1>3. PICK m \in Memory : /\ Keeps(o, m)
                          /\ SameBut(m, mem[o], {"temp"})
                          /\ m.temp = Absent
  BY NativeKeeps DEF X!FailWrite
<1>4. /\ Frame(o) /\ X!TypeOK' /\ req'[o] = req[o] /\ mem'[o] = m /\ task'[o] = task[o]
      /\ pc'[o] = "sync"
  BY <1>1, <1>2, <1>3, NativeFrame, NativeTyped DEF Typed
<1>5. NativeLocal(o)'
  BY <1>1, <1>2, <1>3, <1>4, NativePaths
  DEF NativeLocal, SameBut, Copying, Resizes, Kind, Truthful, Local, NativeCreates, NativeUpdates,
      NativeUpgrades, NativeDeletes, NativeInfo, NativeDeploys, Upgrading, Failed, Terminal
<1>6. NativeCreate(o)' /\ NativeDelete(o)'
  BY <1>1, <1>2, <1>3, <1>4, NativeUnmade
  DEF NativeCreate, NativeDelete, NativeLocal, SameBut, Creates, Kind, Resizes, Exists, Unmade,
      Frame, NativeDeploys, Failed, Terminal
<1>7. /\ NativeAlone(o)'
      /\ Alone' /\ Exists' /\ rde'.exposed /\ ~rule' => Unexposed(o)'
  <2> SUFFICES ASSUME Alone'
               PROVE  NativeAlone(o)' /\ (Exists' /\ rde'.exposed /\ ~rule' => Unexposed(o)')
    BY DEF NativeAlone
  <2>1. Alone /\ (Exists /\ rde.exposed /\ ~rule => Unexposed(o)) /\ faults' = 0
    BY <1>1, <1>2, <1>3, <1>4, NativeLone DEF Frame, Alone
  <2> QED
    BY <1>1, <1>2, <1>3, <1>4, <2>1
    DEF NativeAlone, NativeLocal, SameBut, Unexposed, Copying, Resizes, Kind, Truthful, Exists,
        Local, NativeDeploys, Failed, NativeCreate, NativeDelete, Creates, Unmade
<1>8. UpgradeMove(o)
  <2>1. Failing(o) => Failing(o)'
    BY <1>1, <1>2, <1>3, <1>4 DEF Failing, Failed, Kind, NativeLocal, Resizes, Terminal
  <2> QED
    BY <1>1, <1>2, <1>3, <1>4, <2>1, NativeQuiet DEF Upgrading, Worked, NativeDeploys
<1> QED
  BY <1>1, <1>2, <1>3, <1>4, <1>5, <1>6, <1>7, <1>8, NativeTyped
  DEF NativeSummary, Creates, Kind, Exists, Unmade, NativeDeploys, Truthful

\* The other handlers read the entity.
LEMMA NativeCheckEntity ==
  ASSUME NativeInv, NEW o \in Ops, X!CheckEntity(o)
  PROVE  NativeSummary(o)
<1>1. PICK p : /\ pc[o] = "get" /\ Kind(o) \notin {"create", "info"}
               /\ UNCHANGED <<rde, vapp, token, rule, req>>
               /\ X!Goto(o, p)
               /\ faults' \in 0..MaxFaults /\ (faults' = 0 => faults = 0)
               /\ \/ p = "set" /\ Exists /\ X!Keep(o, rde) /\ X!SetTask(o, "RUNNING")
                  \/ p = "done" /\ UNCHANGED <<mem, task>>
  <2>1. pc[o] = "get" /\ Kind(o) \notin {"create", "info"}
          /\ UNCHANGED <<rde, vapp, token, rule, req>>
    BY DEF X!CheckEntity, Kind, X!state
  <2>2. CASE X!CallFails
    BY <2>1, <2>2, NativeCallFails DEF X!CheckEntity, X!Exists, Exists
  <2>3. CASE UNCHANGED faults
    BY <2>1, <2>3, NativeTyped DEF X!CheckEntity, X!Exists, Exists, Typed
  <2> QED
    BY <2>2, <2>3 DEF X!CheckEntity
<1>2. /\ NativeLocal(o) /\ NativeCreate(o) /\ NativeDelete(o) /\ NativeAlone(o)
      /\ Kind(o) \in X!Kinds \ {"create", "info"}
      /\ req[o].expose \in BOOLEAN /\ req[o] # Absent /\ mem[o] \in Memory
      /\ task[o] \in TaskStatuses
  <2>1. NativeLocal(o) /\ NativeCreate(o) /\ NativeDelete(o) /\ NativeAlone(o)
    BY DEF NativeInv
  <2> QED
    BY <1>1, <2>1, NativeAt, NativeTyped DEF NativeDeploys, Failed, Upgrading
<1>3. PICK m \in Memory : /\ Keeps(o, m)
                          /\ SameBut(m, mem[o], {"copy"})
                          /\ \/ p = "set" /\ m.copy = rde /\ m.copy # Absent /\ Truthful(m.copy)
                             \/ p = "done" /\ m = mem[o]
  <2>1. CASE p = "set"
    <3>1. rde \in Entities /\ rde # Absent /\ Truthful(rde)
      BY <1>1, <2>1, NativeTyped DEF Typed, Exists
    <3> QED
      BY <1>1, <2>1, <3>1, NativeKeeps
  <2>2. CASE p = "done"
    BY <1>1, <1>2, <2>2, NativeKeepsAll
  <2> QED
    BY <1>1, <2>1, <2>2
<1>4. PICK t \in TaskStatuses : /\ (UNCHANGED task /\ t = task[o]) \/ task' = [task EXCEPT ![o] = t]
                                /\ t = (IF p = "set" THEN "RUNNING" ELSE task[o])
  <2>1. "RUNNING" \in TaskStatuses
    BY DEF TaskStatuses
  <2> QED
    BY <1>1, <1>2, <2>1, NativeTasks DEF NativeLocal, Terminal
<1>5. /\ Frame(o) /\ X!TypeOK' /\ req'[o] = req[o] /\ mem'[o] = m /\ task'[o] = t
      /\ pc'[o] = p
  BY <1>1, <1>2, <1>3, <1>4, NativeFrame, NativeTyped DEF Typed
<1>6. NativeLocal(o)'
  BY <1>1, <1>2, <1>3, <1>4, <1>5, NativePaths
  DEF NativeLocal, SameBut, Copying, Resizes, Kind, Truthful, Local, NativeCreates,
      NativeUpdates, NativeUpgrades, NativeDeletes, NativeInfo, NativeDeploys, Upgrading, Failed,
      Terminal, X!Kinds
<1>7. NativeCreate(o)' /\ NativeDelete(o)'
  BY <1>1, <1>2, <1>3, <1>4, <1>5, NativeUnmade
  DEF NativeCreate, NativeDelete, NativeLocal, SameBut, Creates, Kind, Resizes, Exists, Unmade,
      Frame, NativeDeploys, Failed, Terminal, X!Kinds
<1>8. /\ NativeAlone(o)'
      /\ Alone' /\ Exists' /\ rde'.exposed /\ ~rule' => Unexposed(o)'
  <2> SUFFICES ASSUME Alone'
               PROVE  NativeAlone(o)' /\ (Exists' /\ rde'.exposed /\ ~rule' => Unexposed(o)')
    BY DEF NativeAlone
  <2>1. Alone /\ (Exists /\ rde.exposed /\ ~rule => Unexposed(o)) /\ faults' = 0
    BY <1>1, <1>2, <1>3, <1>4, <1>5, NativeLone DEF Frame, Alone
  <2> QED
    BY <1>1, <1>2, <1>3, <1>4, <1>5, <2>1
    DEF NativeAlone, NativeLocal, SameBut, Unexposed, Copying, Resizes, Kind, Truthful, Exists,
        Local, NativeDeploys, Failed, NativeCreate, NativeDelete, Creates, Unmade, X!Kinds
<1>9. UpgradeMove(o)
  <2>1. Failing(o) => Failing(o)'
    BY <1>1, <1>2, <1>3, <1>4, <1>5 DEF Failing, Failed, Kind, NativeLocal, Resizes, Terminal
  <2> QED
    BY <1>1, <1>2, <1>3, <1>4, <1>5, <2>1, NativeQuiet DEF Upgrading, Worked, NativeDeploys
<1> QED
  BY <1>1, <1>2, <1>3, <1>4, <1>5, <1>6, <1>7, <1>8, <1>9, NativeTyped
  DEF NativeSummary, Creates, Kind, Exists, Unmade, NativeDeploys, Truthful

\* The monitor reads the entity again.
LEMMA NativeMonitor ==
  ASSUME NativeInv, NEW o \in Ops, X!Monitor(o)
  PROVE  NativeSummary(o)
<1>1. PICK p : /\ pc[o] = "monitor" /\ UNCHANGED <<rde, vapp, token, rule, faults, req, task>>
               /\ X!Goto(o, p) /\ p \in {"del", "add", "unexpose"}
               /\ X!Keep(o, rde) /\ rde \in Entities /\ rde # Absent
  <2>1. pc[o] = "monitor" /\ rde \in Entities /\ rde # Absent /\ NativeLocal(o)
    BY NativeTyped DEF X!Monitor, X!Exists, Exists, Typed, NativeInv
  <2>2. /\ req[o].workers \in Nat /\ rde.workers \in Nat
        /\ Kind(o) = "deleteNodes" => req[o].workers = 0
    BY <2>1, NativeAt DEF Entities, X!Requests, Kind
  <2> QED
    BY <2>1, <2>2 DEF X!Monitor, X!state, Kind
<1>2. /\ NativeLocal(o) /\ NativeCreate(o) /\ NativeDelete(o) /\ NativeAlone(o) /\ Resizes(o)
      /\ req[o].expose \in BOOLEAN /\ req[o] # Absent /\ mem[o] \in Memory
      /\ task[o] \in TaskStatuses
  <2>1. NativeLocal(o) /\ NativeCreate(o) /\ NativeDelete(o) /\ NativeAlone(o)
    BY DEF NativeInv
  <2> QED
    BY <1>1, <2>1, NativeAt, NativeTyped DEF NativeDeploys, Failed, Upgrading
<1>3. PICK m \in Memory : /\ Keeps(o, m)
                          /\ SameBut(m, mem[o], {"copy"})
                          /\ m.copy = rde /\ Truthful(m.copy)
  BY <1>1, NativeTyped, NativeKeeps
<1>4. /\ Frame(o) /\ X!TypeOK' /\ req'[o] = req[o] /\ mem'[o] = m /\ task'[o] = task[o]
      /\ pc'[o] = p
  BY <1>1, <1>2, <1>3, NativeFrame, NativeTyped DEF Typed
<1>5. NativeLocal(o)'
  BY <1>1, <1>2, <1>3, <1>4, NativePaths
  DEF NativeLocal, SameBut, Copying, Resizes, Kind, Truthful, Local, NativeCreates, NativeUpdates,
      NativeUpgrades, NativeDeletes, NativeInfo, NativeDeploys, Upgrading, Failed, Terminal
<1>6. NativeCreate(o)' /\ NativeDelete(o)'
  BY <1>1, <1>2, <1>3, <1>4, NativeUnmade
  DEF NativeCreate, NativeDelete, NativeLocal, SameBut, Creates, Kind, Resizes, Exists, Unmade,
      Frame, NativeDeploys, Failed, Terminal
<1>7. /\ NativeAlone(o)'
      /\ Alone' /\ Exists' /\ rde'.exposed /\ ~rule' => Unexposed(o)'
  <2> SUFFICES ASSUME Alone'
               PROVE  NativeAlone(o)' /\ (Exists' /\ rde'.exposed /\ ~rule' => Unexposed(o)')
    BY DEF NativeAlone
  <2>1. Alone /\ (Exists /\ rde.exposed /\ ~rule => Unexposed(o)) /\ faults' = 0
    BY <1>1, <1>2, <1>3, <1>4, NativeLone DEF Frame, Alone
  <2> QED
    BY <1>1, <1>2, <1>3, <1>4, <2>1
    DEF NativeAlone, NativeLocal, SameBut, Unexposed, Copying, Resizes, Kind, Truthful, Exists,
        Local, NativeDeploys, Failed, NativeCreate, NativeDelete, Creates, Unmade
<1>8. UpgradeMove(o)
  <2>1. Failing(o) => Failing(o)'
    BY <1>1, <1>2, <1>3, <1>4 DEF Failing, Failed, Kind, NativeLocal, Resizes, Terminal
  <2> QED
    BY <1>1, <1>2, <1>3, <1>4, <2>1, NativeQuiet DEF Upgrading, Worked, NativeDeploys
<1> QED
  BY <1>1, <1>2, <1>3, <1>4, <1>5, <1>6, <1>7, <1>8, NativeTyped
  DEF NativeSummary, Creates, Kind, Exists, Unmade, NativeDeploys, Truthful

\* New workers fail, and some may stay.
LEMMA NativeAddRaises ==
  ASSUME NativeInv, NEW o \in Ops, X!AddRaises(o)
  PROVE  NativeSummary(o)
<1>1. PICK p : /\ pc[o] = "add" /\ UNCHANGED <<rde, token, rule, faults, req, task>>
               /\ X!Goto(o, p)
               /\ \/ p = "fail" /\ mem' = [mem EXCEPT ![o].child = TRUE]
                  \/ p \in {"unexpose", "publish"} /\ UNCHANGED mem
               /\ vapp' \in Vapps \cup {Absent} /\ (vapp' = vapp \/ Worked(o))
  <2>1. pc[o] = "add" /\ (vapp' = vapp \/ (vapp # Absent /\ vapp' = X!MoreWorkers(1)))
    BY DEF X!AddRaises
  <2>2. vapp \in Vapps \cup {Absent}
    BY NativeTyped DEF Typed
  <2>3. vapp' \in Vapps \cup {Absent} /\ (vapp' = vapp \/ Worked(o))
    BY <2>1, <2>2, NativeVapps DEF Worked, Vapps
  <2> QED
    BY <2>1, <2>3 DEF X!AddRaises, X!AfterChild
<1>2. /\ NativeLocal(o) /\ NativeCreate(o) /\ NativeDelete(o) /\ NativeAlone(o) /\ Resizes(o)
      /\ req[o].expose \in BOOLEAN /\ req[o] # Absent /\ mem[o] \in Memory
      /\ task[o] \in TaskStatuses
  <2>1. NativeLocal(o) /\ NativeCreate(o) /\ NativeDelete(o) /\ NativeAlone(o)
    BY DEF NativeInv
  <2> QED
    BY <1>1, <2>1, NativeAt, NativeTyped DEF NativeDeploys, Failed, Upgrading
<1>3. PICK m \in Memory : /\ Keeps(o, m)
                          /\ SameBut(m, mem[o], {"child"})
                          /\ \/ p = "fail" /\ m.child
                             \/ p \in {"unexpose", "publish"} /\ m = mem[o]
  <2>1. CASE p = "fail"
    BY <1>1, <2>1, NativeFlags
  <2>2. CASE p # "fail"
    BY <1>1, <1>2, <2>2, NativeKeepsAll
  <2> QED
    BY <1>1, <2>1, <2>2
<1>4. /\ Frame(o) /\ X!TypeOK' /\ req'[o] = req[o] /\ mem'[o] = m /\ task'[o] = task[o]
      /\ pc'[o] = p
  BY <1>1, <1>2, <1>3, NativeFrame, NativeTyped DEF Typed
<1>5. NativeLocal(o)'
  BY <1>1, <1>2, <1>3, <1>4, NativePaths
  DEF NativeLocal, SameBut, Copying, Resizes, Kind, Truthful, Local, NativeCreates, NativeUpdates,
      NativeUpgrades, NativeDeletes, NativeInfo, NativeDeploys, Upgrading, Failed, Terminal
<1>6. NativeCreate(o)' /\ NativeDelete(o)'
  BY <1>1, <1>2, <1>3, <1>4, NativeUnmade
  DEF NativeCreate, NativeDelete, NativeLocal, SameBut, Creates, Kind, Resizes, Exists, Unmade,
      Frame, NativeDeploys, Failed, Terminal
<1>7. /\ NativeAlone(o)'
      /\ Alone' /\ Exists' /\ rde'.exposed /\ ~rule' => Unexposed(o)'
  <2> SUFFICES ASSUME Alone'
               PROVE  NativeAlone(o)' /\ (Exists' /\ rde'.exposed /\ ~rule' => Unexposed(o)')
    BY DEF NativeAlone
  <2>1. Alone /\ (Exists /\ rde.exposed /\ ~rule => Unexposed(o)) /\ faults' = 0
    BY <1>1, <1>2, <1>3, <1>4, NativeLone DEF Frame, Alone
  <2> QED
    BY <1>1, <1>2, <1>3, <1>4, <2>1
    DEF NativeAlone, NativeLocal, SameBut, Unexposed, Copying, Resizes, Kind, Truthful, Exists,
        Local, NativeDeploys, Failed, NativeCreate, NativeDelete, Creates, Unmade
<1>8. UpgradeMove(o)
  <2>1. Failing(o) => Failing(o)'
    BY <1>1, <1>2, <1>3, <1>4 DEF Failing, Failed, Kind, NativeLocal, Resizes, Terminal
  <2> QED
    BY <1>1, <1>2, <1>3, <1>4, <2>1, NativeQuiet DEF Upgrading, Worked, NativeDeploys
<1> QED
  BY <1>1, <1>2, <1>3, <1>4, <1>5, <1>6, <1>7, <1>8, NativeTyped
  DEF NativeSummary, Creates, Kind, Exists, Unmade, NativeDeploys, Truthful

\* Workers cannot be deleted.
LEMMA NativeDelRaises ==
  ASSUME NativeInv, NEW o \in Ops, X!DelRaises(o)
  PROVE  NativeSummary(o)
<1>1. PICK p : /\ pc[o] = "del" /\ UNCHANGED <<rde, vapp, token, rule, req, task>>
               /\ X!Goto(o, p)
               /\ \/ p = "fail" /\ mem' = [mem EXCEPT ![o].child = TRUE]
                  \/ p \in {"unexpose", "publish"} /\ UNCHANGED mem
               /\ faults' \in 0..MaxFaults /\ (faults' = 0 => faults = 0)
  BY NativeTyped, NativeCallFails DEF X!DelRaises, X!AfterChild, X!state, Typed
<1>2. /\ NativeLocal(o) /\ NativeCreate(o) /\ NativeDelete(o) /\ NativeAlone(o) /\ Resizes(o)
      /\ req[o].expose \in BOOLEAN /\ req[o] # Absent /\ mem[o] \in Memory
      /\ task[o] \in TaskStatuses
  <2>1. NativeLocal(o) /\ NativeCreate(o) /\ NativeDelete(o) /\ NativeAlone(o)
    BY DEF NativeInv
  <2> QED
    BY <1>1, <2>1, NativeAt, NativeTyped DEF NativeDeploys, Failed, Upgrading
<1>3. PICK m \in Memory : /\ Keeps(o, m)
                          /\ SameBut(m, mem[o], {"child"})
                          /\ \/ p = "fail" /\ m.child
                             \/ p \in {"unexpose", "publish"} /\ m = mem[o]
  <2>1. CASE p = "fail"
    BY <1>1, <2>1, NativeFlags
  <2>2. CASE p # "fail"
    BY <1>1, <1>2, <2>2, NativeKeepsAll
  <2> QED
    BY <1>1, <2>1, <2>2
<1>4. /\ Frame(o) /\ X!TypeOK' /\ req'[o] = req[o] /\ mem'[o] = m /\ task'[o] = task[o]
      /\ pc'[o] = p
  BY <1>1, <1>2, <1>3, NativeFrame, NativeTyped DEF Typed
<1>5. NativeLocal(o)'
  BY <1>1, <1>2, <1>3, <1>4, NativePaths
  DEF NativeLocal, SameBut, Copying, Resizes, Kind, Truthful, Local, NativeCreates, NativeUpdates,
      NativeUpgrades, NativeDeletes, NativeInfo, NativeDeploys, Upgrading, Failed, Terminal
<1>6. NativeCreate(o)' /\ NativeDelete(o)'
  BY <1>1, <1>2, <1>3, <1>4, NativeUnmade
  DEF NativeCreate, NativeDelete, NativeLocal, SameBut, Creates, Kind, Resizes, Exists, Unmade,
      Frame, NativeDeploys, Failed, Terminal
<1>7. /\ NativeAlone(o)'
      /\ Alone' /\ Exists' /\ rde'.exposed /\ ~rule' => Unexposed(o)'
  <2> SUFFICES ASSUME Alone'
               PROVE  NativeAlone(o)' /\ (Exists' /\ rde'.exposed /\ ~rule' => Unexposed(o)')
    BY DEF NativeAlone
  <2>1. Alone /\ (Exists /\ rde.exposed /\ ~rule => Unexposed(o)) /\ faults' = 0
    BY <1>1, <1>2, <1>3, <1>4, NativeLone DEF Frame, Alone
  <2> QED
    BY <1>1, <1>2, <1>3, <1>4, <2>1
    DEF NativeAlone, NativeLocal, SameBut, Unexposed, Copying, Resizes, Kind, Truthful, Exists,
        Local, NativeDeploys, Failed, NativeCreate, NativeDelete, Creates, Unmade
<1>8. UpgradeMove(o)
  <2>1. Failing(o) => Failing(o)'
    BY <1>1, <1>2, <1>3, <1>4 DEF Failing, Failed, Kind, NativeLocal, Resizes, Terminal
  <2> QED
    BY <1>1, <1>2, <1>3, <1>4, <2>1, NativeQuiet DEF Upgrading, Worked, NativeDeploys
<1> QED
  BY <1>1, <1>2, <1>3, <1>4, <1>5, <1>6, <1>7, <1>8, NativeTyped
  DEF NativeSummary, Creates, Kind, Exists, Unmade, NativeDeploys, Truthful

\* The end of an exposure.
LEMMA NativeUnexpose ==
  ASSUME NativeInv, NEW o \in Ops, X!Unexpose(o)
  PROVE  NativeSummary(o)
<1>1. /\ pc[o] = "unexpose" /\ UNCHANGED <<rde, vapp, token, faults, req, task>>
      /\ X!Goto(o, "publish")
      /\ rule' \in BOOLEAN /\ (rule' <=> rule /\ ~(mem[o].copy.exposed /\ ~req[o].expose))
      /\ mem[o].copy \in Entities /\ Truthful(mem[o].copy) /\ mem[o].copy # Absent
  <2>1. mem[o].copy \in Entities /\ Truthful(mem[o].copy) /\ rule \in BOOLEAN
    BY NativeCopies, NativeTyped DEF X!Unexpose, Typed
  <2>2. rule' = (rule /\ ~(mem[o].copy.exposed /\ ~req[o].expose))
    BY DEF X!Unexpose
  <2>3. rule' \in BOOLEAN /\ (rule' <=> rule /\ ~(mem[o].copy.exposed /\ ~req[o].expose))
    BY <2>1, <2>2
  <2>4. mem[o].copy # Absent
    BY <2>1, ThreadsAssumption
  <2> QED
    BY <2>1, <2>3, <2>4 DEF X!Unexpose
<1>2. /\ NativeLocal(o) /\ NativeCreate(o) /\ NativeDelete(o) /\ NativeAlone(o) /\ Resizes(o)
      /\ req[o].expose \in BOOLEAN /\ req[o] # Absent /\ mem[o] \in Memory
      /\ task[o] \in TaskStatuses
  <2>1. NativeLocal(o) /\ NativeCreate(o) /\ NativeDelete(o) /\ NativeAlone(o)
    BY DEF NativeInv
  <2> QED
    BY <1>1, <2>1, NativeAt, NativeTyped DEF NativeDeploys, Failed, Upgrading
<1>3. PICK m \in Memory : /\ Keeps(o, m)
                          /\ SameBut(m, mem[o], {"copy"})
                          /\ m.copy \in Entities /\ m.copy # Absent
                          /\ m.copy.linked = mem[o].copy.linked
                          /\ m.copy.exposed <=> mem[o].copy.exposed /\ req[o].expose
  <2>1. mem' = [mem EXCEPT ![o].copy.exposed = @ /\ ~(mem[o].copy.exposed /\ ~req[o].expose)]
    BY DEF X!Unexpose
  <2> DEFINE f == [mem[o].copy EXCEPT !.exposed = @ /\ ~(mem[o].copy.exposed /\ ~req[o].expose)]
  <2>2. X!Keep(o, f)
    BY <1>2, <2>1, NativeTyped DEF X!Keep, Memory
  <2>3. mem[o].copy.exposed \in BOOLEAN
    BY <1>1 DEF Entities
  <2>4. f \in Entities /\ f.linked = mem[o].copy.linked
          /\ (f.exposed <=> mem[o].copy.exposed /\ req[o].expose)
    BY <1>1, <1>2, <2>3 DEF Entities
  <2> HIDE DEF f
  <2> QED
    BY <2>2, <2>4, NativeKeeps, ThreadsAssumption
<1>4. /\ Frame(o) /\ X!TypeOK' /\ req'[o] = req[o] /\ mem'[o] = m /\ task'[o] = task[o]
      /\ pc'[o] = "publish"
  BY <1>1, <1>2, <1>3, NativeFrame, NativeTyped DEF Typed
<1>5. NativeLocal(o)'
  BY <1>1, <1>2, <1>3, <1>4, NativePaths
  DEF NativeLocal, SameBut, Copying, Resizes, Kind, Truthful, Local, NativeCreates, NativeUpdates,
      NativeUpgrades, NativeDeletes, NativeInfo, NativeDeploys, Upgrading, Failed, Terminal
<1>6. NativeCreate(o)' /\ NativeDelete(o)'
  BY <1>1, <1>2, <1>3, <1>4, NativeUnmade
  DEF NativeCreate, NativeDelete, NativeLocal, SameBut, Creates, Kind, Resizes, Exists, Unmade,
      Frame, NativeDeploys, Failed, Terminal
<1>7. /\ NativeAlone(o)'
      /\ Alone' /\ Exists' /\ rde'.exposed /\ ~rule' => Unexposed(o)'
  <2> SUFFICES ASSUME Alone'
               PROVE  NativeAlone(o)' /\ (Exists' /\ rde'.exposed /\ ~rule' => Unexposed(o)')
    BY DEF NativeAlone
  <2>1. Alone /\ (Exists /\ rde.exposed /\ ~rule => Unexposed(o)) /\ faults' = 0
    BY <1>1, <1>2, <1>3, <1>4, NativeLone DEF Frame, Alone
  <2> QED
    BY <1>1, <1>2, <1>3, <1>4, <2>1
    DEF NativeAlone, NativeLocal, SameBut, Unexposed, Copying, Resizes, Kind, Truthful, Exists,
        Local, NativeDeploys, Failed, NativeCreate, NativeDelete, Creates, Unmade
<1>8. UpgradeMove(o)
  <2>1. Failing(o) => Failing(o)'
    BY <1>1, <1>2, <1>3, <1>4 DEF Failing, Failed, Kind, NativeLocal, Resizes, Terminal
  <2> QED
    BY <1>1, <1>2, <1>3, <1>4, <2>1, NativeQuiet DEF Upgrading, Worked, NativeDeploys
<1> QED
  BY <1>1, <1>2, <1>3, <1>4, <1>5, <1>6, <1>7, <1>8, NativeTyped
  DEF NativeSummary, Creates, Kind, Exists, Unmade, NativeDeploys, Truthful

\* The task ends before its result is stored.
LEMMA NativePublish ==
  ASSUME NativeInv, NEW o \in Ops, X!Publish(o)
  PROVE  NativeSummary(o)
<1>1. /\ pc[o] = "publish" /\ UNCHANGED <<rde, vapp, token, rule, faults, req>>
      /\ X!Goto(o, "finish")
      /\ mem[o].copy \in Entities /\ Truthful(mem[o].copy)
  BY NativeCopies DEF X!Publish, X!state
<1>2. /\ NativeLocal(o) /\ NativeCreate(o) /\ NativeDelete(o) /\ NativeAlone(o) /\ Resizes(o)
      /\ req[o].expose \in BOOLEAN /\ req[o] # Absent /\ mem[o] \in Memory
      /\ task[o] \in TaskStatuses
  <2>1. NativeLocal(o) /\ NativeCreate(o) /\ NativeDelete(o) /\ NativeAlone(o)
    BY DEF NativeInv
  <2> QED
    BY <1>1, <2>1, NativeAt, NativeTyped DEF NativeDeploys, Failed, Upgrading
<1>3. PICK m \in Memory : /\ Keeps(o, m)
                          /\ SameBut(m, mem[o], {"copy"})
                          /\ m.copy \in Entities /\ m.copy # Absent /\ Truthful(m.copy)
                          /\ m.copy.exposed = mem[o].copy.exposed
                          /\ m.copy.linked = mem[o].copy.linked
  <2> DEFINE s == IF mem[o].error THEN "FAILED" ELSE "SUCCEEDED"
  <2> DEFINE f == X!With(mem[o].copy, "UPDATE", s)
  <2>1. X!Keep(o, f)
    BY NativeTyped DEF X!Publish, X!Keep
  <2>2. s \in Statuses /\ "UPDATE" \in PhaseOps
    BY DEF Statuses, PhaseOps
  <2> HIDE DEF s
  <2>3. /\ f \in Entities /\ Truthful(f) /\ f.exposed = mem[o].copy.exposed
        /\ f.linked = mem[o].copy.linked
    BY <1>1, <2>2, NativeWith
  <2> HIDE DEF f
  <2> QED
    BY <2>1, <2>3, NativeKeeps, ThreadsAssumption
<1>4. PICK t \in TaskStatuses : /\ (UNCHANGED task /\ t = task[o]) \/ task' = [task EXCEPT ![o] = t]
                                /\ t \in Terminal /\ (task[o] \in Terminal => t = task[o])
  <2>1. CASE mem[o].error
    BY <1>2, <2>1 DEF X!Publish, NativeLocal
  <2>2. CASE ~mem[o].error
    <3>1. X!SetTask(o, "SUCCESS") /\ "SUCCESS" \in TaskStatuses /\ "SUCCESS" \in Terminal
      BY <2>2 DEF X!Publish, TaskStatuses, Terminal
    <3> QED
      BY <3>1, NativeTasks
  <2> QED
    BY <2>1, <2>2
<1>5. /\ Frame(o) /\ X!TypeOK' /\ req'[o] = req[o] /\ mem'[o] = m /\ task'[o] = t
      /\ pc'[o] = "finish"
  BY <1>1, <1>2, <1>3, <1>4, NativeFrame, NativeTyped DEF Typed
<1>6. NativeLocal(o)'
  BY <1>1, <1>2, <1>3, <1>4, <1>5, NativePaths
  DEF NativeLocal, SameBut, Copying, Resizes, Kind, Truthful, Local, NativeCreates, NativeUpdates,
      NativeUpgrades, NativeDeletes, NativeInfo, NativeDeploys, Upgrading, Failed, Terminal
<1>7. NativeCreate(o)' /\ NativeDelete(o)'
  BY <1>1, <1>2, <1>3, <1>4, <1>5, NativeUnmade
  DEF NativeCreate, NativeDelete, NativeLocal, SameBut, Creates, Kind, Resizes, Exists, Unmade,
      Frame, NativeDeploys, Failed, Terminal
<1>8. /\ NativeAlone(o)'
      /\ Alone' /\ Exists' /\ rde'.exposed /\ ~rule' => Unexposed(o)'
  <2> SUFFICES ASSUME Alone'
               PROVE  NativeAlone(o)' /\ (Exists' /\ rde'.exposed /\ ~rule' => Unexposed(o)')
    BY DEF NativeAlone
  <2>1. Alone /\ (Exists /\ rde.exposed /\ ~rule => Unexposed(o)) /\ faults' = 0
    BY <1>1, <1>2, <1>3, <1>4, <1>5, NativeLone DEF Frame, Alone
  <2> QED
    BY <1>1, <1>2, <1>3, <1>4, <1>5, <2>1
    DEF NativeAlone, NativeLocal, SameBut, Unexposed, Copying, Resizes, Kind, Truthful, Exists,
        Local, NativeDeploys, Failed, NativeCreate, NativeDelete, Creates, Unmade
<1>9. UpgradeMove(o)
  <2>1. Failing(o) => Failing(o)'
    BY <1>1, <1>2, <1>3, <1>4, <1>5 DEF Failing, Failed, Kind, NativeLocal, Resizes, Terminal
  <2> QED
    BY <1>1, <1>2, <1>3, <1>4, <1>5, <2>1, NativeQuiet DEF Upgrading, Worked, NativeDeploys
<1> QED
  BY <1>1, <1>2, <1>3, <1>4, <1>5, <1>6, <1>7, <1>8, <1>9, NativeTyped
  DEF NativeSummary, Creates, Kind, Exists, Unmade, NativeDeploys, Truthful

\* And then stored.
LEMMA NativeFinish ==
  ASSUME NativeInv, NEW o \in Ops, X!Finish(o)
  PROVE  NativeSummary(o)
<1>1. PICK p : /\ pc[o] = "finish" /\ UNCHANGED <<vapp, token, rule, req, task>> /\ X!Forget(o)
               /\ X!Goto(o, p) /\ p \in {"done", "fail"}
               /\ rde' \in Entities \cup {Absent} /\ Truthful(rde') /\ (Exists' <=> Exists)
               /\ rde' = rde \/ (Exists /\ rde'.exposed = mem[o].copy.exposed)
               /\ mem[o].copy.linked /\ Exists
                    /\ faults' = 0 => rde'.exposed = mem[o].copy.exposed
               /\ faults' \in 0..MaxFaults /\ (faults' = 0 => faults = 0)
  <2>1. pc[o] = "finish" /\ X!Sync(o, mem[o].copy, FALSE, "done", "fail")
    BY DEF X!Finish
  <2>2. UNCHANGED <<vapp, token, rule, req, task>> /\ X!Forget(o)
    BY DEF X!Finish
  <2>3. mem[o].copy \in Entities /\ Truthful(mem[o].copy)
    BY <2>1, NativeCopies
  <2> DEFINE f == X!Synced(mem[o].copy)
  <2>4. f \in Entities /\ Truthful(f) /\ f.exposed = mem[o].copy.exposed
    BY <2>3, NativeEntities
  <2>5. \/ X!Put(o, f, "done")
        \/ X!PutRaises(o, f, "fail")
        \/ X!Goto(o, "done") /\ UNCHANGED <<rde, faults>> /\ ~mem[o].copy.linked
    BY <2>1 DEF X!Sync
  <2> HIDE DEF f
  <2>6. CASE X!Put(o, f, "done")
    BY <2>1, <2>2, <2>4, <2>6, NativeWrites DEF X!Put, X!Exists, Exists
  <2>7. CASE X!PutRaises(o, f, "fail")
    BY <2>1, <2>2, <2>4, <2>7, NativeWrites
  <2>8. CASE X!Goto(o, "done") /\ UNCHANGED <<rde, faults>> /\ ~mem[o].copy.linked
    BY <2>1, <2>2, <2>8, NativeTyped DEF Typed, Exists
  <2> QED
    BY <2>5, <2>6, <2>7, <2>8
<1>2. /\ NativeLocal(o) /\ NativeCreate(o) /\ NativeDelete(o) /\ NativeAlone(o) /\ Resizes(o)
      /\ req[o].expose \in BOOLEAN /\ req[o] # Absent /\ mem[o] \in Memory
      /\ task[o] \in TaskStatuses
  <2>1. NativeLocal(o) /\ NativeCreate(o) /\ NativeDelete(o) /\ NativeAlone(o)
    BY DEF NativeInv
  <2> QED
    BY <1>1, <2>1, NativeAt, NativeTyped DEF NativeDeploys, Failed, Upgrading
<1>3. PICK m \in Memory : /\ Keeps(o, m)
                          /\ m.undo = mem[o].undo /\ ~m.exposed /\ ~m.child /\ ~m.error
                          /\ m.copy = Absent /\ m.temp = Absent
  BY <1>1, NativeForgets
<1>4. /\ Frame(o) /\ X!TypeOK' /\ req'[o] = req[o] /\ mem'[o] = m /\ task'[o] = task[o]
      /\ pc'[o] = p
  BY <1>1, <1>2, <1>3, NativeFrame, NativeTyped DEF Typed
<1>5. NativeLocal(o)'
  BY <1>1, <1>2, <1>3, <1>4, NativePaths
  DEF NativeLocal, SameBut, Copying, Resizes, Kind, Truthful, Local, NativeCreates, NativeUpdates,
      NativeUpgrades, NativeDeletes, NativeInfo, NativeDeploys, Upgrading, Failed, Terminal
<1>6. NativeCreate(o)' /\ NativeDelete(o)'
  BY <1>1, <1>2, <1>3, <1>4, NativeUnmade
  DEF NativeCreate, NativeDelete, NativeLocal, SameBut, Creates, Kind, Resizes, Exists, Unmade,
      Frame, NativeDeploys, Failed, Terminal
<1>7. /\ NativeAlone(o)'
      /\ Alone' /\ Exists' /\ rde'.exposed /\ ~rule' => Unexposed(o)'
  <2> SUFFICES ASSUME Alone'
               PROVE  NativeAlone(o)' /\ (Exists' /\ rde'.exposed /\ ~rule' => Unexposed(o)')
    BY DEF NativeAlone
  <2>1. Alone /\ (Exists /\ rde.exposed /\ ~rule => Unexposed(o)) /\ faults' = 0
    BY <1>1, <1>2, <1>3, <1>4, NativeLone DEF Frame, Alone
  <2> QED
    BY <1>1, <1>2, <1>3, <1>4, <2>1
    DEF NativeAlone, NativeLocal, SameBut, Unexposed, Copying, Resizes, Kind, Truthful, Exists,
        Local, NativeDeploys, Failed, NativeCreate, NativeDelete, Creates, Unmade
<1>8. UpgradeMove(o)
  <2>1. Failing(o) => Failing(o)'
    BY <1>1, <1>2, <1>3, <1>4 DEF Failing, Failed, Kind, NativeLocal, Resizes, Terminal
  <2> QED
    BY <1>1, <1>2, <1>3, <1>4, <2>1, NativeQuiet DEF Upgrading, Worked, NativeDeploys
<1> QED
  BY <1>1, <1>2, <1>3, <1>4, <1>5, <1>6, <1>7, <1>8, NativeTyped
  DEF NativeSummary, Creates, Kind, Exists, Unmade, NativeDeploys, Truthful

\* An upgrade reads the entity again.
LEMMA NativeBeginUpgrade ==
  ASSUME NativeInv, NEW o \in Ops, X!BeginUpgrade(o)
  PROVE  NativeSummary(o)
<1>1. PICK p : /\ pc[o] = "upgrade" /\ UNCHANGED <<rde, vapp, token, rule, faults, req, task>>
               /\ X!Goto(o, p) /\ X!Keep(o, rde)
               /\ rde \in Entities /\ rde # Absent /\ Truthful(rde)
               /\ \/ vapp # Absent /\ p \in {"drainControl", "drainAll", "uncordonAll"}
                  \/ p = "fail"
  BY NativeTyped DEF X!BeginUpgrade, X!Exists, Typed, X!state
<1>2. /\ NativeLocal(o) /\ NativeCreate(o) /\ NativeDelete(o) /\ NativeAlone(o)
      /\ Kind(o) = "upgrade"
      /\ req[o].expose \in BOOLEAN /\ req[o] # Absent /\ mem[o] \in Memory
      /\ task[o] \in TaskStatuses
  <2>1. NativeLocal(o) /\ NativeCreate(o) /\ NativeDelete(o) /\ NativeAlone(o)
    BY DEF NativeInv
  <2> QED
    BY <1>1, <2>1, NativeAt, NativeTyped DEF NativeDeploys, Failed, Upgrading
<1>3. PICK m \in Memory : /\ Keeps(o, m)
                          /\ SameBut(m, mem[o], {"copy"})
                          /\ m.copy = rde
  BY <1>1, NativeKeeps
<1>4. /\ Frame(o) /\ X!TypeOK' /\ req'[o] = req[o] /\ mem'[o] = m /\ task'[o] = task[o]
      /\ pc'[o] = p
  BY <1>1, <1>2, <1>3, NativeFrame, NativeTyped DEF Typed
<1>5. NativeLocal(o)'
  BY <1>1, <1>2, <1>3, <1>4, NativePaths
  DEF NativeLocal, SameBut, Copying, Resizes, Kind, Truthful, Local, NativeCreates, NativeUpdates,
      NativeUpgrades, NativeDeletes, NativeInfo, NativeDeploys, Upgrading, Failed, Terminal
<1>6. NativeCreate(o)' /\ NativeDelete(o)'
  BY <1>1, <1>2, <1>3, <1>4, NativeUnmade
  DEF NativeCreate, NativeDelete, NativeLocal, SameBut, Creates, Kind, Resizes, Exists, Unmade,
      Frame, NativeDeploys, Failed, Terminal
<1>7. /\ NativeAlone(o)'
      /\ Alone' /\ Exists' /\ rde'.exposed /\ ~rule' => Unexposed(o)'
  <2> SUFFICES ASSUME Alone'
               PROVE  NativeAlone(o)' /\ (Exists' /\ rde'.exposed /\ ~rule' => Unexposed(o)')
    BY DEF NativeAlone
  <2>1. Alone /\ (Exists /\ rde.exposed /\ ~rule => Unexposed(o)) /\ faults' = 0
    BY <1>1, <1>2, <1>3, <1>4, NativeLone DEF Frame, Alone
  <2> QED
    BY <1>1, <1>2, <1>3, <1>4, <2>1
    DEF NativeAlone, NativeLocal, SameBut, Unexposed, Copying, Resizes, Kind, Truthful, Exists,
        Local, NativeDeploys, Failed, NativeCreate, NativeDelete, Creates, Unmade
<1>8. UpgradeMove(o)
  BY <1>1, <1>2, <1>3, <1>4, NativeTyped, ThreadsAssumption
  DEF UpgradeMove, Upgrading, Renewing, Worked, Failing, Failed, Kind, NativeLocal, Resizes,
      Terminal, Typed
<1> QED
  BY <1>1, <1>2, <1>3, <1>4, <1>5, <1>6, <1>7, <1>8, NativeTyped
  DEF NativeSummary, Creates, Kind, Exists, Unmade, NativeDeploys, Truthful

\* A step of an upgrade.
LEMMA NativeUpgradeStep ==
  ASSUME NativeInv, NEW o \in Ops, X!UpgradeStep(o)
  PROVE  NativeSummary(o)
<1>1. PICK p : /\ pc[o] \in Upgrading /\ UNCHANGED <<rde, token, rule, faults, req, mem, task>>
               /\ X!Goto(o, p) /\ p \in X!UpgradeNext[pc[o]]
               /\ vapp \in Vapps /\ vapp # Absent /\ vapp' \in Vapps /\ Worked(o)
               /\ vapp' = X!UpgradeEffect(pc[o])
               /\ p \in Upgrading \cup {"recordUpgrade"}
  <2>1. pc[o] \in Upgrading /\ vapp # Absent /\ vapp' = X!UpgradeEffect(pc[o])
    BY DEF X!UpgradeStep, X!UpgradeNext, Upgrading
  <2>2. vapp \in Vapps
    BY <2>1, NativeTyped DEF Typed
  <2>3. vapp' \in Vapps
    BY <2>1, <2>2, NativeEffect
  <2>4. PICK p : p \in X!UpgradeNext[pc[o]] /\ X!Goto(o, p)
    BY DEF X!UpgradeStep
  <2>5. p \in Upgrading \cup {"recordUpgrade"}
    BY <2>1, <2>4 DEF X!UpgradeNext, Upgrading
  <2> QED
    BY <2>1, <2>2, <2>3, <2>4, <2>5 DEF X!UpgradeStep, Worked
<1>2. /\ NativeLocal(o) /\ NativeCreate(o) /\ NativeDelete(o) /\ NativeAlone(o)
      /\ Kind(o) = "upgrade"
      /\ req[o].expose \in BOOLEAN /\ req[o] # Absent /\ mem[o] \in Memory
      /\ task[o] \in TaskStatuses
  <2>1. NativeLocal(o) /\ NativeCreate(o) /\ NativeDelete(o) /\ NativeAlone(o)
    BY DEF NativeInv
  <2> QED
    BY <1>1, <2>1, NativeAt, NativeTyped DEF NativeDeploys, Failed, Upgrading
<1>3. /\ Frame(o) /\ X!TypeOK' /\ req'[o] = req[o] /\ mem'[o] = mem[o] /\ task'[o] = task[o]
      /\ pc'[o] = p
  BY <1>1, <1>2, NativeFrame, NativeTyped DEF Typed, Keeps
<1>4. NativeLocal(o)'
  BY <1>1, <1>2, <1>3, NativePaths
  DEF NativeLocal, Copying, Resizes, Kind, Truthful, Local, NativeCreates, NativeUpdates,
      NativeUpgrades, NativeDeletes, NativeInfo, NativeDeploys, Upgrading, Failed, Terminal
<1>5. NativeCreate(o)' /\ NativeDelete(o)'
  BY <1>1, <1>2, <1>3, NativeUnmade
  DEF NativeCreate, NativeDelete, NativeLocal, Creates, Kind, Resizes, Exists, Unmade, Frame,
      NativeDeploys, Failed, Terminal
<1>6. /\ NativeAlone(o)'
      /\ Alone' /\ Exists' /\ rde'.exposed /\ ~rule' => Unexposed(o)'
  <2> SUFFICES ASSUME Alone'
               PROVE  NativeAlone(o)' /\ (Exists' /\ rde'.exposed /\ ~rule' => Unexposed(o)')
    BY DEF NativeAlone
  <2>1. Alone /\ (Exists /\ rde.exposed /\ ~rule => Unexposed(o)) /\ faults' = 0
    BY <1>1, <1>2, <1>3, NativeLone DEF Frame, Alone
  <2> QED
    BY <1>1, <1>2, <1>3, <2>1
    DEF NativeAlone, NativeLocal, Unexposed, Copying, Resizes, Kind, Truthful, Exists, Local,
        NativeDeploys, Failed, NativeCreate, NativeDelete, Creates, Unmade, Upgrading
<1>7. UpgradeMove(o)
  <2>1. /\ vapp.new \subseteq vapp'.new
        /\ pc[o] = "uncordonAll" => vapp'.drained = {} /\ vapp'.new = vapp.new
        /\ pc[o] \notin {"runControl", "runWorkers"} => vapp'.new = vapp.new
        /\ pc[o] = "runWorkers" => vapp'.new = vapp.new \cup {"workers"}
    BY <1>1, NativeEffect
  <2>2. /\ pc[o] # "uncordonAll" => p \in Upgrading
        /\ p \in Renewing => pc[o] \in Renewing \cup {"runControl"}
        /\ pc[o] \in Renewing => p \in Renewing \/ pc[o] = "runWorkers"
        /\ pc[o] = "runControl" => p \in Renewing
    BY <1>1 DEF X!UpgradeNext, Upgrading, Renewing
  <2> QED
    BY <1>1, <1>2, <1>3, <2>1, <2>2 DEF UpgradeMove, Failing, Failed, Upgrading
<1> QED
  BY <1>1, <1>2, <1>3, <1>4, <1>5, <1>6, <1>7, NativeTyped
  DEF NativeSummary, Creates, Kind, Exists, Unmade, NativeDeploys, Truthful, Upgrading

\* A step of an upgrade fails.
LEMMA NativeUpgradeRaises ==
  ASSUME NativeInv, NEW o \in Ops, X!UpgradeRaises(o)
  PROVE  NativeSummary(o)
<1>1. /\ pc[o] \in Upgrading /\ UNCHANGED <<rde, token, rule, faults, req, mem, task>>
      /\ X!Goto(o, "fail")
      /\ vapp' \in Vapps \cup {Absent} /\ (vapp' = vapp \/ Worked(o))
      /\ vapp # Absent => vapp.new \subseteq vapp'.new
  <2>1. pc[o] \in Upgrading
    BY DEF X!UpgradeRaises, X!UpgradeNext, Upgrading
  <2>2. vapp' = vapp \/ (vapp # Absent /\ vapp' = X!UpgradeEffect(pc[o]))
    BY DEF X!UpgradeRaises
  <2>3. vapp # Absent => vapp \in Vapps
    BY NativeTyped DEF Typed
  <2>4. /\ vapp' \in Vapps \cup {Absent} /\ (vapp' = vapp \/ Worked(o))
        /\ vapp # Absent => vapp.new \subseteq vapp'.new
    BY <2>1, <2>2, <2>3, NativeEffect DEF Worked
  <2> QED
    BY <2>1, <2>4 DEF X!UpgradeRaises
<1>2. /\ NativeLocal(o) /\ NativeCreate(o) /\ NativeDelete(o) /\ NativeAlone(o)
      /\ Kind(o) = "upgrade"
      /\ req[o].expose \in BOOLEAN /\ req[o] # Absent /\ mem[o] \in Memory
      /\ task[o] \in TaskStatuses
  <2>1. NativeLocal(o) /\ NativeCreate(o) /\ NativeDelete(o) /\ NativeAlone(o)
    BY DEF NativeInv
  <2> QED
    BY <1>1, <2>1, NativeAt, NativeTyped DEF NativeDeploys, Failed, Upgrading
<1>3. /\ Frame(o) /\ X!TypeOK' /\ req'[o] = req[o] /\ mem'[o] = mem[o] /\ task'[o] = task[o]
      /\ pc'[o] = "fail"
  BY <1>1, <1>2, NativeFrame, NativeTyped DEF Typed, Keeps
<1>4. NativeLocal(o)'
  BY <1>1, <1>2, <1>3, NativePaths
  DEF NativeLocal, Copying, Resizes, Kind, Truthful, Local, NativeCreates, NativeUpdates,
      NativeUpgrades, NativeDeletes, NativeInfo, NativeDeploys, Upgrading, Failed, Terminal
<1>5. NativeCreate(o)' /\ NativeDelete(o)'
  BY <1>1, <1>2, <1>3, NativeUnmade
  DEF NativeCreate, NativeDelete, NativeLocal, Creates, Kind, Resizes, Exists, Unmade, Frame,
      NativeDeploys, Failed, Terminal
<1>6. /\ NativeAlone(o)'
      /\ Alone' /\ Exists' /\ rde'.exposed /\ ~rule' => Unexposed(o)'
  <2> SUFFICES ASSUME Alone'
               PROVE  NativeAlone(o)' /\ (Exists' /\ rde'.exposed /\ ~rule' => Unexposed(o)')
    BY DEF NativeAlone
  <2>1. Alone /\ (Exists /\ rde.exposed /\ ~rule => Unexposed(o)) /\ faults' = 0
    BY <1>1, <1>2, <1>3, NativeLone DEF Frame, Alone
  <2> QED
    BY <1>1, <1>2, <1>3, <2>1
    DEF NativeAlone, NativeLocal, Unexposed, Copying, Resizes, Kind, Truthful, Exists, Local,
        NativeDeploys, Failed, NativeCreate, NativeDelete, Creates, Unmade, Upgrading
<1>7. UpgradeMove(o)
  BY <1>1, <1>2, <1>3, ThreadsAssumption DEF UpgradeMove, Upgrading, Renewing, Failing, Failed,
      Kind
<1> QED
  BY <1>1, <1>2, <1>3, <1>4, <1>5, <1>6, <1>7, NativeTyped
  DEF NativeSummary, Creates, Kind, Exists, Unmade, NativeDeploys, Truthful, Upgrading

\* A request fails; where a child thread does, the request goes on.
LEMMA NativeErr ==
  ASSUME NativeInv, NEW o \in Ops, X!Err(o)
  PROVE  NativeSummary(o)
<1>1. PICK p : /\ pc[o] = "err" /\ UNCHANGED <<rde, vapp, token, rule, faults, req>>
               /\ X!Goto(o, p)
               /\ \/ p = "done" /\ ~mem[o].child /\ X!Forget(o)
                  \/ /\ p \in {"unexpose", "publish"} /\ mem[o].child
                     /\ mem' = [mem EXCEPT ![o].error = TRUE, ![o].child = FALSE]
  BY NativeTyped DEF X!Err, X!AfterChild, X!state, Memory
<1>2. /\ NativeLocal(o) /\ NativeCreate(o) /\ NativeDelete(o) /\ NativeAlone(o)
      /\ (Kind(o) \in {"create", "upgrade", "delete"} \/ Resizes(o))
      /\ req[o].expose \in BOOLEAN /\ req[o] # Absent /\ mem[o] \in Memory
      /\ task[o] \in TaskStatuses
  <2>1. NativeLocal(o) /\ NativeCreate(o) /\ NativeDelete(o) /\ NativeAlone(o)
    BY DEF NativeInv
  <2> QED
    BY <1>1, <2>1, NativeAt, NativeTyped DEF NativeDeploys, Failed, Upgrading
<1>3. PICK m \in Memory : /\ Keeps(o, m)
                          /\ \/ /\ p = "done" /\ m.undo = mem[o].undo /\ ~m.exposed /\ ~m.child
                                /\ ~m.error
                                /\ m.copy = Absent /\ m.temp = Absent
                             \/ /\ p \in {"unexpose", "publish"} /\ mem[o].child /\ m.error
                                /\ ~m.child
                                /\ SameBut(m, mem[o], {"error", "child"})
  BY <1>1, NativeForgets
<1>4. PICK t \in TaskStatuses : /\ (UNCHANGED task /\ t = task[o]) \/ task' = [task EXCEPT ![o] = t]
                                /\ t \in Terminal /\ (task[o] \in Terminal \/ t = "ERROR")
                                /\ task[o] \in Terminal => t = task[o]
  <2>1. X!SetTask(o, "ERROR") /\ "ERROR" \in TaskStatuses /\ "ERROR" \in Terminal
    BY DEF X!Err, TaskStatuses, Terminal
  <2> QED
    BY <2>1, NativeTasks
<1>5. /\ Frame(o) /\ X!TypeOK' /\ req'[o] = req[o] /\ mem'[o] = m /\ task'[o] = t
      /\ pc'[o] = p
  BY <1>1, <1>2, <1>3, <1>4, NativeFrame, NativeTyped DEF Typed
<1>6. NativeLocal(o)'
  BY <1>1, <1>2, <1>3, <1>4, <1>5, NativePaths
  DEF NativeLocal, SameBut, Copying, Resizes, Kind, Truthful, Local, NativeCreates, NativeUpdates,
      NativeUpgrades, NativeDeletes, NativeInfo, NativeDeploys, Upgrading, Failed, Terminal
<1>7. NativeCreate(o)' /\ NativeDelete(o)'
  BY <1>1, <1>2, <1>3, <1>4, <1>5, NativeUnmade
  DEF NativeCreate, NativeDelete, NativeLocal, SameBut, Creates, Kind, Resizes, Exists, Unmade,
      Frame, NativeDeploys, Failed, Terminal
<1>8. /\ NativeAlone(o)'
      /\ Alone' /\ Exists' /\ rde'.exposed /\ ~rule' => Unexposed(o)'
  <2> SUFFICES ASSUME Alone'
               PROVE  NativeAlone(o)' /\ (Exists' /\ rde'.exposed /\ ~rule' => Unexposed(o)')
    BY DEF NativeAlone
  <2>1. Alone /\ (Exists /\ rde.exposed /\ ~rule => Unexposed(o)) /\ faults' = 0
    BY <1>1, <1>2, <1>3, <1>4, <1>5, NativeLone DEF Frame, Alone
  <2> QED
    BY <1>1, <1>2, <1>3, <1>4, <1>5, <2>1
    DEF NativeAlone, NativeLocal, SameBut, Unexposed, Copying, Resizes, Kind, Truthful, Exists,
        Local, NativeDeploys, Failed, NativeCreate, NativeDelete, Creates, Unmade
<1>9. UpgradeMove(o)
  <2>1. Failing(o) => Failing(o)'
    BY <1>1, <1>2, <1>3, <1>4, <1>5 DEF Failing, Failed, Kind, NativeLocal, Resizes, Terminal
  <2> QED
    BY <1>1, <1>2, <1>3, <1>4, <1>5, <2>1, NativeQuiet DEF Upgrading, Worked, NativeDeploys
<1> QED
  BY <1>1, <1>2, <1>3, <1>4, <1>5, <1>6, <1>7, <1>8, <1>9, NativeTyped
  DEF NativeSummary, Creates, Kind, Exists, Unmade, NativeDeploys, Truthful

\* A request succeeds.
LEMMA NativeOk ==
  ASSUME NativeInv, NEW o \in Ops, X!Ok(o)
  PROVE  NativeSummary(o)
<1>1. /\ pc[o] = "ok" /\ UNCHANGED <<rde, vapp, token, rule, faults, req>> /\ X!Forget(o)
      /\ X!Goto(o, "done")
  BY DEF X!Ok, X!state
<1>2. /\ NativeLocal(o) /\ NativeCreate(o) /\ NativeDelete(o) /\ NativeAlone(o)
      /\ Kind(o) \in {"create", "upgrade", "delete"}
      /\ req[o].expose \in BOOLEAN /\ req[o] # Absent /\ mem[o] \in Memory
      /\ task[o] \in TaskStatuses
  <2>1. NativeLocal(o) /\ NativeCreate(o) /\ NativeDelete(o) /\ NativeAlone(o)
    BY DEF NativeInv
  <2> QED
    BY <1>1, <2>1, NativeAt, NativeTyped DEF NativeDeploys, Failed, Upgrading
<1>3. PICK m \in Memory : /\ Keeps(o, m)
                          /\ m.undo = mem[o].undo /\ ~m.exposed /\ ~m.child /\ ~m.error
                          /\ m.copy = Absent /\ m.temp = Absent
  BY <1>1, NativeForgets
<1>4. PICK t \in TaskStatuses : /\ (UNCHANGED task /\ t = task[o]) \/ task' = [task EXCEPT ![o] = t]
                                /\ t \in Terminal /\ (task[o] \in Terminal \/ t = "SUCCESS")
                                /\ task[o] \in Terminal => t = task[o]
  <2>1. X!SetTask(o, "SUCCESS") /\ "SUCCESS" \in TaskStatuses /\ "SUCCESS" \in Terminal
    BY DEF X!Ok, TaskStatuses, Terminal
  <2> QED
    BY <2>1, NativeTasks
<1>5. /\ Frame(o) /\ X!TypeOK' /\ req'[o] = req[o] /\ mem'[o] = m /\ task'[o] = t
      /\ pc'[o] = "done"
  BY <1>1, <1>2, <1>3, <1>4, NativeFrame, NativeTyped DEF Typed
<1>6. NativeLocal(o)'
  BY <1>1, <1>2, <1>3, <1>4, <1>5, NativePaths
  DEF NativeLocal, SameBut, Copying, Resizes, Kind, Truthful, Local, NativeCreates, NativeUpdates,
      NativeUpgrades, NativeDeletes, NativeInfo, NativeDeploys, Upgrading, Failed, Terminal
<1>7. NativeCreate(o)' /\ NativeDelete(o)'
  BY <1>1, <1>2, <1>3, <1>4, <1>5, NativeUnmade
  DEF NativeCreate, NativeDelete, NativeLocal, SameBut, Creates, Kind, Resizes, Exists, Unmade,
      Frame, NativeDeploys, Failed, Terminal
<1>8. /\ NativeAlone(o)'
      /\ Alone' /\ Exists' /\ rde'.exposed /\ ~rule' => Unexposed(o)'
  <2> SUFFICES ASSUME Alone'
               PROVE  NativeAlone(o)' /\ (Exists' /\ rde'.exposed /\ ~rule' => Unexposed(o)')
    BY DEF NativeAlone
  <2>1. Alone /\ (Exists /\ rde.exposed /\ ~rule => Unexposed(o)) /\ faults' = 0
    BY <1>1, <1>2, <1>3, <1>4, <1>5, NativeLone DEF Frame, Alone
  <2> QED
    BY <1>1, <1>2, <1>3, <1>4, <1>5, <2>1
    DEF NativeAlone, NativeLocal, SameBut, Unexposed, Copying, Resizes, Kind, Truthful, Exists,
        Local, NativeDeploys, Failed, NativeCreate, NativeDelete, Creates, Unmade
<1>9. UpgradeMove(o)
  <2>1. Failing(o) => Failing(o)'
    BY <1>1, <1>2, <1>3, <1>4, <1>5 DEF Failing, Failed, Kind, NativeLocal, Resizes, Terminal
  <2> QED
    BY <1>1, <1>2, <1>3, <1>4, <1>5, <2>1, NativeQuiet DEF Upgrading, Worked, NativeDeploys
<1> QED
  BY <1>1, <1>2, <1>3, <1>4, <1>5, <1>6, <1>7, <1>8, <1>9, NativeTyped
  DEF NativeSummary, Creates, Kind, Exists, Unmade, NativeDeploys, Truthful

\* A new request.
LEMMA NativeBegin ==
  ASSUME NativeInv, NEW o \in Ops, NEW r \in X!Requests, X!Begin(o, r)
  PROVE  NativeSummary(o)
<1>1. /\ pc[o] = "idle" /\ req' = [req EXCEPT ![o] = r] /\ X!Goto(o, "get")
      /\ r.kind = "create" => ~Exists /\ \A p \in Ops : pc[p] = "idle"
      /\ r.kind # "create" => Exists
      /\ UNCHANGED <<rde, vapp, token, rule, mem, task, faults>>
  BY DEF X!Begin, X!state, X!Exists, Exists
<1>2. /\ NativeLocal(o) /\ NativeOrder /\ mem[o] = NoMemory /\ task[o] = "NONE"
      /\ Typed /\ Truthful(rde) /\ req \in [Ops -> X!Requests \cup {Absent}] /\ DOMAIN pc = Ops
      /\ mem \in [Ops -> Memory] /\ task \in [Ops -> TaskStatuses]
  BY <1>1, NativeTyped DEF NativeInv, NativeLocal
<1>3. r.kind \in X!Kinds /\ r.expose \in BOOLEAN /\ r # Absent
  BY LifeCyclesAssumption DEF X!Requests
<1>4. /\ pc'[o] = "get" /\ DOMAIN pc' = Ops /\ req'[o] = r /\ mem' = mem /\ task' = task
      /\ req' \in [Ops -> X!Requests \cup {Absent}]
      /\ \A p \in Ops \ {o} : pc'[p] = pc[p] /\ req'[p] = req[p]
  BY <1>1, <1>2 DEF X!Goto
<1>5. Frame(o) /\ X!TypeOK'
  BY <1>1, <1>2, <1>4
  DEF Frame, Typed, X!TypeOK, X!TypeOKWith, X!Entities, Entities, X!Vapps, Vapps, X!Memory,
      Memory, X!TaskStatuses, TaskStatuses, X!States, States, X!PhaseOps, PhaseOps, X!Statuses,
      Statuses, X!Groups, Groups
<1>6. /\ ~mem[o].exposed /\ ~mem[o].undo /\ ~mem[o].child /\ ~mem[o].error
      /\ mem[o].copy = Absent /\ mem[o].temp = Absent
  BY <1>2 DEF NoMemory
<1>7. NativeLocal(o)'
  BY <1>2, <1>3, <1>4, <1>6, NativePaths
  DEF NativeLocal, Kind, X!Kinds, NativeCreates, NativeUpdates, NativeUpgrades, NativeDeletes,
      NativeInfo, Resizes, Terminal, Copying, Local, Truthful, Upgrading
<1>8. NativeCreate(o)' /\ NativeDelete(o)'
  BY <1>1, <1>2, <1>3, <1>4, <1>6
  DEF NativeCreate, NativeDelete, Creates, Kind, NativeOrder, Exists, Unmade
<1>9. /\ NativeAlone(o)'
      /\ Alone' /\ Exists' /\ rde'.exposed /\ ~rule' => Unexposed(o)'
  <2>1. NativeAlone(o)'
    BY <1>3, <1>4, <1>6 DEF NativeAlone, NativeDeploys, Kind
  <2>2. Alone' => (Exists /\ rde.exposed /\ ~rule => Unexposed(o))
    BY <1>1, <1>3, <1>4, NativeLone
  <2>3. ~Unexposed(o)
    BY <1>1 DEF Unexposed
  <2> QED
    BY <1>1, <2>1, <2>2, <2>3 DEF Exists
<1>10. UpgradeMove(o)
  <2>1. ~Failing(o)
    BY <1>1, <1>2 DEF Failing, Failed
  <2> QED
    BY <1>1, <1>4, <2>1, NativeQuiet DEF Upgrading
<1> QED
  BY <1>1, <1>2, <1>3, <1>4, <1>5, <1>7, <1>8, <1>9, <1>10
  DEF NativeSummary, Creates, Kind, Exists, Truthful

\* Every step does what the summary says.
LEMMA NativeSteps ==
  ASSUME NativeInv, NEW o \in Ops, X!Step(o)
  PROVE  NativeSummary(o)
BY NativeCheckCreate, NativeCreateEntity, NativeCheckEntity, NativeMarkBusy, NativeDeleteEntity,
   NativeEnquiry, NativeSyncInfo, NativeMakeVapp, NativeGetAddress, NativeDeploy,
   NativeCallRaises, NativeRecord, NativeResolve, NativeMonitor, NativeMonitorRaises, NativeAdd,
   NativeAddRaises, NativeDel, NativeDelRaises, NativeUnexpose, NativeUnexposeRaises,
   NativePublish, NativeFinish, NativeBeginUpgrade, NativeUpgradeStep, NativeUpgradeRaises,
   NativeRecordUpgrade, NativeDeleteVapp, NativeDeleteVappRaises, NativeDeleteRule,
   NativeRollback, NativeUndo, NativeFail, NativeFailWrite, NativeSyncRead, NativeSyncWrite,
   NativeResolveFailed, NativeErr, NativeOk
DEF X!Step

\* The invariant is inductive.
LEMMA NativeNextInv ==
  ASSUME NativeInv, [X!Next]_vars
  PROVE  NativeInv'
<1>1. CASE X!Next
  <2>1. PICK o \in Ops : X!Step(o) \/ \E r \in X!Requests : X!Begin(o, r)
    BY <1>1 DEF X!Next
  <2>2. NativeSummary(o)
    BY <2>1, NativeSteps, NativeBegin
  <2> QED
    BY <2>2, NativeSummaryStep
<1>2. CASE UNCHANGED vars
  <2> USE <1>2 DEF vars, state
  <2>1. X!TypeOK' /\ Truthful(rde)'
    BY DEF NativeInv, X!TypeOK, X!TypeOKWith, Truthful
  <2>2. \A o \in Ops : NativeLocal(o)' /\ NativeCreate(o)'
    BY DEF NativeInv, NativeLocal, NativeCreate, Creates, Kind, Resizes, Exists, Copying, Truthful
  <2>3. \A o \in Ops : NativeDelete(o)' /\ NativeAlone(o)'
    BY DEF NativeInv, NativeDelete, NativeAlone, Alone, X!OneAtATime, NoneUnmade, Creates, Kind,
           Exists
  <2>4. NativeOrder' /\ NativeUpgrade'
    BY DEF NativeInv, NativeOrder, NativeUpgrade, Creates, Kind, Exists, Failing, NoneUnmade
  <2>5. NativeExposed'
    BY DEF NativeInv, NativeExposed, Unexposed, Alone, X!OneAtATime, Exists
  <2> QED
    BY <2>1, <2>2, <2>3, <2>4, <2>5 DEF NativeInv
<1> QED
  BY <1>1, <1>2

\* It holds at first.
LEMMA NativeInitInv == X!Init => NativeInv
<1> SUFFICES ASSUME X!Init PROVE NativeInv
  OBVIOUS
<1>1. /\ req = [o \in Ops |-> Absent] /\ pc = [o \in Ops |-> "idle"]
      /\ mem = [o \in Ops |-> NoMemory] /\ task = [o \in Ops |-> "NONE"] /\ faults = 0
      /\ \/ rde = Absent /\ vapp = Absent /\ token = FALSE /\ rule = FALSE
         \/ \E w \in 0..MaxWorkers, x \in BOOLEAN :
              /\ rde = X!Deployed(w, x) /\ vapp = [X!NewVapp EXCEPT !.workers = w]
              /\ token = FALSE /\ rule = x
  BY DEF X!Init, X!InitWith, X!NoMemory, NoMemory
<1>2. ASSUME NEW w \in 0..MaxWorkers, NEW x \in BOOLEAN
      PROVE  /\ X!Deployed(w, x) \in Entities /\ X!Deployed(w, x) # Absent
             /\ X!Deployed(w, x).linked /\ X!Deployed(w, x).exposed = x
             /\ LET v == [X!NewVapp EXCEPT !.workers = w]
                IN  v \in Vapps /\ v.drained = {} /\ v.new = {}
  <2>1. w \in Nat
    BY ThreadsAssumption
  <2>2. /\ X!Deployed(w, x) \in Entities
        /\ X!Deployed(w, x).linked /\ X!Deployed(w, x).exposed = x
    BY <2>1 DEF X!Deployed, Entities, States, PhaseOps, Statuses
  <2>3. LET v == [X!NewVapp EXCEPT !.workers = w]
        IN  v \in Vapps /\ v.drained = {} /\ v.new = {}
    BY <2>1 DEF X!NewVapp, Vapps
  <2> QED
    BY <2>2, <2>3, ThreadsAssumption
<1>3. /\ NoMemory \in Memory /\ ~NoMemory.error /\ ~NoMemory.undo /\ ~NoMemory.exposed
      /\ NoMemory.copy = Absent /\ NoMemory.temp = Absent
  BY DEF NoMemory, Memory
<1>4. /\ rde \in Entities \cup {Absent} /\ vapp \in Vapps \cup {Absent}
      /\ token \in BOOLEAN /\ rule \in BOOLEAN /\ (Exists => rde.linked /\ rde.exposed = rule)
      /\ ~Exists => vapp = Absent /\ ~rule
      /\ vapp # Absent => vapp.drained = {} /\ vapp.new = {}
  <2>1. CASE rde = Absent /\ vapp = Absent /\ token = FALSE /\ rule = FALSE
    BY <2>1 DEF Exists
  <2>2. CASE \E w \in 0..MaxWorkers, x \in BOOLEAN :
               /\ rde = X!Deployed(w, x) /\ vapp = [X!NewVapp EXCEPT !.workers = w]
               /\ token = FALSE /\ rule = x
    BY <1>2, <2>2 DEF Exists
  <2> QED
    BY <1>1, <2>1, <2>2
<1>5. faults \in 0..MaxFaults
  BY <1>1, ThreadsAssumption
<1>6. X!TypeOK
  BY <1>1, <1>3, <1>4, <1>5
  DEF X!TypeOK, X!TypeOKWith, X!Entities, Entities, X!Vapps, Vapps, X!Memory, Memory,
      X!TaskStatuses, X!States, States, X!PhaseOps, PhaseOps, X!Statuses, Statuses, X!Groups,
      Groups
<1>7. \A o \in Ops : NativeLocal(o) /\ NativeCreate(o) /\ NativeDelete(o) /\ NativeAlone(o)
  BY <1>1, <1>3
  DEF NativeLocal, NativeCreate, NativeDelete, NativeAlone, Creates, Truthful, Local
<1>8. NativeOrder /\ NativeExposed /\ Truthful(rde)
  BY <1>1, <1>3, <1>4 DEF NativeOrder, NativeExposed, Creates, Exists, Truthful
<1>9. NativeUpgrade
  BY <1>1, <1>4 DEF NativeUpgrade, Upgrading, Renewing
<1> QED
  BY <1>6, <1>7, <1>8, <1>9 DEF NativeInv

\* What the invariant says of the properties.
LEMMA NativeAsked ==
  ASSUME NativeInv
  PROVE  /\ X!TypeOK /\ X!RollbackIsComplete /\ X!DeleteIsComplete /\ X!ExposedHasRule
         /\ X!UpgradeIsComplete
         /\ \A o \in Ops : pc[o] = "done" => task[o] # "RUNNING"
<1>1. X!RollbackIsComplete
  <2> SUFFICES ASSUME NEW o \in Ops, mem[o].undo, pc[o] = "done", faults = 0
               PROVE  ~Exists /\ vapp = Absent /\ ~rule
    BY DEF X!RollbackIsComplete, X!Exists, Exists
  <2>1. NativeLocal(o) /\ NativeCreate(o)
    BY DEF NativeInv
  <2> QED
    BY <2>1 DEF NativeLocal, NativeCreate, Creates
<1>2. X!DeleteIsComplete
  <2> SUFFICES ASSUME NEW o \in Ops, task[o] = "SUCCESS", Kind(o) = "delete"
               PROVE  ~Exists /\ vapp = Absent
    BY DEF X!DeleteIsComplete, Kind, X!Exists, Exists
  <2>1. NativeLocal(o) /\ NativeDelete(o)
    BY DEF NativeInv
  <2> QED
    BY <2>1 DEF NativeLocal, NativeDelete
<1>3. X!ExposedHasRule
  BY DEF NativeInv, NativeExposed, Unexposed, Alone, X!ExposedHasRule, X!Settled, X!Exists, Exists
<1>4. X!UpgradeIsComplete
  BY DEF NativeInv, NativeUpgrade, X!UpgradeIsComplete, X!Settled, Failing, Failed, Upgrading,
         Renewing, X!Groups, Groups
<1> QED
  BY <1>1, <1>2, <1>3, <1>4 DEF NativeInv, NativeLocal

-----------------------------------------------------------------------------
(***************************************************************************)
(* Legacy clusters: no entity marks one as busy, so the invariant relates  *)
(* requests that overlap in any way, by the vApp they share and its owner. *)
(***************************************************************************)
\* The id of the cluster that was there before is that of no request, and no request
\* is none.
LEMMA VcdIds == L!Before \notin Ops \cup {Absent} /\ Absent \notin L!Requests
BY LifeCyclesAssumption

-----------------------------------------------------------------------------
(***************************************************************************)
(* The invariants.  Those about one request, by what it keeps itself:      *)
(***************************************************************************)
\* Where the threads of a request of each kind may be.
VcdDeployPcs  == {"controlPlane", "init", "address", "workers", "join", "nfs"}
VcdCreatePath ==
  {"get", "makeVapp", "tag", "rollback", "undo", "ok", "err", "done"} \cup VcdDeployPcs
VcdNodesPath  == {"get", "add", "joinNew", "drain", "drop", "dropNew", "ok", "err", "done"}
VcdDeletePath == {"get", "deleteVapp", "ok", "err", "done"}
\* An upgrade before its last uncordon, and after it.
VcdUpgrading  == {"upgrade", "drainControl", "runControl", "uncordonControl", "drainWorkers",
                  "runWorkers", "uncordonWorkers", "drainAll", "runAll", "uncordonAll"}
VcdUpgradePath == {"get", "setMetadata", "ok", "err", "done"} \cup VcdUpgrading
\* Before a create has made its vApp.
VcdUnmade == {"idle", "get", "makeVapp"}

VcdPathOf(kind) == CASE kind = "create"  -> VcdCreatePath
                  [] kind = "delete"  -> VcdDeletePath
                  [] kind = "upgrade" -> VcdUpgradePath
                  [] OTHER            -> VcdNodesPath

VcdPathInv(o) ==
  /\ pc[o] = "idle" => req[o] = Absent /\ task[o] = "NONE"
  /\ pc[o] # "idle" => req[o] \in L!Requests /\ pc[o] \in VcdPathOf(Kind(o))
  /\ task[o] \in {"SUCCESS", "ERROR"} => pc[o] = "done"
  /\ pc[o] = "get" => task[o] = "NONE"
  /\ pc[o] = "done" => task[o] # "RUNNING"
  /\ pc[o] \in {"idle", "get"} => seen[o] = Absent

\* A create works on its own cluster, and is rolled back when it had to be.
VcdCreateInv(o) ==
  /\ pc[o] \in {"makeVapp", "tag", "rollback", "undo"} \cup VcdDeployPcs => seen[o] = o
  /\ pc[o] \in {"rollback", "undo"} => mem[o].undo
  /\ mem[o].undo =>
       Kind(o) = "create" /\ pc[o] \in {"rollback", "undo", "err", "done"} /\ seen[o] = o

(***************************************************************************)
(* And those that relate it to the vApp and other requests:                *)
(***************************************************************************)
\* The vApp has an owner, the create that made it; a cluster that a request has seen
\* was made before.
VcdOwnerInv ==
  /\ vapp = Absent <=> owner = Absent
  /\ \A p \in Ops : pc[p] \in VcdUnmade =>
       owner # p /\ \A o \in Ops \ {p} : seen[o] # p

\* A create that can be rolled back has set the metadata by which its rollback finds it.
VcdTaggedInv(o) == owner = o /\ (mem[o].undo \/ pc[o] \in VcdDeployPcs) => tagged

\* What is rolled back or deleted stays so.
VcdGoneInv(o) ==
  /\ mem[o].undo /\ pc[o] \in {"err", "done"} /\ faults = 0 => ~L!Same(o)
  /\ pc[o] # "idle" /\ Kind(o) = "delete" /\ (pc[o] = "ok" \/ task[o] = "SUCCESS") =>
       ~L!Same(o)

\* A rollback is about to delete its own vApp, unless someone wanted the cluster deleted.
VcdDeletion == \E p \in Ops : req[p] # Absent /\ req[p].kind = "delete"
VcdUndoInv(o) == pc[o] = "undo" => owner = o \/ VcdDeletion

\* An upgrade that drained or renewed some nodes is still at it, or has failed.
VcdFailing(o) == pc[o] = "err" \/ task[o] = "ERROR"
VcdRenewing   == {"uncordonControl", "drainWorkers", "runWorkers"}
VcdUpgradeInv ==
  /\ vapp # Absent /\ vapp.drained # {} =>
       \E o \in Ops : pc[o] \in VcdUpgrading \/ VcdFailing(o)
  /\ vapp # Absent /\ vapp.new \notin {{}, L!Groups} =>
       \E o \in Ops : pc[o] \in VcdRenewing \/ VcdFailing(o)
  /\ \A o \in Ops : pc[o] \in VcdRenewing /\ L!Same(o) => "controlPlane" \in vapp.new

VcdLocalInv(o) == VcdPathInv(o) /\ VcdCreateInv(o)

VcdInv ==
  /\ L!TypeOK
  /\ \A o \in Ops : VcdLocalInv(o) /\ VcdTaggedInv(o) /\ VcdGoneInv(o) /\ VcdUndoInv(o)
  /\ VcdOwnerInv /\ VcdUpgradeInv

-----------------------------------------------------------------------------
(***************************************************************************)
(* What a step of request o changes.                                       *)
(***************************************************************************)
VcdFrame(o) ==
  \A p \in Ops \ {o} : /\ pc'[p] = pc[p] /\ req'[p] = req[p] /\ mem'[p] = mem[p]
                       /\ task'[p] = task[p] /\ seen'[p] = seen[p]

\* Of the vApp: nothing; it is made; it is deleted; or its nodes are worked on.
VcdKept    == vapp' = vapp /\ owner' = owner /\ tagged' = tagged
VcdMade(o) ==
  /\ pc[o] = "makeVapp" /\ vapp = Absent
  /\ vapp' = L!NewVapp /\ owner' = o /\ tagged' = FALSE /\ mem'[o] = mem[o]
  /\ pc'[o] \notin VcdUnmade
VcdGone(o) ==
  /\ pc[o] = "undo" \/ (pc[o] = "deleteVapp" /\ Kind(o) = "delete")
  /\ vapp' = Absent /\ owner' = Absent /\ tagged' = FALSE
VcdWorked(o) ==
  /\ L!Same(o) /\ vapp' \in L!Vapps /\ owner' = owner /\ (tagged => tagged')
  /\ vapp.new \subseteq vapp'.new
  /\ \/ vapp'.drained = vapp.drained /\ vapp'.new = vapp.new
     \/ vapp' = L!UpgradeEffect(pc[o]) /\ pc[o] \in VcdUpgrading
VcdVappStep(o) == VcdKept \/ VcdMade(o) \/ VcdGone(o) \/ VcdWorked(o)

\* Of what the request itself keeps.
VcdSeenStep(o) ==
  \/ seen'[o] = seen[o]
  \/ pc[o] = "get" /\ VcdKept /\ Kind(o) = "create" /\ seen'[o] = o /\ pc'[o] = "makeVapp"
  \/ pc[o] = "get" /\ VcdKept /\ Kind(o) # "create" /\ seen'[o] = owner
     /\ pc'[o] \notin VcdRenewing
VcdPlaceStep(o) ==
  /\ pc[o] # "done" /\ pc'[o] # "idle" /\ (pc[o] = "idle" \/ req'[o] = req[o])
  /\ pc'[o] \in VcdUnmade => pc[o] \in VcdUnmade
  /\ pc'[o] \in VcdDeployPcs =>
       pc[o] \in VcdDeployPcs \/ (pc[o] = "tag" /\ (L!Same(o) => tagged'))
  /\ VcdFailing(o) => VcdFailing(o)' /\ VcdKept
  /\ faults' = 0 => faults = 0
VcdUndoStep(o) ==
  /\ mem'[o].undo => mem[o].undo \/ (pc[o] = "makeVapp" /\ VcdKept)
                     \/ (pc[o] \in VcdDeployPcs /\ tagged' = tagged)
  /\ pc'[o] = "undo" => pc[o] = "rollback" /\ VcdKept /\ L!Same(o)
  /\ mem'[o].undo /\ pc'[o] \in {"err", "done"} /\ faults' = 0 =>
       \/ pc[o] \in {"err", "done"} /\ VcdKept /\ mem[o].undo
       \/ vapp' = Absent
       \/ pc[o] = "rollback" /\ VcdKept /\ ~(L!Found /\ L!Same(o)) /\ mem[o].undo
VcdDeleteStep(o) ==
  Kind(o)' = "delete" /\ (pc'[o] = "ok" \/ task'[o] = "SUCCESS") =>
    (pc[o] = "ok" /\ VcdKept /\ Kind(o) = "delete") \/ vapp' = Absent
VcdUpgradeMove(o) ==
  /\ pc[o] \in VcdUpgrading => \/ pc'[o] \in VcdUpgrading \/ pc'[o] = "err"
                               \/ VcdWorked(o) /\ vapp'.drained = {}
  /\ pc[o] \in VcdRenewing => \/ pc'[o] \in VcdRenewing \/ pc'[o] = "err"
                              \/ L!Same(o) /\ vapp' = L!UpgradeEffect("runWorkers")
  /\ pc'[o] \in VcdRenewing =>
       pc[o] \in VcdRenewing \/ (L!Same(o) /\ vapp' = L!UpgradeEffect("runControl"))
  /\ VcdWorked(o) /\ vapp' # vapp /\ (vapp'.drained # vapp.drained \/ vapp'.new # vapp.new) =>
       \/ pc'[o] \in VcdUpgrading \/ pc'[o] = "err"
       \/ vapp'.drained = {} /\ vapp'.new = vapp.new
  /\ VcdWorked(o) /\ vapp'.new # vapp.new =>
       \/ pc'[o] \in VcdRenewing \/ pc'[o] = "err"
       \/ pc[o] = "runWorkers" /\ vapp'.new = vapp.new \cup {"workers"}

VcdSummary(o) ==
  /\ L!TypeOK' /\ VcdLocalInv(o)' /\ VcdFrame(o) /\ VcdVappStep(o)
  /\ VcdSeenStep(o) /\ VcdPlaceStep(o)
  /\ VcdUndoStep(o) /\ VcdDeleteStep(o) /\ VcdUpgradeMove(o)

-----------------------------------------------------------------------------
(***************************************************************************)
(* A step that does what the summary says preserves each invariant.        *)
(***************************************************************************)
\* The vApp has an owner when it is there, and so it is after the step.
LEMMA VcdOwnerStep ==
  ASSUME VcdInv, NEW o \in Ops, VcdSummary(o)
  PROVE  VcdOwnerInv'
<1> USE DEF VcdSummary, VcdFrame
<1>1. L!NewVapp # Absent /\ Absent \notin L!Vapps /\ Absent \notin Ops
  <2>1. L!Vapps = Vapps /\ L!NewVapp \in L!Vapps
    BY ThreadsAssumption DEF L!NewVapp, L!Vapps, Vapps, L!Groups, Groups
  <2> QED
    BY <2>1, ThreadsAssumption
<1>2. (vapp = Absent <=> owner = Absent)'
  BY <1>1 DEF VcdInv, VcdOwnerInv, VcdVappStep, VcdKept, VcdMade, VcdGone, VcdWorked, L!Same
<1>3. ASSUME NEW p \in Ops, pc'[p] \in VcdUnmade
      PROVE  owner' # p /\ \A q \in Ops \ {p} : seen'[q] # p
  <2>1. pc[p] \in VcdUnmade
    BY <1>3 DEF VcdPlaceStep
  <2>2. owner # p /\ \A q \in Ops \ {p} : seen[q] # p
    BY <2>1 DEF VcdInv, VcdOwnerInv
  <2>3. owner' # p
    BY <1>1, <1>3, <2>2 DEF VcdVappStep, VcdKept, VcdMade, VcdGone, VcdWorked
  <2>4. seen'[o] # p \/ o = p
    BY <2>2 DEF VcdSeenStep
  <2> QED
    BY <2>2, <2>3, <2>4
<1> QED
  BY <1>2, <1>3 DEF VcdOwnerInv

\* The step leaves the invariants of the other requests alone.
LEMMA VcdOthersStep ==
  ASSUME VcdInv, NEW o \in Ops, VcdSummary(o), NEW p \in Ops \ {o}
  PROVE  VcdLocalInv(p)'
BY DEF VcdInv, VcdSummary, VcdFrame, VcdLocalInv, VcdPathInv, VcdCreateInv, Kind

\* What can be rolled back has its metadata.
LEMMA VcdTaggedStep ==
  ASSUME VcdInv, NEW o \in Ops, VcdSummary(o), NEW p \in Ops
  PROVE  VcdTaggedInv(p)'
<1> SUFFICES ASSUME owner' = p, mem'[p].undo \/ pc'[p] \in VcdDeployPcs
             PROVE  tagged'
  BY DEF VcdTaggedInv
<1> USE DEF VcdSummary, VcdFrame
<1>1. Absent \notin Ops
  BY ThreadsAssumption
<1>2. CASE p # o
  BY <1>1, <1>2 DEF VcdVappStep, VcdKept, VcdMade, VcdGone, VcdWorked, VcdInv, VcdTaggedInv
<1>3. CASE p = o
  <2>1. CASE VcdMade(o)
    <3>1. ~mem[o].undo
      BY <2>1 DEF VcdMade, VcdInv, VcdLocalInv, VcdCreateInv
    <3> QED
      BY <1>3, <2>1, <3>1 DEF VcdMade, VcdPlaceStep, VcdDeployPcs
  <2>2. CASE VcdGone(o)
    BY <1>1, <2>2 DEF VcdGone
  <2>3. CASE VcdKept \/ VcdWorked(o)
    <3>1. owner = o /\ vapp # Absent /\ (tagged => tagged')
      BY <1>1, <1>3, <2>3 DEF VcdKept, VcdWorked, VcdInv, VcdOwnerInv
    <3>2. pc[o] \notin VcdUnmade
      BY <3>1 DEF VcdInv, VcdOwnerInv
    <3>3. CASE pc'[o] \in VcdDeployPcs
      <4>1. pc[o] \in VcdDeployPcs \/ (pc[o] = "tag" /\ (L!Same(o) => tagged'))
        BY <3>3 DEF VcdPlaceStep
      <4>2. seen[o] = o
        BY <4>1 DEF VcdInv, VcdLocalInv, VcdCreateInv
      <4> QED
        BY <3>1, <4>1, <4>2 DEF L!Same, VcdInv, VcdTaggedInv
    <3>4. CASE mem'[o].undo
      <4>1. mem[o].undo \/ pc[o] \in VcdDeployPcs
        BY <3>2, <3>4 DEF VcdUndoStep, VcdUnmade
      <4> QED
        BY <3>1, <4>1 DEF VcdInv, VcdTaggedInv
    <3> QED
      BY <1>3, <3>3, <3>4
  <2> QED
    BY <2>1, <2>2, <2>3 DEF VcdVappStep
<1> QED
  BY <1>2, <1>3

\* Another request's step does not bring a cluster back that is gone.
LEMMA VcdStaysGone ==
  ASSUME VcdInv, NEW o \in Ops, VcdSummary(o), NEW p \in Ops, ~L!Same(p), seen'[p] = seen[p],
         p # o \/ ~VcdMade(o)
  PROVE  ~L!Same(p)'
<1>1. CASE VcdMade(o)
  BY <1>1 DEF VcdMade, L!Same, VcdSummary, VcdFrame, VcdInv, VcdOwnerInv, VcdUnmade
<1>2. CASE VcdKept \/ VcdGone(o) \/ VcdWorked(o)
  BY <1>2 DEF VcdKept, VcdGone, VcdWorked, L!Same
<1> QED
  BY <1>1, <1>2 DEF VcdSummary, VcdVappStep

\* What is rolled back or deleted stays so.
LEMMA VcdGoneStep ==
  ASSUME VcdInv, NEW o \in Ops, VcdSummary(o), NEW p \in Ops
  PROVE  VcdGoneInv(p)'
<1>1. ASSUME mem'[p].undo, pc'[p] \in {"err", "done"}, faults' = 0
      PROVE  ~L!Same(p)'
  <2>1. faults = 0
    BY <1>1 DEF VcdSummary, VcdPlaceStep
  <2>2. CASE p # o
    <3>1. ~L!Same(p) /\ seen'[p] = seen[p]
      BY <1>1, <2>1, <2>2 DEF VcdSummary, VcdFrame, VcdInv, VcdGoneInv
    <3> QED
      BY <2>2, <3>1, VcdStaysGone
  <2>3. CASE p = o
    <3>1. CASE pc[o] \in {"err", "done"} /\ VcdKept /\ mem[o].undo
      <4>1. ~L!Same(o)
        BY <2>1, <3>1 DEF VcdInv, VcdGoneInv
      <4>2. seen'[o] = seen[o]
        BY <3>1 DEF VcdSummary, VcdSeenStep
      <4> QED
        BY <2>3, <3>1, <4>1, <4>2 DEF VcdKept, L!Same
    <3>2. CASE vapp' = Absent
      BY <3>2 DEF L!Same
    <3>3. CASE pc[o] = "rollback" /\ VcdKept /\ ~(L!Found /\ L!Same(o)) /\ mem[o].undo
      <4>1. seen[o] = o /\ seen'[o] = seen[o]
        BY <3>3 DEF VcdSummary, VcdSeenStep, VcdInv, VcdLocalInv, VcdCreateInv
      <4>2. ~L!Same(o)
        BY <3>3, <4>1 DEF L!Same, L!Found, VcdInv, VcdTaggedInv
      <4> QED
        BY <2>3, <3>3, <4>1, <4>2 DEF VcdKept, L!Same
    <3> QED
      BY <1>1, <2>3, <3>1, <3>2, <3>3 DEF VcdSummary, VcdUndoStep
  <2> QED
    BY <2>2, <2>3
<1>2. ASSUME pc'[p] # "idle", req'[p].kind = "delete", pc'[p] = "ok" \/ task'[p] = "SUCCESS"
      PROVE  ~L!Same(p)'
  <2>1. CASE p # o
    <3>1. ~L!Same(p) /\ seen'[p] = seen[p]
      BY <1>2, <2>1 DEF VcdSummary, VcdFrame, VcdInv, VcdGoneInv, Kind
    <3> QED
      BY <2>1, <3>1, VcdStaysGone
  <2>2. CASE p = o
    <3>1. CASE pc[o] = "ok" /\ VcdKept /\ Kind(o) = "delete"
      <4>1. ~L!Same(o) /\ seen'[o] = seen[o]
        BY <3>1 DEF VcdSummary, VcdSeenStep, VcdInv, VcdGoneInv
      <4> QED
        BY <2>2, <3>1, <4>1 DEF VcdKept, L!Same
    <3>2. CASE vapp' = Absent
      BY <3>2 DEF L!Same
    <3> QED
      BY <1>2, <2>2, <3>1, <3>2 DEF VcdSummary, VcdDeleteStep, Kind
  <2> QED
    BY <2>1, <2>2
<1> QED
  BY <1>1, <1>2 DEF VcdGoneInv, Kind

\* A rollback finds its own vApp, and only a delete can have taken it away since.
LEMMA VcdUndoInvStep ==
  ASSUME VcdInv, NEW o \in Ops, VcdSummary(o), NEW p \in Ops
  PROVE  VcdUndoInv(p)'
<1> SUFFICES ASSUME pc'[p] = "undo"
             PROVE  owner' = p \/ VcdDeletion'
  BY DEF VcdUndoInv
<1>1. ASSUME NEW q \in Ops, req[q] # Absent, req[q].kind = "delete"
      PROVE  VcdDeletion'
  <2>1. req'[q] = req[q]
    BY <1>1 DEF VcdSummary, VcdFrame, VcdPlaceStep, VcdInv, VcdLocalInv, VcdPathInv
  <2> QED
    BY <1>1, <2>1 DEF VcdDeletion
<1>2. VcdDeletion => VcdDeletion'
  BY <1>1 DEF VcdDeletion
<1>3. CASE p = o
  <2>1. pc[o] = "rollback" /\ VcdKept /\ L!Same(o)
    BY <1>3 DEF VcdSummary, VcdUndoStep
  <2>2. owner = o
    BY <2>1 DEF L!Same, VcdInv, VcdLocalInv, VcdCreateInv
  <2> QED
    BY <1>3, <2>1, <2>2 DEF VcdKept
<1>4. CASE p # o
  <2>1. owner = p \/ VcdDeletion
    BY <1>4 DEF VcdSummary, VcdFrame, VcdInv, VcdUndoInv
  <2>2. CASE owner = p
    <3>1. CASE VcdGone(o)
      <4>1. CASE pc[o] = "undo"
        BY <1>2, <1>4, <2>2, <4>1 DEF VcdInv, VcdUndoInv
      <4>2. CASE pc[o] = "deleteVapp" /\ Kind(o) = "delete"
        <5>1. req[o] # Absent
          BY <4>2, VcdIds DEF VcdInv, VcdLocalInv, VcdPathInv
        <5> QED
          BY <1>1, <4>2, <5>1 DEF Kind
      <4> QED
        BY <3>1, <4>1, <4>2 DEF VcdGone
    <3>2. CASE VcdMade(o)
      BY <2>2, <3>2, ThreadsAssumption DEF VcdMade, VcdInv, VcdOwnerInv
    <3>3. CASE VcdKept \/ VcdWorked(o)
      BY <2>2, <3>3 DEF VcdKept, VcdWorked
    <3> QED
      BY <3>1, <3>2, <3>3 DEF VcdSummary, VcdVappStep
  <2> QED
    BY <1>2, <2>1, <2>2
<1> QED
  BY <1>3, <1>4

\* A failed request stays failed, and any other one stays where it is.
LEMMA VcdStillAtIt ==
  ASSUME VcdInv, NEW o \in Ops, VcdSummary(o), NEW q \in Ops,
         VcdFailing(q) \/ (q # o /\ pc[q] \in VcdUpgrading)
  PROVE  VcdFailing(q)' \/ (q # o /\ pc'[q] \in VcdUpgrading)
BY DEF VcdSummary, VcdFrame, VcdPlaceStep, VcdFailing

\* Drained nodes are still being upgraded.
LEMMA VcdDrainedStep ==
  ASSUME VcdInv, NEW o \in Ops, VcdSummary(o), vapp' # Absent, vapp'.drained # {}
  PROVE  \E q \in Ops : pc'[q] \in VcdUpgrading \/ VcdFailing(q)'
<1>1. CASE VcdMade(o)
  BY <1>1 DEF VcdMade, L!NewVapp
<1>2. CASE VcdGone(o)
  BY <1>2 DEF VcdGone
<1>3. CASE (VcdKept \/ VcdWorked(o)) /\ vapp'.drained = vapp.drained
  <2>1. vapp # Absent /\ vapp.drained # {}
    BY <1>3 DEF VcdKept, VcdWorked, L!Same
  <2>2. PICK q \in Ops : pc[q] \in VcdUpgrading \/ VcdFailing(q)
    BY <2>1 DEF VcdInv, VcdUpgradeInv
  <2>3. CASE VcdFailing(q) \/ q # o
    BY <2>2, <2>3, VcdStillAtIt
  <2>4. CASE q = o /\ pc[o] \in VcdUpgrading
    BY <2>4 DEF VcdSummary, VcdUpgradeMove, VcdFailing
  <2> QED
    BY <2>2, <2>3, <2>4
<1>4. CASE VcdWorked(o) /\ vapp'.drained # vapp.drained
  BY <1>4 DEF VcdSummary, VcdUpgradeMove, VcdFailing, VcdWorked
<1> QED
  BY <1>1, <1>2, <1>3, <1>4 DEF VcdSummary, VcdVappStep, VcdKept

\* The control plane is renewed before the workers.
LEMMA VcdRenewingStep ==
  ASSUME VcdInv, NEW o \in Ops, VcdSummary(o), NEW p \in Ops, pc'[p] \in VcdRenewing, L!Same(p)'
  PROVE  "controlPlane" \in vapp'.new
<1> USE DEF VcdSummary
<1>1. CASE p = o
  <2>1. CASE L!Same(o) /\ vapp' = L!UpgradeEffect("runControl")
    BY <2>1 DEF L!UpgradeEffect, L!Renewed, VcdInv, L!TypeOK, L!TypeOKWith, L!Vapps, L!Same
  <2>2. CASE pc[o] \in VcdRenewing
    <3>1. seen'[o] = seen[o] /\ ~VcdMade(o)
      BY <2>2 DEF VcdSeenStep, VcdRenewing, VcdMade
    <3>2. VcdKept \/ VcdWorked(o)
      BY <1>1, <3>1 DEF VcdVappStep, VcdGone, L!Same
    <3>3. L!Same(o)
      BY <1>1, <3>1, <3>2 DEF VcdKept, VcdWorked, L!Same
    <3> QED
      BY <2>2, <3>2, <3>3 DEF VcdKept, VcdWorked, VcdInv, VcdUpgradeInv
  <2> QED
    BY <1>1, <2>1, <2>2 DEF VcdUpgradeMove
<1>2. CASE p # o
  <2>1. pc[p] \in VcdRenewing /\ seen'[p] = seen[p]
    BY <1>2 DEF VcdFrame
  <2>2. L!Same(p)
    BY <1>2, <2>1, VcdStaysGone
  <2>3. VcdKept \/ VcdWorked(o)
    <3>1. ~VcdGone(o)
      BY DEF VcdGone, L!Same
    <3>2. ~VcdMade(o)
      BY <2>2 DEF VcdMade, L!Same
    <3> QED
      BY <3>1, <3>2 DEF VcdVappStep
  <2> QED
    BY <2>1, <2>2, <2>3 DEF VcdKept, VcdWorked, VcdInv, VcdUpgradeInv
<1> QED
  BY <1>1, <1>2

\* When the workers run the new version the control plane does already.
LEMMA VcdAllRenewed ==
  ASSUME VcdInv, NEW o \in Ops, VcdSummary(o), pc[o] \in VcdRenewing, L!Same(o),
         vapp' = L!UpgradeEffect("runWorkers")
  PROVE  vapp'.new = L!Groups
<1>1. vapp \in L!Vapps /\ "controlPlane" \in vapp.new
  BY DEF VcdInv, VcdUpgradeInv, L!TypeOK, L!TypeOKWith, L!Same
<1>2. vapp'.new = vapp.new \cup {"workers"}
  BY <1>1 DEF L!UpgradeEffect, L!Renewed, L!Vapps
<1> QED
  BY <1>1, <1>2 DEF L!Vapps, L!Groups

\* Between the two groups an upgrade is still at it.
LEMMA VcdNewStep ==
  ASSUME VcdInv, NEW o \in Ops, VcdSummary(o), vapp' # Absent, vapp'.new \notin {{}, L!Groups}
  PROVE  \E q \in Ops : pc'[q] \in VcdRenewing \/ VcdFailing(q)'
<1>1. CASE VcdMade(o)
  BY <1>1 DEF VcdMade, L!NewVapp
<1>2. CASE VcdGone(o)
  BY <1>2 DEF VcdGone
<1>3. CASE (VcdKept \/ VcdWorked(o)) /\ vapp'.new = vapp.new
  <2>1. vapp # Absent /\ vapp.new \notin {{}, L!Groups}
    BY <1>3 DEF VcdKept, VcdWorked, L!Same
  <2>2. PICK q \in Ops : pc[q] \in VcdRenewing \/ VcdFailing(q)
    BY <2>1 DEF VcdInv, VcdUpgradeInv
  <2>3. CASE VcdFailing(q)
    BY <2>3 DEF VcdSummary, VcdFrame, VcdPlaceStep, VcdFailing
  <2>4. CASE q # o /\ pc[q] \in VcdRenewing
    BY <2>4 DEF VcdSummary, VcdFrame
  <2>5. CASE q = o /\ pc[o] \in VcdRenewing
    BY <2>5, VcdAllRenewed DEF VcdSummary, VcdUpgradeMove, VcdFailing
  <2> QED
    BY <2>2, <2>3, <2>4, <2>5
<1>4. CASE VcdWorked(o) /\ vapp'.new # vapp.new
  <2>1. CASE pc[o] = "runWorkers" /\ pc'[o] \notin VcdRenewing /\ pc'[o] # "err"
    BY <2>1, VcdAllRenewed DEF VcdSummary, VcdUpgradeMove, VcdRenewing
  <2> QED
    BY <1>4, <2>1 DEF VcdSummary, VcdUpgradeMove, VcdFailing
<1> QED
  BY <1>1, <1>2, <1>3, <1>4 DEF VcdSummary, VcdVappStep, VcdKept

\* The upgrade's invariant is kept.
LEMMA VcdUpgradeInvStep ==
  ASSUME VcdInv, NEW o \in Ops, VcdSummary(o)
  PROVE  VcdUpgradeInv'
BY VcdDrainedStep, VcdNewStep, VcdRenewingStep DEF VcdUpgradeInv

\* A step with the summary preserves all of it.
LEMMA VcdSummaryStep ==
  ASSUME VcdInv, NEW o \in Ops, VcdSummary(o)
  PROVE  VcdInv'
<1>1. \A p \in Ops : VcdLocalInv(p)'
  BY VcdOthersStep DEF VcdSummary
<1>2. \A p \in Ops : VcdTaggedInv(p)' /\ VcdGoneInv(p)' /\ VcdUndoInv(p)'
  BY VcdTaggedStep, VcdGoneStep, VcdUndoInvStep
<1>3. VcdOwnerInv' /\ VcdUpgradeInv'
  BY VcdOwnerStep, VcdUpgradeInvStep
<1>4. L!TypeOK'
  BY DEF VcdSummary
<1> QED
  BY <1>1, <1>2, <1>3, <1>4 DEF VcdInv

-----------------------------------------------------------------------------
(***************************************************************************)
(* What each operation does is what the summary says.                      *)
(***************************************************************************)
\* One request moves, and the others stay where they are.
LEMMA VcdOneMoves ==
  ASSUME L!TypeOK, NEW o \in Ops, NEW p, L!Goto(o, p)
  PROVE  /\ pc'[o] = p /\ DOMAIN pc' = Ops
         /\ \A q \in Ops \ {o} : pc'[q] = pc[q]
BY DEF L!TypeOK, L!TypeOKWith, L!Goto

\* An entry of what requests remember of what they do.
LEMMA VcdRemembered ==
  ASSUME L!TypeOK, NEW o \in Ops
  PROVE  /\ \A u \in BOOLEAN :
              /\ [mem EXCEPT ![o].undo = u] \in [Ops -> L!Memory]
              /\ [mem EXCEPT ![o].undo = u][o].undo = u
              /\ \A q \in Ops \ {o} : [mem EXCEPT ![o].undo = u][q] = mem[q]
         /\ \A n \in Nat :
              /\ [mem EXCEPT ![o].workers = n] \in [Ops -> L!Memory]
              /\ [mem EXCEPT ![o].workers = n][o].undo = mem[o].undo
              /\ \A q \in Ops \ {o} : [mem EXCEPT ![o].workers = n][q] = mem[q]
BY DEF L!TypeOK, L!TypeOKWith, L!Memory

\* A step of which the state of the cluster and what it keeps is right.
VcdTyped ==
  /\ vapp' \in L!Vapps \cup {Absent} /\ owner' \in Ops \cup {L!Before, Absent}
  /\ tagged' \in BOOLEAN /\ seen' \in [Ops -> Ops \cup {L!Before, Absent}]
  /\ mem' \in [Ops -> L!Memory] /\ req' \in [Ops -> L!Requests \cup {Absent}]
  /\ task' \in [Ops -> L!TaskStatuses] /\ faults' \in 0..MaxFaults
  /\ UNCHANGED <<rde, token, rule>>
LEMMA VcdTypedStep ==
  ASSUME L!TypeOK, VcdTyped, NEW o \in Ops, NEW p, L!Goto(o, p)
  PROVE  L!TypeOK'
<1>1. DOMAIN pc' = Ops
  BY VcdOneMoves
<1> QED
  BY <1>1 DEF L!TypeOK, L!TypeOKWith, VcdTyped

\* Work on the nodes of the vApp leaves a vApp.
LEMMA VcdNodesWork ==
  ASSUME vapp \in L!Vapps
  PROVE  /\ \A n \in Int : vapp.workers + n \in Nat =>
              /\ L!MoreWorkers(n) \in L!Vapps
              /\ L!MoreWorkers(n).drained = vapp.drained /\ L!MoreWorkers(n).new = vapp.new
         /\ \A gs \in SUBSET L!Groups :
              /\ {L!Drained(gs), L!Uncordoned(gs), L!Renewed(gs)} \subseteq L!Vapps
              /\ L!Drained(gs).new = vapp.new /\ L!Uncordoned(gs).new = vapp.new
              /\ L!Uncordoned(gs).drained = vapp.drained \ gs
              /\ L!Renewed(gs).drained = vapp.drained
              /\ L!Renewed(gs).new = vapp.new \cup gs
BY DEF L!Vapps, L!MoreWorkers, L!Drained, L!Uncordoned, L!Renewed

\* A cluster that is there is a vApp.
LEMMA VcdSameIsVapp ==
  ASSUME L!TypeOK, NEW o \in Ops, L!Same(o)
  PROVE  vapp \in L!Vapps /\ vapp # Absent
BY DEF L!Same, L!TypeOK, L!TypeOKWith

\* A request arrives.
LEMMA VcdBeginStep ==
  ASSUME VcdInv, NEW o \in Ops, NEW r \in L!Requests, L!Begin(o, r)
  PROVE  VcdSummary(o)
<1>1. pc[o] = "idle" /\ L!Goto(o, "get")
  BY DEF L!Begin
<1>2. pc'[o] = "get" /\ \A q \in Ops \ {o} : pc'[q] = pc[q]
  BY <1>1, VcdOneMoves DEF VcdInv
<1>3. /\ req'[o] = r /\ req' \in [Ops -> L!Requests \cup {Absent}]
      /\ \A q \in Ops \ {o} : req'[q] = req[q]
  BY DEF L!Begin, VcdInv, L!TypeOK, L!TypeOKWith
<1>4. UNCHANGED <<rde, vapp, token, rule, mem, task, faults, owner, tagged, seen>>
  BY DEF L!Begin, L!state, L!brokerVars
<1>5. ~mem[o].undo /\ seen[o] = Absent /\ task[o] = "NONE"
  BY <1>1 DEF VcdInv, VcdLocalInv, VcdPathInv, VcdCreateInv
<1>6. L!TypeOK'
  BY <1>1, <1>3, <1>4, VcdTypedStep DEF VcdTyped, VcdInv, L!TypeOK, L!TypeOKWith
<1>7. r.kind \in L!Kinds
  BY DEF L!Requests
<1>8. VcdLocalInv(o)'
  BY <1>2, <1>3, <1>4, <1>5, <1>7
  DEF VcdLocalInv, VcdPathInv, VcdPathOf, VcdCreateInv, Kind, L!Kinds, VcdCreatePath,
  VcdDeletePath, VcdUpgradePath,
      VcdNodesPath, VcdDeployPcs
<1>9. VcdFrame(o) /\ VcdVappStep(o) /\ VcdSeenStep(o)
  BY <1>2, <1>3, <1>4 DEF VcdFrame, VcdVappStep, VcdKept, VcdSeenStep
<1>10. VcdPlaceStep(o) /\ VcdUndoStep(o) /\ VcdDeleteStep(o) /\ VcdUpgradeMove(o)
  BY <1>1, <1>2, <1>3, <1>4, <1>5, VcdSameIsVapp
  DEF VcdPlaceStep, VcdUndoStep, VcdDeleteStep, VcdUpgradeMove, VcdUnmade, VcdDeployPcs,
  VcdFailing, VcdUpgrading, VcdRenewing,
      VcdWorked, VcdKept, VcdInv
<1> QED
  BY <1>6, <1>8, <1>9, <1>10 DEF VcdSummary

\* A step that is no upgrade's and starts or ends nothing.
LEMMA VcdOrdinaryStep ==
  ASSUME VcdInv, NEW o \in Ops, NEW p, L!Goto(o, p), VcdTyped, UNCHANGED <<req, task, seen>>,
         \A q \in Ops \ {o} : mem'[q] = mem[q], faults' \in {faults, faults + 1},
         pc[o] \notin {"idle", "ok", "err", "done"} \cup VcdUpgrading,
         p \notin {"idle"} \cup VcdUnmade \cup VcdUpgrading,
         p \in VcdDeployPcs =>
           pc[o] \in VcdDeployPcs \/ (pc[o] = "tag" /\ (L!Same(o) => tagged')),
         VcdLocalInv(o)', VcdVappStep(o), VcdUndoStep(o), VcdDeleteStep(o)
  PROVE  VcdSummary(o)
<1>1. pc'[o] = p /\ \A q \in Ops \ {o} : pc'[q] = pc[q]
  BY VcdOneMoves DEF VcdInv
<1>2. L!TypeOK'
  BY VcdTypedStep DEF VcdInv
<1>3. VcdFrame(o) /\ VcdSeenStep(o)
  BY <1>1 DEF VcdFrame, VcdSeenStep
<1>4. ~VcdFailing(o)
  BY DEF VcdFailing, VcdInv, VcdLocalInv, VcdPathInv
<1>5. faults \in Nat
  BY ThreadsAssumption DEF VcdInv, L!TypeOK, L!TypeOKWith
<1>6. VcdPlaceStep(o)
  BY <1>1, <1>4, <1>5 DEF VcdPlaceStep
<1>7. VcdWorked(o) => vapp'.drained = vapp.drained /\ vapp'.new = vapp.new
  BY DEF VcdWorked
<1>8. VcdUpgradeMove(o)
  BY <1>1, <1>7 DEF VcdUpgradeMove, VcdUpgrading, VcdRenewing
<1> QED
  BY <1>2, <1>3, <1>6, <1>8 DEF VcdSummary

\* Where a request is tells what it is about.
LEMMA VcdWhoIsWhere ==
  ASSUME VcdInv, NEW o \in Ops
  PROVE  /\ pc[o] # "idle" => req[o] \in L!Requests /\ Kind(o) \in L!Kinds
         /\ pc[o] \in {"makeVapp", "tag", "rollback", "undo"} \cup VcdDeployPcs =>
              Kind(o) = "create" /\ seen[o] = o
         /\ pc[o] \in {"add", "joinNew", "drain", "drop", "dropNew"} =>
              Kind(o) \notin {"create", "delete", "upgrade"}
         /\ pc[o] = "deleteVapp" => Kind(o) = "delete"
         /\ pc[o] \in VcdUpgrading \cup {"setMetadata"} => Kind(o) = "upgrade"
         /\ mem[o].undo => Kind(o) = "create" /\ pc[o] # "ok"
<1>1. VcdLocalInv(o)
  BY DEF VcdInv
<1>2. pc[o] # "idle" => req[o] \in L!Requests /\ Kind(o) \in L!Kinds
  BY <1>1 DEF VcdLocalInv, VcdPathInv, Kind, L!Requests
<1>3. pc[o] # "idle" => pc[o] \in VcdPathOf(Kind(o))
  BY <1>1 DEF VcdLocalInv, VcdPathInv
<1>4. pc[o] # "idle" =>
        \/ Kind(o) = "create" /\ pc[o] \in VcdCreatePath
        \/ Kind(o) = "delete" /\ pc[o] \in VcdDeletePath
        \/ Kind(o) = "upgrade" /\ pc[o] \in VcdUpgradePath
        \/ Kind(o) \notin {"create", "delete", "upgrade"} /\ pc[o] \in VcdNodesPath
  BY <1>3 DEF VcdPathOf
<1>5. /\ pc[o] \in {"makeVapp", "tag", "rollback", "undo"} \cup VcdDeployPcs =>
           Kind(o) = "create"
      /\ pc[o] \in {"add", "joinNew", "drain", "drop", "dropNew"} =>
           Kind(o) \notin {"create", "delete", "upgrade"}
      /\ pc[o] = "deleteVapp" => Kind(o) = "delete"
      /\ pc[o] \in VcdUpgrading \cup {"setMetadata"} => Kind(o) = "upgrade"
  BY <1>4 DEF VcdCreatePath, VcdDeletePath, VcdUpgradePath, VcdNodesPath, VcdDeployPcs,
     VcdUpgrading
<1>6. /\ pc[o] \in {"makeVapp", "tag", "rollback", "undo"} \cup VcdDeployPcs => seen[o] = o
      /\ mem[o].undo => pc[o] # "ok"
  BY <1>1 DEF VcdLocalInv, VcdCreateInv
<1>7. mem[o].undo => Kind(o) = "create"
  BY <1>1 DEF VcdLocalInv, VcdCreateInv
<1> QED
  BY <1>2, <1>5, <1>6, <1>7

\* A request that goes on within its path keeps what it keeps about itself.
LEMMA VcdGoesOn ==
  ASSUME VcdInv, NEW o \in Ops, NEW p, L!Goto(o, p), UNCHANGED <<req, seen>>,
         pc[o] \notin {"idle", "done"}, p \notin {"idle", "get"}, p \in VcdPathOf(Kind(o)),
         task'[o] = task[o] \/ p = "done", p = "done" => task'[o] # "RUNNING",
         p \in {"makeVapp", "tag", "rollback", "undo"} \cup VcdDeployPcs => seen[o] = o,
         p \in {"rollback", "undo"} => mem'[o].undo,
         mem'[o].undo =>
           p \in {"rollback", "undo", "err", "done"} /\ seen[o] = o /\ Kind(o) = "create"
  PROVE  VcdLocalInv(o)'
<1>1. pc'[o] = p
  BY VcdOneMoves DEF VcdInv
<1>2. req[o] \in L!Requests /\ (task[o] \in {"SUCCESS", "ERROR"} => pc[o] = "done")
  BY DEF VcdInv, VcdLocalInv, VcdPathInv
<1>3. VcdPathInv(o)'
  BY <1>1, <1>2 DEF VcdPathInv, Kind
<1>4. VcdCreateInv(o)'
  BY <1>1 DEF VcdCreateInv, Kind
<1> QED
  BY <1>3, <1>4 DEF VcdLocalInv

\* What is refused is over.
LEMMA VcdRefuseStep ==
  ASSUME VcdInv, NEW o \in Ops, L!Refuse(o)
  PROVE  VcdSummary(o)
<1>1. pc[o] = "get" /\ L!Goto(o, "done")
  BY DEF L!Refuse
<1>2. UNCHANGED <<rde, vapp, token, rule, req, mem, task, faults, owner, tagged, seen>>
  BY DEF L!Refuse, L!state, L!brokerVars
<1>3. pc'[o] = "done"
  BY <1>1, VcdOneMoves DEF VcdInv
<1>4. VcdTyped /\ VcdKept
  BY <1>2 DEF VcdTyped, VcdKept, VcdInv, L!TypeOK, L!TypeOKWith
<1>5. ~mem[o].undo /\ task[o] = "NONE"
  BY <1>1 DEF VcdInv, VcdLocalInv, VcdCreateInv, VcdPathInv
<1>6. "done" \in VcdPathOf(Kind(o))
  BY DEF VcdPathOf, VcdCreatePath, VcdDeletePath, VcdUpgradePath, VcdNodesPath
<1>7. VcdLocalInv(o)'
  BY <1>1, <1>2, <1>5, <1>6, VcdGoesOn DEF VcdDeployPcs
<1>8. VcdUndoStep(o) /\ VcdDeleteStep(o)
  BY <1>2, <1>3, <1>5 DEF VcdUndoStep, VcdDeleteStep
<1> QED
  BY <1>1, <1>2, <1>4, <1>7, <1>8, VcdOrdinaryStep DEF VcdVappStep, VcdUnmade,
     VcdUpgrading, VcdDeployPcs

\* A create remembers its own cluster.
LEMMA VcdCheckCreateStep ==
  ASSUME VcdInv, NEW o \in Ops, L!CheckCreate(o)
  PROVE  VcdSummary(o)
<1>1. pc[o] = "get" /\ Kind(o) = "create" /\ L!Goto(o, "makeVapp")
  BY DEF L!CheckCreate, Kind
<1>2. UNCHANGED <<rde, vapp, token, rule, req, mem, faults, owner, tagged>>
  BY DEF L!CheckCreate, L!state
<1>3. pc'[o] = "makeVapp" /\ \A q \in Ops \ {o} : pc'[q] = pc[q]
  BY <1>1, VcdOneMoves DEF VcdInv
<1>4. /\ seen'[o] = o /\ seen' \in [Ops -> Ops \cup {L!Before, Absent}]
      /\ \A q \in Ops \ {o} : seen'[q] = seen[q]
  BY DEF L!CheckCreate, VcdInv, L!TypeOK, L!TypeOKWith
<1>5. ~mem[o].undo /\ task[o] \notin {"SUCCESS", "ERROR"}
  BY <1>1 DEF VcdInv, VcdLocalInv, VcdCreateInv, VcdPathInv
<1>6. /\ task'[o] = "RUNNING" /\ task' \in [Ops -> L!TaskStatuses]
      /\ \A q \in Ops \ {o} : task'[q] = task[q]
  BY <1>5 DEF L!CheckCreate, L!SetTask, L!Terminal, L!TaskStatuses, VcdInv, L!TypeOK,
     L!TypeOKWith
<1>7. L!TypeOK'
  BY <1>1, <1>2, <1>4, <1>6, VcdTypedStep DEF VcdTyped, VcdInv, L!TypeOK, L!TypeOKWith
<1>8. req[o] \in L!Requests
  BY <1>1, VcdWhoIsWhere
<1>9. VcdLocalInv(o)'
  BY <1>1, <1>2, <1>3, <1>4, <1>5, <1>6, <1>8
  DEF VcdLocalInv, VcdPathInv, VcdPathOf, VcdCreateInv, Kind, VcdCreatePath, VcdDeployPcs
<1>10. VcdFrame(o) /\ VcdVappStep(o) /\ VcdSeenStep(o)
  BY <1>1, <1>2, <1>3, <1>4, <1>6 DEF VcdFrame, VcdVappStep, VcdKept, VcdSeenStep
<1>11. VcdPlaceStep(o) /\ VcdUndoStep(o) /\ VcdDeleteStep(o) /\ VcdUpgradeMove(o)
  BY <1>1, <1>2, <1>3, <1>5, <1>6
  DEF VcdPlaceStep, VcdUndoStep, VcdDeleteStep, VcdUpgradeMove, VcdUnmade, VcdDeployPcs,
  VcdFailing, VcdUpgrading,
      VcdRenewing, VcdWorked
<1> QED
  BY <1>7, <1>9, <1>10, <1>11 DEF VcdSummary

\* Where the request that found the cluster goes first.
LEMMA VcdFirstPcIs ==
  ASSUME NEW r \in L!Requests, r.kind # "create", r.kind = "resize" => L!Change(r) # 0,
         vapp \in L!Vapps
  PROVE  /\ L!Change(r) \in Int
         /\ L!FirstPc(r) = IF r.kind = "delete" THEN "deleteVapp"
                           ELSE IF r.kind = "upgrade" THEN "upgrade"
                           ELSE IF L!Change(r) > 0 THEN "add" ELSE "drain"
<1>1. CASE r.kind = "delete"
  BY <1>1 DEF L!Change, L!FirstPc
<1>2. CASE r.kind = "upgrade"
  BY <1>2 DEF L!Change, L!FirstPc
<1>3. CASE r.kind = "resize"
  <2>1. L!Change(r) = r.workers - vapp.workers
    BY <1>3 DEF L!Change
  <2>2. L!Change(r) \in Int
    BY <2>1, ThreadsAssumption DEF L!Vapps, L!Requests
  <2> QED
    BY <1>3, <2>2 DEF L!FirstPc
<1>4. CASE r.kind = "createNodes"
  <2>1. L!Change(r) = r.workers
    BY <1>4 DEF L!Change
  <2>2. L!Change(r) \in Int /\ L!Change(r) > 0
    BY <1>4, <2>1, ThreadsAssumption DEF L!Requests
  <2> QED
    BY <1>4, <2>2 DEF L!FirstPc
<1>5. CASE r.kind = "deleteNodes"
  <2>1. L!Change(r) = -1
    BY <1>5 DEF L!Change
  <2> QED
    BY <1>5, <2>1 DEF L!FirstPc
<1> QED
  BY <1>1, <1>2, <1>3, <1>4, <1>5 DEF L!Requests, L!Kinds

\* A request remembers the cluster it found.
LEMMA VcdCheckClusterStep ==
  ASSUME VcdInv, NEW o \in Ops, L!CheckCluster(o)
  PROVE  VcdSummary(o)
<1> DEFINE p == L!FirstPc(req[o])
           n == L!Size(L!Change(req[o]))
<1>1. /\ pc[o] = "get" /\ Kind(o) # "create" /\ L!Goto(o, p)
      /\ vapp # Absent /\ (Kind(o) = "resize" => L!Change(req[o]) # 0)
      /\ mem' = [mem EXCEPT ![o].workers = n]
  BY DEF L!CheckCluster, Kind, L!Found
<1>2. UNCHANGED <<rde, vapp, token, rule, req, faults, owner, tagged>>
  BY DEF L!CheckCluster, L!state
<1>3. req[o] \in L!Requests /\ vapp \in L!Vapps
  BY <1>1, VcdWhoIsWhere DEF VcdInv, L!TypeOK, L!TypeOKWith
<1>4. /\ L!Change(req[o]) \in Int
      /\ p = IF Kind(o) = "delete" THEN "deleteVapp"
             ELSE IF Kind(o) = "upgrade" THEN "upgrade"
             ELSE IF L!Change(req[o]) > 0 THEN "add" ELSE "drain"
  BY <1>1, <1>3, VcdFirstPcIs DEF Kind
<1>5. n \in Nat
  BY <1>4 DEF L!Size
<1> HIDE DEF p, n
<1>6. pc'[o] = p /\ \A q \in Ops \ {o} : pc'[q] = pc[q]
  BY <1>1, VcdOneMoves DEF VcdInv
<1>7. /\ mem' \in [Ops -> L!Memory] /\ mem'[o].undo = mem[o].undo
      /\ \A q \in Ops \ {o} : mem'[q] = mem[q]
  BY <1>1, <1>5, VcdRemembered DEF VcdInv
<1>8. /\ seen'[o] = owner /\ seen' \in [Ops -> Ops \cup {L!Before, Absent}]
      /\ \A q \in Ops \ {o} : seen'[q] = seen[q]
  BY DEF L!CheckCluster, VcdInv, L!TypeOK, L!TypeOKWith
<1>9. ~mem[o].undo /\ task[o] \notin {"SUCCESS", "ERROR"}
  BY <1>1 DEF VcdInv, VcdLocalInv, VcdCreateInv, VcdPathInv
<1>10. /\ task'[o] = "RUNNING" /\ task' \in [Ops -> L!TaskStatuses]
       /\ \A q \in Ops \ {o} : task'[q] = task[q]
  BY <1>9 DEF L!CheckCluster, L!SetTask, L!Terminal, L!TaskStatuses, VcdInv, L!TypeOK,
     L!TypeOKWith
<1>11. L!TypeOK'
  BY <1>1, <1>2, <1>7, <1>8, <1>10, VcdTypedStep DEF VcdTyped, VcdInv, L!TypeOK,
     L!TypeOKWith
<1>12. p \in {"deleteVapp", "upgrade", "add", "drain"} /\ p \in VcdPathOf(Kind(o))
  BY <1>1, <1>4 DEF VcdPathOf, VcdDeletePath, VcdUpgradePath, VcdNodesPath, VcdUpgrading
<1>13. VcdLocalInv(o)'
  BY <1>2, <1>3, <1>6, <1>7, <1>9, <1>10, <1>12
  DEF VcdLocalInv, VcdPathInv, VcdCreateInv, Kind, VcdDeployPcs
<1>14. VcdFrame(o) /\ VcdVappStep(o) /\ VcdSeenStep(o)
  BY <1>1, <1>2, <1>6, <1>7, <1>8, <1>10, <1>12
  DEF VcdFrame, VcdVappStep, VcdKept, VcdSeenStep, VcdRenewing
<1>15. VcdPlaceStep(o) /\ VcdUndoStep(o) /\ VcdDeleteStep(o) /\ VcdUpgradeMove(o)
  BY <1>1, <1>2, <1>6, <1>7, <1>9, <1>10, <1>12
  DEF VcdPlaceStep, VcdUndoStep, VcdDeleteStep, VcdUpgradeMove, VcdUnmade, VcdDeployPcs,
  VcdFailing, VcdUpgrading,
      VcdRenewing, VcdWorked
<1> QED
  BY <1>11, <1>13, <1>14, <1>15 DEF VcdSummary

\* The create makes its vApp.
LEMMA VcdMakeVappStep ==
  ASSUME VcdInv, NEW o \in Ops, L!MakeVapp(o)
  PROVE  VcdSummary(o)
<1>1. pc[o] = "makeVapp" /\ L!Goto(o, "tag")
  BY DEF L!MakeVapp
<1>2. UNCHANGED <<rde, token, rule, req, mem, task, faults, seen>>
  BY DEF L!MakeVapp
<1>3. pc'[o] = "tag"
  BY <1>1, VcdOneMoves DEF VcdInv
<1>4. L!NewVapp \in L!Vapps
  BY DEF L!NewVapp, L!Vapps, L!Groups
<1>5. VcdTyped /\ VcdMade(o)
  BY <1>2, <1>3, <1>4 DEF VcdTyped, VcdMade, L!MakeVapp, VcdUnmade, VcdInv, L!TypeOK,
     L!TypeOKWith
<1>6. Kind(o) = "create" /\ seen[o] = o /\ ~mem[o].undo /\ task[o] # "SUCCESS"
  BY <1>1, VcdWhoIsWhere DEF VcdInv, VcdLocalInv, VcdCreateInv, VcdPathInv
<1>7. VcdLocalInv(o)'
  BY <1>1, <1>2, <1>6, VcdGoesOn DEF VcdPathOf, VcdCreatePath
<1>8. VcdUndoStep(o) /\ VcdDeleteStep(o)
  BY <1>2, <1>3, <1>6 DEF VcdUndoStep, VcdDeleteStep, Kind
<1> QED
  BY <1>1, <1>2, <1>5, <1>7, <1>8, VcdOrdinaryStep DEF VcdVappStep, VcdUnmade,
     VcdUpgrading, VcdDeployPcs

\* It fails to, or fails after it made it.
LEMMA VcdMakeVappRaisesStep ==
  ASSUME VcdInv, NEW o \in Ops, L!MakeVappRaises(o)
  PROVE  VcdSummary(o)
<1>1. pc[o] = "makeVapp"
  BY DEF L!MakeVappRaises
<1>2. UNCHANGED <<rde, token, rule, req, task, faults, seen>>
  BY DEF L!MakeVappRaises
<1>3. req[o] \in L!Requests /\ Kind(o) = "create" /\ seen[o] = o /\ ~mem[o].undo
      /\ task[o] # "SUCCESS" /\ vapp \in L!Vapps \cup {Absent}
  BY <1>1, VcdWhoIsWhere DEF VcdInv, VcdLocalInv, VcdCreateInv, VcdPathInv, L!TypeOK,
     L!TypeOKWith
<1>4. L!NewVapp \in L!Vapps
  BY DEF L!NewVapp, L!Vapps, L!Groups
<1>5. req[o].rollback \in BOOLEAN
  BY <1>3 DEF L!Requests
<1>6. CASE /\ mem' = [mem EXCEPT ![o].undo = req[o].rollback]
           /\ L!Goto(o, IF req[o].rollback THEN "rollback" ELSE "err")
           /\ UNCHANGED <<vapp, owner, tagged>>
  <2>1. pc'[o] = IF req[o].rollback THEN "rollback" ELSE "err"
    BY <1>6, VcdOneMoves DEF VcdInv
  <2>2. /\ mem' \in [Ops -> L!Memory] /\ mem'[o].undo = req[o].rollback
        /\ \A q \in Ops \ {o} : mem'[q] = mem[q]
    BY <1>5, <1>6, VcdRemembered DEF VcdInv
  <2>3. VcdTyped /\ VcdKept
    BY <1>2, <1>6, <2>2 DEF VcdTyped, VcdKept, VcdInv, L!TypeOK, L!TypeOKWith
  <2>4. VcdLocalInv(o)'
    BY <1>1, <1>2, <1>3, <1>6, <2>2, VcdGoesOn DEF VcdPathOf, VcdCreatePath, VcdDeployPcs
  <2>5. VcdDeleteStep(o)
    BY <1>2, <1>3 DEF VcdDeleteStep, Kind
  <2>6. VcdUndoStep(o)
    BY <1>1, <1>3, <2>1, <2>2, <2>3 DEF VcdUndoStep
  <2> QED
    BY <1>1, <1>2, <1>6, <2>2, <2>3, <2>4, <2>5, <2>6, VcdOrdinaryStep
    DEF VcdVappStep, VcdUnmade, VcdUpgrading, VcdDeployPcs
<1>7. CASE /\ vapp = Absent
           /\ vapp' = L!NewVapp /\ owner' = o /\ tagged' = FALSE
           /\ L!Goto(o, "err")
           /\ UNCHANGED mem
  <2>1. pc'[o] = "err"
    BY <1>7, VcdOneMoves DEF VcdInv
  <2>2. VcdTyped /\ VcdMade(o)
    BY <1>1, <1>2, <1>4, <1>7, <2>1 DEF VcdTyped, VcdMade, VcdUnmade, VcdInv, L!TypeOK,
       L!TypeOKWith
  <2>3. VcdLocalInv(o)'
    BY <1>1, <1>2, <1>3, <1>7, VcdGoesOn DEF VcdPathOf, VcdCreatePath, VcdDeployPcs
  <2>4. VcdUndoStep(o) /\ VcdDeleteStep(o)
    BY <1>2, <1>3, <1>7, <2>1 DEF VcdUndoStep, VcdDeleteStep, Kind
  <2> QED
    BY <1>1, <1>2, <1>7, <2>2, <2>3, <2>4, VcdOrdinaryStep
    DEF VcdVappStep, VcdUnmade, VcdUpgrading, VcdDeployPcs
<1> QED
  BY <1>6, <1>7 DEF L!MakeVappRaises

\* The calls that deploy a cluster follow one another.
LEMMA VcdDeployCalls ==
  ASSUME NEW p \in DOMAIN L!NextCall
  PROVE  /\ p \in {"tag"} \cup VcdDeployPcs /\ p \in DOMAIN L!Raises
         /\ L!NextCall[p] \in {"ok"} \cup VcdDeployPcs
BY DEF L!NextCall, L!Raises, VcdDeployPcs

\* What nodes a call adds while it deploys the cluster.
LEMMA VcdDeployNodes ==
  ASSUME VcdInv, NEW o \in Ops, L!Same(o), pc[o] \in {"tag"} \cup VcdDeployPcs
  PROVE  /\ L!AddNodes(o) \in L!Vapps /\ vapp \in L!Vapps
         /\ L!AddNodes(o).drained = vapp.drained /\ L!AddNodes(o).new = vapp.new
<1>1. vapp \in L!Vapps
  BY VcdSameIsVapp DEF VcdInv
<1>2. req[o] \in L!Requests
  BY VcdWhoIsWhere DEF VcdDeployPcs
<1>3. req[o].workers \in Nat /\ vapp.workers \in Nat
  BY <1>1, <1>2, ThreadsAssumption DEF L!Requests, L!Vapps
<1>4. req[o].workers \in Int /\ vapp.workers + req[o].workers \in Nat
  BY <1>3
<1> QED
  BY <1>1, <1>4, VcdNodesWork DEF L!AddNodes

\* A deployment goes on.
LEMMA VcdDeployStep ==
  ASSUME VcdInv, NEW o \in Ops, L!Deploy(o)
  PROVE  VcdSummary(o)
<1> DEFINE p == L!NextCall[pc[o]]
<1>1. pc[o] \in DOMAIN L!NextCall /\ L!Same(o) /\ L!Goto(o, p)
  BY DEF L!Deploy
<1>2. UNCHANGED <<rde, token, rule, req, mem, task, faults, owner, seen>>
  BY DEF L!Deploy
<1>3. pc[o] \in {"tag"} \cup VcdDeployPcs /\ p \in {"ok"} \cup VcdDeployPcs
  BY <1>1, VcdDeployCalls
<1> HIDE DEF p
<1>4. pc'[o] = p
  BY <1>1, VcdOneMoves DEF VcdInv
<1>5. vapp' = L!AddNodes(o) /\ tagged' = (tagged \/ pc[o] = "tag")
  BY DEF L!Deploy
<1>6. /\ vapp' \in L!Vapps /\ vapp \in L!Vapps
      /\ vapp'.drained = vapp.drained /\ vapp'.new = vapp.new
  BY <1>1, <1>3, <1>5, VcdDeployNodes
<1>7. tagged \in BOOLEAN /\ tagged' \in BOOLEAN
  BY <1>5 DEF VcdInv, L!TypeOK
<1>8. VcdTyped
  BY <1>2, <1>6, <1>7 DEF VcdTyped, VcdInv, L!TypeOK, L!TypeOKWith
<1>9. VcdWorked(o)
  BY <1>1, <1>2, <1>5, <1>6 DEF VcdWorked
<1>10. Kind(o) = "create" /\ seen[o] = o /\ ~mem[o].undo /\ task[o] # "SUCCESS"
  BY <1>3, VcdWhoIsWhere DEF VcdInv, VcdLocalInv, VcdCreateInv, VcdPathInv, VcdDeployPcs
<1>11. VcdLocalInv(o)'
  BY <1>1, <1>2, <1>3, <1>10, VcdGoesOn DEF VcdPathOf, VcdCreatePath, VcdDeployPcs
<1>12. VcdUndoStep(o) /\ VcdDeleteStep(o)
  BY <1>2, <1>3, <1>4, <1>10 DEF VcdUndoStep, VcdDeleteStep, Kind, VcdDeployPcs
<1>13. pc[o] \notin {"idle", "ok", "err", "done"} \cup VcdUpgrading
  BY <1>3 DEF VcdDeployPcs, VcdUpgrading
<1>14. p \notin {"idle"} \cup VcdUnmade \cup VcdUpgrading
  BY <1>3 DEF VcdDeployPcs, VcdUpgrading, VcdUnmade
<1>15. pc[o] \in VcdDeployPcs \/ (pc[o] = "tag" /\ (L!Same(o) => tagged'))
  BY <1>3, <1>5
<1> QED
  BY <1>1, <1>2, <1>8, <1>9, <1>11, <1>12, <1>13, <1>14, <1>15, VcdOrdinaryStep
    DEF VcdVappStep

\* A deployment fails, and is rolled back or not.
LEMMA VcdDeployRaisesStep ==
  ASSUME VcdInv, NEW o \in Ops, L!DeployRaises(o)
  PROVE  VcdSummary(o)
<1>1. pc[o] \in {"tag"} \cup VcdDeployPcs
  BY DEF L!DeployRaises, L!Raises, VcdDeployPcs
<1>2. UNCHANGED <<rde, token, rule, req, task, faults, owner, tagged, seen>>
  BY DEF L!DeployRaises, L!brokerVars
<1>3. PICK e \in L!Raises[pc[o]] :
        LET undo == e # "other" /\ req[o].rollback IN
        /\ mem' = [mem EXCEPT ![o].undo = undo]
        /\ L!Goto(o, IF undo THEN "rollback" ELSE "err")
  BY DEF L!DeployRaises
<1> DEFINE undo == e # "other" /\ req[o].rollback
           p == IF undo THEN "rollback" ELSE "err"
<1>4. req[o] \in L!Requests /\ Kind(o) = "create" /\ seen[o] = o /\ ~mem[o].undo
      /\ task[o] # "SUCCESS"
  BY <1>1, VcdWhoIsWhere DEF VcdInv, VcdLocalInv, VcdCreateInv, VcdPathInv, VcdDeployPcs
<1>5. undo \in BOOLEAN /\ (undo => e # "other")
  BY <1>4 DEF L!Requests
<1>6. pc[o] = "tag" => ~undo
  BY <1>5 DEF L!Raises
<1> HIDE DEF undo
<1>7. mem' = [mem EXCEPT ![o].undo = undo] /\ L!Goto(o, p)
  BY <1>3 DEF undo
<1>8. pc'[o] = p
  BY <1>7, VcdOneMoves DEF VcdInv
<1>9. /\ mem' \in [Ops -> L!Memory] /\ mem'[o].undo = undo
      /\ \A q \in Ops \ {o} : mem'[q] = mem[q]
  BY <1>5, <1>7, VcdRemembered DEF VcdInv
<1>10. VcdKept \/ VcdWorked(o)
  <2>1. CASE L!Same(o)
    BY <1>1, <1>2, <2>1, VcdDeployNodes DEF L!DeployRaises, VcdKept, VcdWorked
  <2>2. CASE ~L!Same(o)
    BY <1>2, <2>2 DEF L!DeployRaises, VcdKept
  <2> QED
    BY <2>1, <2>2
<1>11. VcdTyped
  BY <1>2, <1>9, <1>10 DEF VcdTyped, VcdKept, VcdWorked, VcdInv, L!TypeOK, L!TypeOKWith
<1>12. VcdLocalInv(o)'
  BY <1>1, <1>2, <1>4, <1>5, <1>7, <1>9, VcdGoesOn DEF VcdPathOf, VcdCreatePath,
     VcdDeployPcs
<1>13. VcdDeleteStep(o)
  BY <1>2, <1>4 DEF VcdDeleteStep, Kind
<1>14. VcdUndoStep(o)
  BY <1>1, <1>2, <1>6, <1>8, <1>9 DEF VcdUndoStep
<1>15. pc[o] \notin {"idle", "ok", "err", "done"} \cup VcdUpgrading
  BY <1>1 DEF VcdDeployPcs, VcdUpgrading
<1>16. p \notin {"idle"} \cup VcdUnmade \cup VcdUpgrading \cup VcdDeployPcs
  BY DEF VcdDeployPcs, VcdUpgrading, VcdUnmade
<1> QED
  BY <1>2, <1>7, <1>9, <1>10, <1>11, <1>12, <1>13, <1>14, <1>15, <1>16,
     VcdOrdinaryStep DEF VcdVappStep

\* The rollback looks for its own cluster.
LEMMA VcdRollbackStep ==
  ASSUME VcdInv, NEW o \in Ops, L!Rollback(o)
  PROVE  VcdSummary(o)
<1> DEFINE p == IF L!Found /\ L!Same(o) THEN "undo" ELSE "err"
<1>1. pc[o] = "rollback" /\ L!Goto(o, p)
  BY DEF L!Rollback
<1>2. UNCHANGED <<rde, vapp, token, rule, req, mem, task, faults, owner, tagged, seen>>
  BY DEF L!Rollback, L!state, L!brokerVars
<1>3. pc'[o] = p
  BY <1>1, VcdOneMoves DEF VcdInv
<1>4. VcdTyped /\ VcdKept
  BY <1>2 DEF VcdTyped, VcdKept, VcdInv, L!TypeOK, L!TypeOKWith
<1>5. Kind(o) = "create" /\ seen[o] = o /\ mem[o].undo
  BY <1>1, VcdWhoIsWhere DEF VcdInv, VcdLocalInv, VcdCreateInv
<1>6. VcdLocalInv(o)'
  BY <1>1, <1>2, <1>5, VcdGoesOn DEF VcdPathOf, VcdCreatePath, VcdDeployPcs
<1>7. VcdUndoStep(o) /\ VcdDeleteStep(o)
  BY <1>1, <1>2, <1>3, <1>4, <1>5 DEF VcdUndoStep, VcdDeleteStep, Kind
<1> QED
  BY <1>1, <1>2, <1>4, <1>6, <1>7, VcdOrdinaryStep DEF VcdVappStep, VcdUnmade,
     VcdUpgrading, VcdDeployPcs

\* A rollback deletes the vApp with the name of its cluster, or fails to.
LEMMA VcdUndoDeletes ==
  ASSUME VcdInv, NEW o \in Ops, L!Undo(o)
  PROVE  VcdSummary(o)
<1>1. pc[o] = "undo" /\ L!Goto(o, "err")
  BY DEF L!Undo
<1>2. UNCHANGED <<rde, token, rule, req, mem, task, seen>>
  BY DEF L!Undo
<1>3. pc'[o] = "err"
  BY <1>1, VcdOneMoves DEF VcdInv
<1>4. faults \in 0..MaxFaults /\ MaxFaults \in Nat
  BY ThreadsAssumption DEF VcdInv, L!TypeOK, L!TypeOKWith
<1>5. \/ VcdGone(o) /\ vapp' = Absent /\ faults' = faults
      \/ VcdKept /\ faults' = faults + 1 /\ faults < MaxFaults
  BY <1>1 DEF L!Undo, VcdGone, VcdKept, L!Fault
<1>6. faults' \in 0..MaxFaults /\ faults' \in {faults, faults + 1}
      /\ (faults' = 0 => vapp' = Absent)
  BY <1>4, <1>5
<1>7. VcdTyped
  BY <1>2, <1>5, <1>6 DEF VcdTyped, VcdGone, VcdKept, VcdInv, L!TypeOK, L!TypeOKWith
<1>8. Kind(o) = "create" /\ seen[o] = o /\ mem[o].undo
  BY <1>1, VcdWhoIsWhere DEF VcdInv, VcdLocalInv, VcdCreateInv
<1>9. VcdLocalInv(o)'
  BY <1>1, <1>2, <1>8, VcdGoesOn DEF VcdPathOf, VcdCreatePath, VcdDeployPcs
<1>10. VcdUndoStep(o) /\ VcdDeleteStep(o)
  BY <1>2, <1>3, <1>6, <1>8 DEF VcdUndoStep, VcdDeleteStep, Kind
<1> QED
  BY <1>1, <1>2, <1>5, <1>6, <1>7, <1>9, <1>10, VcdOrdinaryStep
  DEF VcdVappStep, VcdUnmade, VcdUpgrading, VcdDeployPcs

\* A step of a request that resizes the cluster, of which it may change the size.
LEMMA VcdResizeStep ==
  ASSUME VcdInv, NEW o \in Ops,
         NEW p \in {"joinNew", "drop", "dropNew", "ok", "err"},
         pc[o] \in {"add", "joinNew", "drain", "drop", "dropNew"}, L!Goto(o, p),
         UNCHANGED <<rde, token, rule, req, mem, task, faults, owner, tagged, seen>>,
         \/ vapp' = vapp
         \/ \E n \in Int : L!Same(o) /\ vapp.workers + n \in Nat /\ vapp' = L!MoreWorkers(n)
  PROVE  VcdSummary(o)
<1>1. pc'[o] = p
  BY VcdOneMoves DEF VcdInv
<1>2. VcdKept \/ VcdWorked(o)
  <2>1. CASE vapp' = vapp
    BY <2>1 DEF VcdKept
  <2>2. ASSUME NEW n \in Int, L!Same(o), vapp.workers + n \in Nat, vapp' = L!MoreWorkers(n)
        PROVE  VcdWorked(o)
    <3>1. vapp \in L!Vapps
      BY <2>2, VcdSameIsVapp DEF VcdInv
    <3> QED
      BY <2>2, <3>1, VcdNodesWork DEF VcdWorked
  <2> QED
    BY <2>1, <2>2
<1>3. VcdTyped
  BY <1>2 DEF VcdTyped, VcdKept, VcdWorked, VcdInv, L!TypeOK, L!TypeOKWith
<1>4. Kind(o) \notin {"create", "delete", "upgrade"} /\ ~mem[o].undo
  BY VcdWhoIsWhere
<1>5. p \in VcdPathOf(Kind(o))
  BY <1>4 DEF VcdPathOf, VcdNodesPath
<1>6. VcdLocalInv(o)'
  BY <1>4, <1>5, VcdGoesOn DEF VcdDeployPcs
<1>7. VcdUndoStep(o) /\ VcdDeleteStep(o)
  BY <1>1, <1>4 DEF VcdUndoStep, VcdDeleteStep, Kind
<1> QED
  BY <1>2, <1>3, <1>6, <1>7, VcdOrdinaryStep DEF VcdVappStep, VcdUnmade, VcdUpgrading,
     VcdDeployPcs

\* The counts a request that adds or deletes nodes works with.
LEMMA VcdNodesCount ==
  ASSUME VcdInv, NEW o \in Ops
  PROVE  mem[o].workers \in Nat /\ (L!Same(o) => vapp.workers \in Nat)
BY VcdSameIsVapp DEF VcdInv, L!TypeOK, L!TypeOKWith, L!Memory, L!Vapps

\* Nodes are added, all or some of them.
LEMMA VcdAddStep ==
  ASSUME VcdInv, NEW o \in Ops, L!Add(o) \/ L!AddRaises(o)
  PROVE  VcdSummary(o)
<1>1. mem[o].workers \in Nat /\ (L!Same(o) => vapp.workers \in Nat)
  BY VcdNodesCount
<1>2. CASE L!Add(o)
  <2>1. /\ pc[o] = "add" /\ L!Same(o)
        /\ UNCHANGED <<rde, token, rule, req, mem, task, faults, owner, tagged, seen>>
    BY <1>2 DEF L!Add, L!brokerVars
  <2>2. CASE vapp' = L!MoreWorkers(mem[o].workers) /\ L!Goto(o, "joinNew")
    <3>1. mem[o].workers \in Int /\ vapp.workers + mem[o].workers \in Nat
      BY <1>1, <2>1
    <3> QED
      BY <2>1, <2>2, <3>1, VcdResizeStep
  <2>3. CASE UNCHANGED vapp /\ L!Goto(o, "ok")
    BY <2>1, <2>3, VcdResizeStep
  <2> QED
    BY <1>2, <2>2, <2>3 DEF L!Add
<1>3. CASE L!AddRaises(o)
  <2>1. /\ pc[o] = "add"
        /\ UNCHANGED <<rde, token, rule, req, mem, task, faults, owner, tagged, seen>>
    BY <1>3 DEF L!AddRaises, L!brokerVars
  <2>2. PICK n \in 0..mem[o].workers :
          /\ n > 0 => L!Same(o)
          /\ vapp' = IF n = 0 THEN vapp ELSE L!MoreWorkers(n)
          /\ L!Goto(o, IF req[o].rollback /\ n = mem[o].workers THEN "dropNew" ELSE "err")
    BY <1>3 DEF L!AddRaises
  <2>3. n \in Int /\ (n # 0 => L!Same(o) /\ vapp.workers + n \in Nat)
    BY <1>1, <2>2
  <2>4. vapp' = vapp \/ \E k \in Int : L!Same(o) /\ vapp.workers + k \in Nat
                                  /\ vapp' = L!MoreWorkers(k)
    BY <2>2, <2>3
  <2>5. PICK p \in {"dropNew", "err"} : L!Goto(o, p)
    BY <2>2
  <2> QED
    BY <2>1, <2>4, <2>5, VcdResizeStep
<1> QED
  BY <1>2, <1>3

\* New nodes join the cluster; old ones are drained.
LEMMA VcdJoinDrainStep ==
  ASSUME VcdInv, NEW o \in Ops, L!JoinNew(o) \/ L!Drain(o)
  PROVE  VcdSummary(o)
<1>1. /\ pc[o] \in {"joinNew", "drain"}
      /\ UNCHANGED <<rde, vapp, token, rule, req, mem, task, faults, owner, tagged, seen>>
  BY DEF L!JoinNew, L!Drain, L!state, L!brokerVars
<1>2. PICK p \in {"ok", "err", "drop"} : L!Goto(o, p)
  BY DEF L!JoinNew, L!Drain
<1> QED
  BY <1>1, <1>2, VcdResizeStep

\* Nodes are deleted, those that are there.
LEMMA VcdDropStep ==
  ASSUME VcdInv, NEW o \in Ops, L!DropNodes(o)
  PROVE  VcdSummary(o)
<1>1. /\ pc[o] \in {"drop", "dropNew"}
      /\ UNCHANGED <<rde, token, rule, req, mem, task, faults, owner, tagged, seen>>
  BY DEF L!DropNodes, L!brokerVars
<1>2. PICK p \in {"ok", "err"} : L!Goto(o, p)
  BY DEF L!DropNodes
<1>3. mem[o].workers \in Nat /\ (L!Same(o) => vapp.workers \in Nat)
  BY VcdNodesCount
<1>4. \/ vapp' = vapp
      \/ L!Same(o) /\ vapp.workers >= mem[o].workers /\ vapp' = L!MoreWorkers(-mem[o].workers)
  BY DEF L!DropNodes
<1>5. -mem[o].workers \in Int
      /\ (L!Same(o) /\ vapp.workers >= mem[o].workers =>
            vapp.workers + (-mem[o].workers) \in Nat)
  BY <1>3
<1>6. vapp' = vapp \/ \E n \in Int : L!Same(o) /\ vapp.workers + n \in Nat
                                   /\ vapp' = L!MoreWorkers(n)
  BY <1>4, <1>5
<1> QED
  BY <1>1, <1>2, <1>6, VcdResizeStep

\* A delete deletes the vApp with the name of the cluster, or fails to.
LEMMA VcdDeleteVappStep ==
  ASSUME VcdInv, NEW o \in Ops, L!DeleteVapp(o)
  PROVE  VcdSummary(o)
<1>1. pc[o] = "deleteVapp"
  BY DEF L!DeleteVapp
<1>2. UNCHANGED <<rde, token, rule, req, mem, task, faults, seen>>
  BY DEF L!DeleteVapp
<1>3. Kind(o) = "delete" /\ ~mem[o].undo /\ task[o] # "SUCCESS"
  BY <1>1, VcdWhoIsWhere DEF VcdInv, VcdLocalInv, VcdPathInv
<1>4. \/ VcdGone(o) /\ vapp' = Absent /\ L!Goto(o, "ok")
      \/ VcdKept /\ L!Goto(o, "err")
  BY <1>1, <1>3 DEF L!DeleteVapp, VcdGone, VcdKept
<1>5. PICK p \in {"ok", "err"} : L!Goto(o, p) /\ (p = "ok" => vapp' = Absent)
  BY <1>4
<1>6. pc'[o] = p
  BY <1>5, VcdOneMoves DEF VcdInv
<1>7. VcdTyped
  BY <1>2, <1>4 DEF VcdTyped, VcdGone, VcdKept, VcdInv, L!TypeOK, L!TypeOKWith
<1>8. p \in VcdPathOf(Kind(o))
  BY <1>3 DEF VcdPathOf, VcdDeletePath
<1>9. VcdLocalInv(o)'
  BY <1>1, <1>2, <1>3, <1>5, <1>8, VcdGoesOn DEF VcdDeployPcs
<1>10. VcdUndoStep(o) /\ VcdDeleteStep(o)
  BY <1>2, <1>3, <1>5, <1>6 DEF VcdUndoStep, VcdDeleteStep, Kind
<1> QED
  BY <1>1, <1>2, <1>4, <1>5, <1>7, <1>9, <1>10, VcdOrdinaryStep
  DEF VcdVappStep, VcdUnmade, VcdUpgrading, VcdDeployPcs

\* What each call of an upgrade does to the nodes.
LEMMA VcdEffects ==
  ASSUME vapp \in L!Vapps, NEW p
  PROVE  /\ L!UpgradeEffect(p) \in L!Vapps /\ vapp.new \subseteq L!UpgradeEffect(p).new
         /\ p \notin {"runControl", "runWorkers"} => L!UpgradeEffect(p).new = vapp.new
         /\ p = "runWorkers" => L!UpgradeEffect(p).new = vapp.new \cup {"workers"}
         /\ p = "uncordonAll" => L!UpgradeEffect(p).drained = {}
         /\ p = "setMetadata" => L!UpgradeEffect(p) = vapp
<1>1. \A gs \in SUBSET L!Groups :
        /\ {L!Drained(gs), L!Uncordoned(gs), L!Renewed(gs)} \subseteq L!Vapps
        /\ L!Drained(gs).new = vapp.new /\ L!Uncordoned(gs).new = vapp.new
        /\ L!Uncordoned(gs).drained = vapp.drained \ gs
        /\ L!Renewed(gs).new = vapp.new \cup gs
  BY VcdNodesWork
<1>2. {"controlPlane"} \in SUBSET L!Groups /\ {"workers"} \in SUBSET L!Groups
      /\ L!Groups \in SUBSET L!Groups
  BY DEF L!Groups
<1>3. vapp.drained \ L!Groups = {}
  BY DEF L!Vapps
<1>4. CASE p \in {"drainControl", "drainWorkers", "drainAll"}
  BY <1>1, <1>2, <1>4 DEF L!UpgradeEffect
<1>5. CASE p \in {"runControl", "runWorkers"}
  BY <1>1, <1>2, <1>5 DEF L!UpgradeEffect
<1>6. CASE p \in {"uncordonControl", "uncordonWorkers", "uncordonAll"}
  BY <1>1, <1>2, <1>3, <1>6 DEF L!UpgradeEffect
<1>7. CASE p \notin {"drainControl", "drainWorkers", "drainAll", "runControl", "runWorkers",
                     "uncordonControl", "uncordonWorkers", "uncordonAll"}
  BY <1>7 DEF L!UpgradeEffect
<1> QED
  BY <1>4, <1>5, <1>6, <1>7

\* Which call follows which in an upgrade.
LEMMA VcdUpgradeCalls ==
  ASSUME NEW p \in DOMAIN L!UpgradeNext
  PROVE  /\ p \in VcdUpgrading \cup {"setMetadata"}
         /\ \A q \in L!UpgradeNext[p] :
              /\ q \in VcdUpgrading \/ (p = "uncordonAll" /\ q = "setMetadata")
                 \/ (p = "setMetadata" /\ q = "ok")
              /\ p \in VcdRenewing \ {"runWorkers"} => q \in VcdRenewing
              /\ q \in VcdRenewing => p \in VcdRenewing \cup {"runControl"}
              /\ p = "runControl" => q \in VcdRenewing
BY DEF L!UpgradeNext, VcdUpgrading, VcdRenewing

\* A call of an upgrade that succeeds, or fails before or after its effect.
LEMMA VcdUpgradeCall ==
  ASSUME VcdInv, NEW o \in Ops, pc[o] \in DOMAIN L!UpgradeNext, NEW p, L!Goto(o, p),
         UNCHANGED <<rde, token, rule, req, mem, task, faults, owner, tagged, seen>>,
         \/ L!Same(o) /\ vapp' = L!UpgradeEffect(pc[o]) /\ p \in L!UpgradeNext[pc[o]]
         \/ p = "err" /\ (vapp' = vapp \/ (L!Same(o) /\ vapp' = L!UpgradeEffect(pc[o])))
  PROVE  VcdSummary(o)
<1>1. pc'[o] = p /\ \A q \in Ops \ {o} : pc'[q] = pc[q]
  BY VcdOneMoves DEF VcdInv
<1>2. pc[o] \in VcdUpgrading \cup {"setMetadata"}
  BY VcdUpgradeCalls
<1>3. p \in VcdUpgrading \cup {"setMetadata", "ok", "err"}
  BY VcdUpgradeCalls
<1>4. L!Same(o) => vapp \in L!Vapps
  BY VcdSameIsVapp DEF VcdInv
<1>5. VcdKept \/ (VcdWorked(o) /\ vapp' = L!UpgradeEffect(pc[o]))
  <2>1. CASE vapp' = vapp
    BY <2>1 DEF VcdKept
  <2>2. CASE L!Same(o) /\ vapp' = L!UpgradeEffect(pc[o])
    <3>1. vapp' \in L!Vapps /\ vapp.new \subseteq vapp'.new
      BY <1>4, <2>2, VcdEffects
    <3>2. pc[o] = "setMetadata" => vapp' = vapp
      BY <1>4, <2>2, VcdEffects
    <3> QED
      BY <1>2, <2>2, <3>1, <3>2 DEF VcdWorked
  <2> QED
    BY <2>1, <2>2
<1>6. VcdTyped
  BY <1>5 DEF VcdTyped, VcdKept, VcdWorked, VcdInv, L!TypeOK, L!TypeOKWith
<1>7. L!TypeOK'
  BY <1>6, VcdTypedStep DEF VcdInv
<1>8. Kind(o) = "upgrade" /\ ~mem[o].undo
  BY <1>2, VcdWhoIsWhere
<1>9. p \in VcdPathOf(Kind(o)) /\ p \notin {"idle", "get", "done"} \cup VcdUnmade
      /\ p \notin {"makeVapp", "tag", "rollback", "undo"} \cup VcdDeployPcs
  BY <1>3, <1>8 DEF VcdPathOf, VcdUpgradePath, VcdUpgrading, VcdDeployPcs, VcdUnmade
<1>10. pc[o] \notin {"idle", "get", "ok", "err", "done"}
  BY <1>2 DEF VcdUpgrading
<1>11. VcdLocalInv(o)'
  BY <1>8, <1>9, <1>10, VcdGoesOn
<1>12. VcdFrame(o) /\ VcdVappStep(o) /\ VcdSeenStep(o)
  BY <1>1, <1>5 DEF VcdFrame, VcdVappStep, VcdSeenStep
<1>13. ~VcdFailing(o)
  BY <1>10 DEF VcdFailing, VcdInv, VcdLocalInv, VcdPathInv
<1>14. VcdPlaceStep(o)
  BY <1>1, <1>9, <1>10, <1>13 DEF VcdPlaceStep
<1>15. VcdUndoStep(o) /\ VcdDeleteStep(o)
  BY <1>1, <1>8, <1>9 DEF VcdUndoStep, VcdDeleteStep, Kind
<1>16. VcdUpgradeMove(o)
  <2>1. CASE p = "err"
    BY <1>1, <2>1 DEF VcdUpgradeMove, VcdRenewing
  <2>2. CASE L!Same(o) /\ vapp' = L!UpgradeEffect(pc[o]) /\ p \in L!UpgradeNext[pc[o]]
    <3>1. /\ p \in VcdUpgrading \/ (pc[o] = "uncordonAll" /\ p = "setMetadata")
             \/ (pc[o] = "setMetadata" /\ p = "ok")
          /\ pc[o] \in VcdRenewing \ {"runWorkers"} => p \in VcdRenewing
          /\ p \in VcdRenewing => pc[o] \in VcdRenewing \cup {"runControl"}
          /\ pc[o] = "runControl" => p \in VcdRenewing
      BY <2>2, VcdUpgradeCalls
    <3>2. /\ pc[o] \notin {"runControl", "runWorkers"} => vapp'.new = vapp.new
          /\ pc[o] = "runWorkers" => vapp'.new = vapp.new \cup {"workers"}
          /\ pc[o] = "uncordonAll" => vapp'.drained = {}
          /\ pc[o] = "setMetadata" => vapp' = vapp
          /\ vapp' \in L!Vapps /\ vapp.new \subseteq vapp'.new
      BY <1>4, <2>2, VcdEffects
    <3>3. pc[o] \in VcdUpgrading => VcdWorked(o)
      BY <2>2, <3>2 DEF VcdWorked
    <3> QED
      BY <1>1, <1>2, <2>2, <3>1, <3>2, <3>3 DEF VcdUpgradeMove, VcdUpgrading
  <2> QED
    BY <2>1, <2>2
<1> QED
  BY <1>7, <1>11, <1>12, <1>14, <1>15, <1>16 DEF VcdSummary

\* The steps of an upgrade.
LEMMA VcdUpgradeSteps ==
  ASSUME VcdInv, NEW o \in Ops, L!UpgradeStep(o) \/ L!UpgradeRaises(o)
  PROVE  VcdSummary(o)
<1>1. /\ pc[o] \in DOMAIN L!UpgradeNext
      /\ UNCHANGED <<rde, token, rule, req, mem, task, faults, owner, tagged, seen>>
  BY DEF L!UpgradeStep, L!UpgradeRaises, L!brokerVars
<1>2. CASE L!UpgradeStep(o)
  <2>1. PICK p \in L!UpgradeNext[pc[o]] : L!Goto(o, p)
    BY <1>2 DEF L!UpgradeStep
  <2> QED
    BY <1>1, <1>2, <2>1, VcdUpgradeCall DEF L!UpgradeStep
<1>3. CASE L!UpgradeRaises(o)
  <2>1. L!Goto(o, "err")
    BY <1>3 DEF L!UpgradeRaises
  <2>2. vapp' = vapp \/ (L!Same(o) /\ vapp' = L!UpgradeEffect(pc[o]))
    BY <1>3 DEF L!UpgradeRaises
  <2> QED
    BY <1>1, <2>1, <2>2, VcdUpgradeCall
<1> QED
  BY <1>2, <1>3

\* The task gets its last status.
LEMMA VcdEndStep ==
  ASSUME VcdInv, NEW o \in Ops, L!End(o)
  PROVE  VcdSummary(o)
<1>1. pc[o] \in {"ok", "err"} /\ L!Goto(o, "done")
  BY DEF L!End
<1>2. UNCHANGED <<rde, vapp, token, rule, req, mem, faults, owner, tagged, seen>>
  BY DEF L!End, L!state, L!brokerVars
<1>3. pc'[o] = "done" /\ \A q \in Ops \ {o} : pc'[q] = pc[q]
  BY <1>1, VcdOneMoves DEF VcdInv
<1>4. /\ task'[o] = IF pc[o] = "ok" THEN "SUCCESS" ELSE "ERROR"
      /\ task' \in [Ops -> L!TaskStatuses] /\ \A q \in Ops \ {o} : task'[q] = task[q]
  BY DEF L!End, VcdInv, L!TypeOK, L!TypeOKWith, L!TaskStatuses
<1>5. task[o] \notin {"SUCCESS", "ERROR"} /\ (mem[o].undo => pc[o] # "ok")
      /\ (mem[o].undo => seen[o] = o /\ Kind(o) = "create")
  BY <1>1, VcdWhoIsWhere DEF VcdInv, VcdLocalInv, VcdPathInv, VcdCreateInv
<1>6. L!TypeOK'
  BY <1>1, <1>2, <1>4, VcdTypedStep DEF VcdTyped, VcdInv, L!TypeOK, L!TypeOKWith
<1>7. "done" \in VcdPathOf(Kind(o))
  BY DEF VcdPathOf, VcdCreatePath, VcdDeletePath, VcdUpgradePath, VcdNodesPath
<1>8. VcdLocalInv(o)'
  BY <1>1, <1>2, <1>4, <1>5, <1>7, VcdGoesOn DEF VcdDeployPcs
<1>9. VcdFrame(o) /\ VcdVappStep(o) /\ VcdSeenStep(o)
  BY <1>2, <1>3, <1>4 DEF VcdFrame, VcdVappStep, VcdKept, VcdSeenStep
<1>10. VcdPlaceStep(o)
  BY <1>1, <1>2, <1>3, <1>4, <1>5 DEF VcdPlaceStep, VcdUnmade, VcdDeployPcs, VcdFailing,
     VcdKept
<1>11. VcdUndoStep(o)
  BY <1>1, <1>2, <1>3, <1>5 DEF VcdUndoStep, VcdKept
<1>12. VcdDeleteStep(o)
  BY <1>1, <1>2, <1>3, <1>4 DEF VcdDeleteStep, VcdKept, Kind
<1>13. VcdUpgradeMove(o)
  BY <1>1, <1>2, <1>3 DEF VcdUpgradeMove, VcdUpgrading, VcdRenewing
<1> QED
  BY <1>6, <1>8, <1>9, <1>10, <1>11, <1>12, <1>13 DEF VcdSummary

-----------------------------------------------------------------------------
(***************************************************************************)
(* The invariant holds at first and after every step.                      *)
(***************************************************************************)
\* At first there is no cluster, or one that was there before.
LEMMA VcdInitInv == L!Init => VcdInv
<1> SUFFICES ASSUME L!Init
             PROVE  VcdInv
  OBVIOUS
<1>1. \/ rde = Absent /\ vapp = Absent /\ token = FALSE /\ rule = FALSE
      \/ \E w \in 0..MaxWorkers : /\ rde = Absent /\ token = FALSE /\ rule = FALSE
                                  /\ vapp = [L!NewVapp EXCEPT !.workers = w]
  BY DEF L!Init, L!InitWith
<1>2. /\ rde = Absent /\ token = FALSE /\ rule = FALSE
      /\ vapp = Absent \/ (vapp \in L!Vapps /\ vapp.drained = {} /\ vapp.new = {})
  BY <1>1, ThreadsAssumption DEF L!NewVapp, L!Vapps, L!Groups
<1>3. /\ req = [o \in Ops |-> Absent] /\ pc = [o \in Ops |-> "idle"]
      /\ mem = [o \in Ops |-> L!NoMemory] /\ task = [o \in Ops |-> "NONE"] /\ faults = 0
      /\ owner = (IF vapp = Absent THEN Absent ELSE L!Before) /\ tagged = (vapp # Absent)
      /\ seen = [o \in Ops |-> Absent]
  BY DEF L!Init, L!InitWith
<1>4. L!NoMemory \in L!Memory /\ L!NoMemory.undo = FALSE
  BY DEF L!NoMemory, L!Memory
<1>5. L!TypeOK
  <2>1. mem \in [Ops -> L!Memory] /\ faults \in 0..MaxFaults
    BY <1>3, <1>4, ThreadsAssumption
  <2>2. {token, rule} \subseteq BOOLEAN /\ DOMAIN pc = Ops /\ task \in [Ops -> L!TaskStatuses]
    BY <1>2, <1>3 DEF L!TaskStatuses
  <2>3. /\ owner \in Ops \cup {L!Before, Absent} /\ tagged \in BOOLEAN
        /\ seen \in [Ops -> Ops \cup {L!Before, Absent}]
        /\ req \in [Ops -> L!Requests \cup {Absent}]
    BY <1>3
  <2> QED
    BY <1>2, <2>1, <2>2, <2>3 DEF L!TypeOK, L!TypeOKWith
<1>6. ASSUME NEW o \in Ops
      PROVE  VcdLocalInv(o) /\ VcdTaggedInv(o) /\ VcdGoneInv(o) /\ VcdUndoInv(o)
  BY <1>3, <1>4 DEF VcdLocalInv, VcdPathInv, VcdCreateInv, VcdTaggedInv, VcdGoneInv,
     VcdUndoInv, VcdDeployPcs
<1>7. VcdOwnerInv
  BY <1>3, ThreadsAssumption, VcdIds DEF VcdOwnerInv
<1>8. VcdUpgradeInv
  BY <1>2, <1>3 DEF VcdUpgradeInv, VcdRenewing
<1> QED
  BY <1>5, <1>6, <1>7, <1>8 DEF VcdInv

\* Every step keeps the invariant.
LEMMA VcdNextInv ==
  ASSUME VcdInv, [L!Next]_(L!allVars)
  PROVE  VcdInv'
<1>1. CASE UNCHANGED L!allVars
  BY <1>1 DEF L!allVars, L!vars, L!state, L!brokerVars, VcdInv, L!TypeOK, L!TypeOKWith,
     VcdLocalInv, VcdPathInv,
     VcdCreateInv, VcdTaggedInv, VcdGoneInv, VcdUndoInv, VcdOwnerInv, VcdUpgradeInv,
     Kind, L!Same, VcdDeletion, VcdFailing
<1>2. ASSUME NEW o \in Ops, L!Step(o)
      PROVE  VcdSummary(o)
  BY <1>2, VcdRefuseStep, VcdCheckCreateStep, VcdCheckClusterStep, VcdMakeVappStep,
     VcdMakeVappRaisesStep,
     VcdDeployStep, VcdDeployRaisesStep, VcdRollbackStep, VcdUndoDeletes, VcdAddStep,
     VcdJoinDrainStep, VcdDropStep,
     VcdDeleteVappStep, VcdUpgradeSteps, VcdEndStep DEF L!Step
<1>3. ASSUME NEW o \in Ops, NEW r \in L!Requests, L!Begin(o, r)
      PROVE  VcdSummary(o)
  BY <1>3, VcdBeginStep
<1> QED
  BY <1>1, <1>2, <1>3, VcdSummaryStep DEF L!Next

\* What the invariant says of the properties.
LEMMA VcdAsked ==
  ASSUME VcdInv
  PROVE  /\ L!TypeOK /\ L!RollbackIsComplete /\ L!DeleteIsComplete /\ L!UpgradeIsComplete
         /\ \A o \in Ops : pc[o] = "done" => task[o] # "RUNNING"
         /\ \A o \in Ops : pc[o] = "undo" /\ pc'[o] # "undo" /\ vapp # vapp' =>
              owner = o \/ \E p \in Ops : req[p] # Absent /\ req[p].kind = "delete"
<1>1. L!RollbackIsComplete
  BY DEF VcdInv, VcdGoneInv, L!RollbackIsComplete
<1>2. L!DeleteIsComplete
  BY DEF VcdInv, VcdLocalInv, VcdPathInv, VcdGoneInv, L!DeleteIsComplete, Kind
<1>3. L!UpgradeIsComplete
  BY DEF VcdInv, VcdUpgradeInv, L!UpgradeIsComplete, L!Settled, VcdFailing, VcdUpgrading,
     VcdRenewing
<1>4. \A o \in Ops : pc[o] = "done" => task[o] # "RUNNING"
  BY DEF VcdInv, VcdLocalInv, VcdPathInv
<1>5. \A o \in Ops : pc[o] = "undo" /\ pc'[o] # "undo" /\ vapp # vapp' =>
        owner = o \/ \E p \in Ops : req[p] # Absent /\ req[p].kind = "delete"
  BY DEF VcdInv, VcdUndoInv, VcdDeletion
<1> QED
  BY <1>1, <1>2, <1>3, <1>4, <1>5 DEF VcdInv
=============================================================================
