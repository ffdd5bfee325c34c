----------------------------- MODULE OvdcPolicies -----------------------------
(***************************************************************************)
(* The compute policies of an organization VDC.  A Kubernetes runtime is   *)
(* enabled on a VDC by its placement policy; the command line reads the    *)
(* runtimes, adds or removes one and sends the list back                   *)
(* (policy_based_ovdc.py), and update_ovdc (rde/ovdc_service.py) makes the *)
(* policies of the VDC those of the list, in a thread.  The legacy handler *)
(* adds and removes sizing policies (compute_policy_manager.py).  vCD lets *)
(* no policy go that a VM has, so that a forced removal first takes it     *)
(* from the VMs; a VM has a sizing or a placement policy at any time.      *)
(***************************************************************************)
EXTENDS Procedures

CONSTANTS
  Placement,   \* the placement policies of CSE, one per runtime
  TkgPlus,     \* the one of TKG+
  Sizing,      \* sizing policies of CSE
  VMs          \* the virtual machines of the VDC

SystemDefault == "System Default"
TaskStatuses  == {"NONE", "RUNNING", "SUCCESS", "ERROR"}
VmPolicies    == [placement : Placement \cup {Absent},
                  sizing : Sizing \cup {SystemDefault, Absent}]

\* kind: the request and what it names; force: remove_cp_from_vms_on_disable;
\* runtimes: the list the client sends; add, del: policies_to_add and _to_delete;
\* policy, targets: compute_policy_href and target_vms; session: the operation
\* context is open; before: history, the policies when they were listed;
\* crossed: history, another request changed the VDC since.
Locals == [kind : {"enable", "disable", "add", "remove"}, named : Placement \cup Sizing,
           force : BOOLEAN, runtimes : SUBSET Placement, add : SUBSET Placement,
           del : SUBSET Placement, policy : Placement \cup Sizing \cup {Absent},
           targets : SUBSET VMs, session : BOOLEAN,
           before : SUBSET (Placement \cup Sizing), crossed : BOOLEAN]

\* is_tkg_plus_enabled, the policies of the VDC, those of its VMs, and the tasks.
TypeOK ==
  /\ world \in [tkgPlus : BOOLEAN, vdc : SUBSET (Placement \cup Sizing),
                vms : [VMs -> VmPolicies], task : [Actors -> TaskStatuses]]
  /\ loc \in [Actors -> Locals]
  /\ DOMAIN pc = Actors
  /\ faults \in 0..MaxFaults

Init ==
  /\ \E tkgPlus \in BOOLEAN, vdc \in SUBSET (Placement \cup Sizing), vms \in [VMs -> VmPolicies] :
       /\ \A v \in VMs :
            /\ {vms[v].placement, vms[v].sizing} \subseteq vdc \cup {SystemDefault, Absent}
            /\ {vms[v].placement, vms[v].sizing} # {Absent}
       /\ world = [tkgPlus |-> tkgPlus, vdc |-> vdc, vms |-> vms,
                   task |-> [a \in Actors |-> "NONE"]]
  /\ \E kind \in [Actors -> {"enable", "disable", "add", "remove"}],
        named \in [Actors -> Placement \cup Sizing], force \in BOOLEAN :
       /\ \A a \in Actors :
            named[a] \in (IF kind[a] \in {"enable", "disable"} THEN Placement ELSE Sizing)
       /\ loc = [a \in Actors |->
                   [kind |-> kind[a], named |-> named[a], force |-> force,
                    runtimes |-> {}, add |-> {}, del |-> {}, policy |-> Absent,
                    targets |-> {}, session |-> TRUE, before |-> {}, crossed |-> FALSE]]
       /\ pc = [a \in Actors |-> IF kind[a] \in {"enable", "disable"} THEN "get"
                                 ELSE kind[a]]
  /\ faults = 0

-----------------------------------------------------------------------------
\* A call on the session of the request; every call raises when it has ended.
Request(a, w, next, raised) ==
  IF loc[a].session THEN Call(a, w, next, raised) ELSE Step(a, raised)

\* The policies of the VDC become vdc: requests that have read them are crossed.
ChangeVdc(a, vdc, next, raised) ==
  /\ Request(a, [world EXCEPT !.vdc = vdc], next, raised)
  /\ loc' = [b \in Actors |-> [loc[b] EXCEPT !.crossed = @ \/ (b # a /\ pc[b] # "get")]]

SetTask(a, status) == [world EXCEPT !.task[a] = status]

\* list_cse_placement_policies_on_vdc
ListedOn(vdc) == vdc \cap Placement

\* get_ovdc hides the runtime TKG+ when the server does not serve it.
get_ovdc == ListedOn(world.vdc) \ (IF world.tkgPlus THEN {} ELSE {TkgPlus})

\* The client: it refuses to enable what is enabled and to disable what is not.
ClientUpdate(a) ==
  /\ pc[a] = "get"
  /\ LET enable  == loc[a].kind = "enable"
         refused == enable = (loc[a].named \in get_ovdc)
     IN  /\ Query(a, IF refused THEN "failed" ELSE "task", "failed")
         /\ Set(a, [loc[a] EXCEPT !.before = world.vdc, !.runtimes =
                      IF enable THEN get_ovdc \cup {loc[a].named}
                      ELSE get_ovdc \ {loc[a].named}])

\* update_ovdc: a task, then the refusal of TKG+, then the thread.
CreateTask(a) ==
  /\ pc[a] = "task"
  /\ Call(a, SetTask(a, "RUNNING"), "check", "failed")
  /\ UNCHANGED loc

CheckTkgPlus(a) ==
  /\ pc[a] = "check"
  /\ Step(a, IF TkgPlus \in loc[a].runtimes /\ ~world.tkgPlus THEN "failed" ELSE "diff")
  /\ UNCHANGED loc

\* Variant: what is on the VDC is added and what is wanted is removed.
DiffSwapped(a) ==
  /\ pc[a] = "diff"
  /\ LET existing == ListedOn(world.vdc)
     IN  /\ Query(a, "add placement", "error")
         /\ Set(a, [loc[a] EXCEPT !.add = existing \ loc[a].runtimes,
                                  !.del = loc[a].runtimes \ existing])

Diff(a) ==
  /\ pc[a] = "diff"
  /\ LET existing == ListedOn(world.vdc)
     IN  /\ Query(a, "add placement", "error")
         /\ Set(a, [loc[a] EXCEPT !.add = loc[a].runtimes \ existing,
                                  !.del = existing \ loc[a].runtimes])

AddPlacement(a) ==
  /\ pc[a] = "add placement"
  /\ \E p \in loc[a].add :
       /\ Request(a, [world EXCEPT !.vdc = @ \cup {p}], "add placement", "error")
       /\ loc' = [b \in Actors |->
                    IF b = a THEN [loc[a] EXCEPT !.add = @ \ {p}]
                    ELSE [loc[b] EXCEPT !.crossed = @ \/ pc[b] # "get"]]

DeleteNext(a) ==
  /\ pc[a] = "add placement"
  /\ loc[a].add = {}
  /\ \/ /\ loc[a].del = {}
        /\ Step(a, "succeed")
        /\ UNCHANGED loc
     \/ \E p \in loc[a].del :
          /\ Set(a, [loc[a] EXCEPT !.policy = p, !.del = @ \ {p}])
          /\ Step(a, IF loc[a].force THEN "find VMs" ELSE "remove policy")

\* remove_compute_policy_from_vdc_sync: the VMs with the policy.
FindVms(a) ==
  /\ pc[a] = "find VMs"
  /\ Query(a, "VMs", "error")
  /\ Set(a, [loc[a] EXCEPT !.targets =
               {v \in VMs : loc[a].policy \in {world.vms[v].placement, world.vms[v].sizing}}])

\* update_compute_policy of a VM to System Default, where a placement policy is
\* removed only of a VM that had no sizing policy when it was found.
SetDefault(a, v) ==
  /\ loc[a].policy \in Sizing \/ world.vms[v].sizing = Absent
  /\ Request(a, [world EXCEPT !.vms[v].sizing = SystemDefault], "VMs", "error")
  /\ Set(a, [loc[a] EXCEPT !.targets = IF loc[a].policy \in Sizing THEN @ \ {v} ELSE @])

\* Variant: the VM is not given the system's policy before.
RemoveBare(a, v) ==
  /\ loc[a].policy \in Placement
  /\ Request(a, [world EXCEPT !.vms[v].placement = Absent], "VMs", "error")
  /\ Set(a, [loc[a] EXCEPT !.targets = @ \ {v}])

\* remove_placement_policy of a VM
RemovePlacement(a, v) ==
  /\ loc[a].policy \in Placement
  /\ world.vms[v].sizing # Absent
  /\ Request(a, [world EXCEPT !.vms[v].placement = Absent], "VMs", "error")
  /\ Set(a, [loc[a] EXCEPT !.targets = @ \ {v}])

TakeFromVm(a) ==
  /\ pc[a] = "VMs"
  /\ \E v \in loc[a].targets : SetDefault(a, v) \/ RemovePlacement(a, v)

NoVmLeft(a) ==
  /\ pc[a] = "VMs"
  /\ loc[a].targets = {}
  /\ Step(a, "remove policy")
  /\ UNCHANGED loc

\* vCD: a policy in use stays.
Detachable(policy) ==
  \A v \in VMs : policy \notin {world.vms[v].placement, world.vms[v].sizing}

RemovePolicy(a) ==
  /\ pc[a] = "remove policy"
  /\ IF Detachable(loc[a].policy)
     THEN ChangeVdc(a, world.vdc \ {loc[a].policy},
                    IF loc[a].policy \in Placement THEN "add placement" ELSE "succeed", "error")
     ELSE Step(a, "error") /\ UNCHANGED loc

Succeed(a) ==
  /\ pc[a] = "succeed"
  /\ Request(a, SetTask(a, "SUCCESS"), "done", "error")
  /\ UNCHANGED loc

\* The except block, then the end of the operation context.
Fail(a) ==
  /\ pc[a] = "error"
  /\ Request(a, SetTask(a, "ERROR"), "failed", "failed")
  /\ UNCHANGED loc

\* ovdc_compute_policy_update of the legacy handler: add
AddSizing(a) ==
  /\ pc[a] = "add"
  /\ ChangeVdc(a, world.vdc \cup {loc[a].named}, "done", "failed")

\* remove: the task, and a thread that reads the VDC before its try block.
RemoveSizing(a) ==
  /\ pc[a] = "remove"
  /\ Call(a, SetTask(a, "RUNNING"), "thread", "failed")
  /\ UNCHANGED loc

StartRemoval(a) ==
  /\ pc[a] = "thread"
  /\ Query(a, IF loc[a].force THEN "find VMs" ELSE "remove policy", "failed")
  /\ Set(a, [loc[a] EXCEPT !.policy = loc[a].named])

\* _follow_task in another thread: it waits for the end of the task, or fails; both
\* end the operation context, which the removal uses.
FollowFails(a) ==
  /\ loc[a].kind = "remove" /\ loc[a].session
  /\ pc[a] \notin {"idle", "remove", "done", "failed"}
  /\ Fault
  /\ Set(a, [loc[a] EXCEPT !.session = FALSE])
  /\ UNCHANGED <<world, pc>>

Next ==
  \E a \in Actors :
    \/ ClientUpdate(a) \/ CreateTask(a) \/ CheckTkgPlus(a) \/ Diff(a)
    \/ AddPlacement(a) \/ DeleteNext(a) \/ FindVms(a) \/ TakeFromVm(a) \/ NoVmLeft(a)
    \/ RemovePolicy(a) \/ Succeed(a) \/ Fail(a)
    \/ AddSizing(a) \/ RemoveSizing(a) \/ StartRemoval(a) \/ FollowFails(a)

Spec == Init /\ [][Next]_procedureVars

-----------------------------------------------------------------------------
\* What a runtime is enabled or disabled for: a task that ended in SUCCESS has
\* changed that runtime and no other, unless another request changed the VDC
\* since, or TKG+ was hidden from the client.
OvdcAsRequested ==
  \A a \in Actors :
    pc[a] = "done" /\ ~loc[a].crossed /\ loc[a].kind \in {"enable", "disable"} =>
      LET hidden == IF world.tkgPlus THEN {} ELSE {TkgPlus}
          named  == {loc[a].named}
          wanted == IF loc[a].kind = "enable" THEN loc[a].before \cup named
                    ELSE loc[a].before \ named
      IN  world.vdc \ hidden = wanted \ hidden

\* However requests interleave and calls fail, a VM keeps a policy, and only
\* policies that its VDC has.
VmsKeepPolicy ==
  \A v \in VMs :
    LET policies == {world.vms[v].placement, world.vms[v].sizing}
    IN  policies # {Absent} /\ policies \subseteq world.vdc \cup {SystemDefault, Absent}
=============================================================================
