---------------------------- MODULE NetworkExpose ----------------------------
(***************************************************************************)
(* The exposure of clusters to external networks: expose_cluster and       *)
(* handle_delete_expose_dnat_rule (network_expose_helper.py), by           *)
(* NsxtBackedGatewayService (lib/nsxt).  An external address is looked for *)
(* in the ranges of the gateway, then a DNAT rule with it is created,      *)
(* again if the gateway is busy; a rule is found by its name to be         *)
(* deleted.  Here an actor is a cluster: its rule has its name.            *)
(***************************************************************************)
EXTENDS Procedures, Integers, Sequences

CONSTANTS
  Ranges,      \* the IP ranges of the gateway: a sequence of <<start, end>>
  MaxRetries   \* num_retry_if_gateway_busy

RangeSet(range) == range[1]..range[2]
Addresses == UNION {RangeSet(Ranges[i]) : i \in DOMAIN Ranges}
Rules     == [name : Actors, ip : Addresses]

Used == {r.ip : r \in world}

\* ip: the address found; tries: retry_attempt_count; swallowed: a DELETE failed
\* and was only logged; crossed: history, another cluster created its rule after
\* this one had looked for an address.
Locals == [op : {"expose", "unexpose"}, ip : Addresses \cup {Absent},
           tries : 0..(MaxRetries + 1), swallowed : BOOLEAN, crossed : BOOLEAN]

TypeOK ==
  /\ world \in SUBSET Rules
  /\ loc \in [Actors -> Locals]
  /\ DOMAIN pc = Actors
  /\ faults \in 0..MaxFaults

Init ==
  /\ \E exposed \in SUBSET Actors, ip \in [Actors -> Addresses] :
       /\ \A a, b \in exposed : ip[a] = ip[b] => a = b
       /\ world = {[name |-> a, ip |-> ip[a]] : a \in exposed}
       /\ loc = [a \in Actors |->
                   [op |-> IF a \in exposed THEN "unexpose" ELSE "expose", ip |-> Absent,
                    tries |-> 0, swallowed |-> FALSE, crossed |-> FALSE]]
  /\ pc = [a \in Actors |-> "gateway"]
  /\ faults = 0

-----------------------------------------------------------------------------
\* _get_gateway: the routed network of that name in the organization, which must
\* be the only one and backed by NSX-T.
GetGateway(a) ==
  /\ pc[a] = "gateway"
  /\ LET next == IF loc[a].op = "expose" THEN "lookup" ELSE "find"
     IN  \E p \in {next, "failed"} : Step(a, p)
  /\ UNCHANGED loc

\* Variant: the addresses in use are not left out.
any_ip(range, used) == RangeSet(range)

\* _get_available_ip_in_ip_ranges, for one range.
available_ip(range, used) == RangeSet(range) \ used

\* get_available_ip: the first free address of the first range that has one.
get_available_ip(used) ==
  LET free(i) == available_ip(Ranges[i], used)
      with    == {i \in DOMAIN Ranges : free(i) # {}}
      first   == CHOOSE i \in with : \A j \in with : i <= j
  IN  IF with = {} THEN Absent
      ELSE CHOOSE ip \in free(first) : \A other \in free(first) : ip <= other

LookUp(a) ==
  /\ pc[a] = "lookup"
  /\ LET ip == get_available_ip(Used)
     IN  /\ Query(a, IF ip = Absent THEN "failed" ELSE "add", "failed")
         /\ Set(a, [loc[a] EXCEPT !.ip = ip])

\* The POST of add_dnat_rule, and the wait for its task.
AddRule(a) ==
  /\ pc[a] = "add"
  /\ Call(a, world \cup {[name |-> a, ip |-> loc[a].ip]}, "done", "failed")
  /\ loc' = [b \in Actors |->
               [loc[b] EXCEPT !.crossed = @ \/ (b # a /\ pc[b] = "add")]]

\* 400: the gateway is busy.
GatewayBusy(a) ==
  /\ pc[a] = "add"
  /\ Set(a, [loc[a] EXCEPT !.tries = @ + 1])
  /\ Step(a, IF loc[a].tries + 1 <= MaxRetries THEN "add" ELSE "failed")

\* _get_dnat_rule_id
FindRule(a) ==
  /\ pc[a] = "find"
  /\ Query(a, IF \E r \in world : r.name = a THEN "delete" ELSE "failed", "failed")
  /\ UNCHANGED loc

\* delete_dnat_rule logs the failure of the DELETE or of its task.
DeleteRule(a) ==
  /\ pc[a] = "delete"
  /\ LET left == {r \in world : r.name # a}
     IN  \/ world' = left /\ UNCHANGED <<faults, loc>>
         \/ /\ world' \in {world, left} /\ Fault
            /\ Set(a, [loc[a] EXCEPT !.swallowed = TRUE])
  /\ Goto(a, "done")

Next ==
  \E a \in Actors :
    \/ GetGateway(a) \/ LookUp(a) \/ AddRule(a) \/ GatewayBusy(a)
    \/ FindRule(a) \/ DeleteRule(a)

Spec == Init /\ [][Next]_procedureVars

-----------------------------------------------------------------------------
\* Two rules never share an external address, unless one was created while the
\* other cluster was between its look-up and its own rule; and however often the
\* gateway is busy, a cluster has one rule at most.
RulesDiffer ==
  \A r, s \in world :
    /\ r.ip = s.ip /\ r # s => loc[r.name].crossed \/ loc[s.name].crossed
    /\ r.name = s.name => r = s

\* An exposure that succeeded has its rule, with the address it returned; a rule
\* whose deletion was reported is gone, unless the DELETE failed.
ExposureIsTrue ==
  \A a \in Actors : pc[a] = "done" =>
    IF loc[a].op = "expose" THEN [name |-> a, ip |-> loc[a].ip] \in world
    ELSE loc[a].swallowed \/ \A r \in world : r.name # a
=============================================================================
