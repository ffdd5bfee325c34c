----------------------------- MODULE PksClusters -----------------------------
(***************************************************************************)
(* Clusters of Enterprise PKS: the handlers (pks_cluster_handler.py,       *)
(* pks_ovdc_handler.py), the broker (pksbroker.py) and the isolation of a  *)
(* cluster in NSX-T (lib/nsxt).  PKS keeps the clusters, under the name    *)
(* the user gave with his id appended, and deletes one after it answered.  *)
(* The groups and the firewall section that isolate a cluster are known    *)
(* by its name too; the groups select its nodes by its id.                 *)
(***************************************************************************)
EXTENDS Procedures, Sequences

CONSTANTS
  Names,    \* names that users give
  Users,    \* users of an organization
  Admins,   \* those with its administrator's rights
  MaxIds,       \* bound on the clusters PKS creates
  MaxRequests   \* bound on the requests after the first of each actor

Kinds == {"nodes", "pods", "nodes_pods"}
Keys  == {"account", "compute profile"}   \* of get_pks_keys
Base  == <<"node IP set", "pod IP set", "all nodes and pods", "top section", "bottom section">>
Rules == {"RULE2_NAME", "RULE3_NAME"}

Qualified == [name : Names, user : Users]       \* _append_user_id
Clusters  == [q : Qualified, id : 1..MaxIds, doomed : BOOLEAN]
Groups    == [kind : Kinds, q : Qualified, id : 1..MaxIds]
Sections  == [q : Qualified, id : 1..MaxIds, rules : SUBSET Rules]

\* q: the qualified name; id: the cluster made; left: what remains to be made or
\* removed.  History: crossed, a cluster of the name was made since its search.
Locals == [op : {"create", "delete", "resize", "enable", "disable", "setup"}, user : Users,
           name : Names, q : Qualified, id : 0..MaxIds,
           left : SUBSET (Kinds \cup Keys), crossed : BOOLEAN]

\* base: how much of Base cse install has made in NSX-T; provider, keys, profile: of
\* the VDC; used: ids given; requests: those after the first.  History: stale, names
\* that had an isolation left when their cluster was made; raced, names made anew
\* while an isolation was still being made or removed; blind, names created after a
\* search that failed or was crossed.
TypeOK ==
  /\ world.clusters \subseteq Clusters
  /\ world.groups \subseteq Groups
  /\ world.sections \subseteq Sections
  /\ world.base \in 0..Len(Base)
  /\ world.provider \in {"NONE", "PKS"} /\ world.keys \subseteq Keys
  /\ world.profile \in BOOLEAN
  /\ {world.stale, world.raced} \subseteq SUBSET Qualified /\ world.blind \subseteq Names
  /\ world.used \in 0..MaxIds /\ world.requests \in 0..MaxRequests
  /\ loc \in [Actors -> Locals]
  /\ DOMAIN pc = Actors
  /\ faults \in 0..MaxFaults

Init ==
  /\ \E ready \in BOOLEAN :
       world = [clusters |-> {}, groups |-> {}, sections |-> {},
                base |-> IF ready THEN Len(Base) ELSE 0,
                provider |-> IF ready THEN "PKS" ELSE "NONE",
                keys |-> IF ready THEN Keys ELSE {}, profile |-> ready,
                stale |-> {}, raced |-> {}, blind |-> {}, used |-> 0, requests |-> 0]
  /\ \E op \in [Actors -> {"create", "setup", "enable"}], user \in [Actors -> Users],
        name \in [Actors -> Names] :
       /\ loc = [a \in Actors |->
                   [op |-> op[a], user |-> user[a], name |-> name[a],
                    q |-> [name |-> name[a], user |-> user[a]], id |-> 0, left |-> {},
                    crossed |-> FALSE]]
       /\ pc = op
  /\ faults = 0

Cluster(q) == {c \in world.clusters : c.q = q}
Named(n)   == {c \in world.clusters : c.q.name = n}
Refused(a) == Step(a, "failed") /\ UNCHANGED loc

\* get_ovdc_k8s_provider_metadata fails on a VDC that lacks a key.
Usable == world.provider = "PKS" /\ world.keys = Keys

-----------------------------------------------------------------------------
\* Variant: only the user's own clusters are searched.
SearchOwn(a) ==
  /\ pc[a] = "create"
  /\ Step(a, IF Cluster(loc[a].q) = {} THEN "add" ELSE "failed")
  /\ UNCHANGED loc

\* cluster_create: the search of the organization's clusters, in which a server that
\* fails has no cluster of the name.
SearchFree(a) ==
  /\ pc[a] = "create"
  /\ \/ /\ Named(loc[a].name) = {}
        /\ Step(a, "add")
     \/ /\ Named(loc[a].name) # {}
        /\ Step(a, "failed")
     \/ /\ Fault
        /\ world' = [world EXCEPT !.blind = @ \cup {loc[a].name}]
        /\ Goto(a, "add")
  /\ UNCHANGED loc

\* The isolation of an earlier cluster of that name is still being made or removed.
Isolating(q) ==
  \E a \in Actors :
    /\ loc[a].q = q
    /\ pc[a] \in {"groups", "section", "new section", "rule 2", "rule 3",
                  "remove section", "remove groups"}

\* PKS refuses a name that it has.
AddCluster(a) ==
  /\ pc[a] = "add"
  /\ LET q  == loc[a].q
         id == world.used + 1
         If(condition, set, e) == IF condition THEN set \cup {e} ELSE set
     IN  IF ~Usable \/ Cluster(q) # {} \/ id > MaxIds THEN Refused(a)
         ELSE /\ Call(a, [world EXCEPT
                           !.clusters = @ \cup {[q |-> q, id |-> id, doomed |-> FALSE]},
                           !.used  = id,
                           !.stale = If(\E s \in world.sections : s.q = q, @, q),
                           !.raced = If(Isolating(q), @, q),
                           !.blind = If(loc[a].crossed, @, q.name)],
                      "groups", "failed")
              /\ loc' = [b \in Actors |->
                   IF b = a THEN [loc[a] EXCEPT !.id = id, !.left = Kinds]
                   ELSE [loc[b] EXCEPT !.crossed = @ \/ (pc[b] = "add" /\ loc[b].name = q.name)]]

\* isolate_cluster: the groups, each after the one of that name is deleted; the last
\* has the others as its members.
MakeGroup(a) ==
  /\ pc[a] = "groups"
  /\ \E kind \in loc[a].left :
       LET others == {g \in world.groups : g.kind # kind \/ g.q # loc[a].q}
           new    == [kind |-> kind, q |-> loc[a].q, id |-> loc[a].id]
       IN  /\ kind = "nodes" \/ "nodes" \notin loc[a].left
           /\ kind = "nodes_pods" => loc[a].left = {kind}
           /\ \/ Call(a, [world EXCEPT !.groups = others \cup {new}],
                      IF loc[a].left = {kind} THEN "section" ELSE "groups", "failed")
              \/ world' = [world EXCEPT !.groups = others] /\ Goto(a, "failed") /\ Fault
           /\ Set(a, [loc[a] EXCEPT !.left = @ \ {kind}])

\* Variant: the section of the name is used again.
ReuseSection(a) ==
  /\ pc[a] = "section"
  /\ IF \E s \in world.sections : s.q = loc[a].q THEN Step(a, "done")
     ELSE Step(a, "new section")
  /\ UNCHANGED loc

\* The section, after the one of that name is deleted.
DropSection(a) ==
  /\ pc[a] = "section"
  /\ Call(a, [world EXCEPT !.sections = {s \in @ : s.q # loc[a].q}, !.stale = @ \ {loc[a].q}],
          "new section", "failed")
  /\ UNCHANGED loc

NewSection(a) ==
  /\ pc[a] = "new section"
  /\ IF world.base = Len(Base)
     THEN Call(a, [world EXCEPT !.sections =
                     @ \cup {[q |-> loc[a].q, id |-> loc[a].id, rules |-> {}]}], "rule 2", "failed")
     ELSE Step(a, "failed")
  /\ UNCHANGED loc

AddRule(a, rule, next) ==
  LET mine == {s \in world.sections : s.q = loc[a].q /\ s.id = loc[a].id}
  IN  IF mine = {} THEN Refused(a)
      ELSE /\ Call(a, [world EXCEPT !.sections =
                         {IF s \in mine THEN [s EXCEPT !.rules = @ \cup {rule}] ELSE s : s \in @}],
                   next, "failed")
           /\ UNCHANGED loc

AllowRule(a) == pc[a] = "rule 2" /\ AddRule(a, "RULE2_NAME", "rule 3")
BlockRule(a) == pc[a] = "rule 3" /\ AddRule(a, "RULE3_NAME", "done")

-----------------------------------------------------------------------------
\* is_cluster_isolated goes by the names of the section and its rules.
is_cluster_isolated(q) == \E s \in world.sections : s.q = q /\ s.rules = Rules

\* _get_cluster_info: an administrator's cluster is found by its name, if it is the
\* only one; another user's by the qualified name.
Find(a, next) ==
  LET found == IF loc[a].user \in Admins THEN Named(loc[a].name) ELSE Cluster(loc[a].q)
  IN  IF Cardinality(found) # 1 THEN Refused(a)
      ELSE \E c \in found :
             Query(a, next, "failed") /\ Set(a, [loc[a] EXCEPT !.q = c.q])

\* resize_cluster and get_cluster_config, which change nothing here.
FindToUse(a)  == pc[a] = "resize" /\ Find(a, "check")
UseCluster(a) ==
  /\ pc[a] = "check"
  /\ Query(a, IF is_cluster_isolated(loc[a].q) /\ Cluster(loc[a].q) # {} THEN "done" ELSE "failed",
           "failed")
  /\ UNCHANGED loc

FindToDelete(a) == pc[a] = "delete" /\ Find(a, "ask")

\* delete_cluster: PKS accepts, then the isolation is removed.
AskDelete(a) ==
  /\ pc[a] = "ask"
  /\ IF Cluster(loc[a].q) = {} THEN Refused(a)
     ELSE /\ Call(a, [world EXCEPT !.clusters =
                        {IF c.q = loc[a].q THEN [c EXCEPT !.doomed = TRUE] ELSE c : c \in @}],
                  "remove section", "failed")
          /\ Set(a, [loc[a] EXCEPT !.left = Kinds])

\* An exception in remove_cluster_isolation is ignored.
RemoveSection(a) ==
  /\ pc[a] = "remove section"
  /\ Call(a, [world EXCEPT !.sections = {s \in @ : s.q # loc[a].q}], "remove groups", "done")
  /\ UNCHANGED loc

RemoveGroup(a) ==
  /\ pc[a] = "remove groups"
  /\ \E kind \in loc[a].left :
       /\ kind = "nodes_pods" \/ "nodes_pods" \notin loc[a].left
       /\ kind = "pods" => loc[a].left = {kind}
       /\ Call(a, [world EXCEPT !.groups = {g \in @ : g.kind # kind \/ g.q # loc[a].q}],
               IF loc[a].left = {kind} THEN "done" ELSE "remove groups", "done")
       /\ Set(a, [loc[a] EXCEPT !.left = @ \ {kind}])

\* PKS ends the deletion it accepted.
PksDeletes ==
  /\ \E c \in world.clusters :
       c.doomed /\ world' = [world EXCEPT !.clusters = @ \ {c}]
  /\ UNCHANGED <<loc, pc, faults>>

-----------------------------------------------------------------------------
\* ovdc_update: a VDC that has the metadata of PKS is read first; the compute
\* profile, which may exist, then the metadata in one call.
Enable(a) ==
  /\ pc[a] = "enable"
  /\ Query(a, IF world.provider = "PKS" /\ ~Usable THEN "failed" ELSE "profile", "failed")
  /\ UNCHANGED loc

CreateProfile(a) ==
  /\ pc[a] = "profile"
  /\ Call(a, [world EXCEPT !.profile = TRUE], "metadata", "failed")
  /\ UNCHANGED loc

SetMetadata(a) ==
  /\ pc[a] = "metadata"
  /\ Call(a, [world EXCEPT !.provider = "PKS", !.keys = Keys], "done", "failed")
  /\ UNCHANGED loc

\* The keys that were there are removed one by one, then the provider.
Disable(a) ==
  /\ pc[a] = "disable"
  /\ Query(a, "keys", "failed")
  /\ Set(a, [loc[a] EXCEPT !.left = world.keys])

RemoveKey(a) ==
  /\ pc[a] = "keys"
  /\ \E key \in loc[a].left :
       /\ IF key \notin world.keys THEN Step(a, "failed")
          ELSE Call(a, [world EXCEPT !.keys = @ \ {key}], "keys", "failed")
       /\ Set(a, [loc[a] EXCEPT !.left = @ \ {key}])

ClearProvider(a) ==
  /\ pc[a] = "keys" /\ loc[a].left = {}
  /\ Call(a, [world EXCEPT !.provider = "NONE"], "done", "failed")
  /\ UNCHANGED loc

\* setup_nsxt_constructs of cse install: what is missing is created, in this order.
Setup(a) ==
  /\ pc[a] = "setup"
  /\ IF world.base = Len(Base) THEN Step(a, "done")
     ELSE Call(a, [world EXCEPT !.base = @ + 1], "setup", "failed")
  /\ UNCHANGED loc

\* The next request, of any user.
Again(a) ==
  /\ pc[a] \in {"done", "failed"}
  /\ world.requests < MaxRequests
  /\ \E op \in {"create", "delete", "resize", "disable"}, user \in Users, name \in Names :
       /\ op = "disable" => user \in Admins
       /\ IF op = "create" THEN world.used < MaxIds ELSE world.used > 0
       /\ Set(a, [op |-> op, user |-> user, name |-> name,
                  q |-> [name |-> name, user |-> user], id |-> 0, left |-> {},
                  crossed |-> FALSE])
       /\ Goto(a, op)
  /\ world' = [world EXCEPT !.requests = @ + 1]
  /\ UNCHANGED faults

Next ==
  \/ \E a \in Actors :
       \/ SearchFree(a) \/ AddCluster(a) \/ MakeGroup(a) \/ DropSection(a) \/ NewSection(a)
       \/ AllowRule(a) \/ BlockRule(a) \/ FindToUse(a) \/ UseCluster(a)
       \/ FindToDelete(a) \/ AskDelete(a) \/ RemoveSection(a) \/ RemoveGroup(a)
       \/ Enable(a) \/ CreateProfile(a) \/ SetMetadata(a)
       \/ Disable(a) \/ RemoveKey(a) \/ ClearProvider(a)
       \/ Setup(a) \/ Again(a)
  \/ PksDeletes

Spec == Init /\ [][Next]_procedureVars

-----------------------------------------------------------------------------
\* The rules of the cluster's section are about its own groups, which select its
\* nodes, and keep them from the nodes of all others.
Isolated(c) ==
  /\ \E s \in world.sections : s.q = c.q /\ s.id = c.id /\ s.rules = Rules
  /\ \A kind \in Kinds : \E g \in world.groups : g.q = c.q /\ g.id = c.id /\ g.kind = kind
  /\ world.base = Len(Base)

\* A cluster that resize and config accept is isolated: the names they go by do not
\* mislead them, unless the isolation of an earlier cluster was left, until the new
\* section replaces it, or was still being removed.  The same goes for a cluster
\* whose creation was reported.
AcceptedIsIsolated ==
  \A c \in world.clusters : ~c.doomed /\ c.q \notin world.raced =>
    /\ is_cluster_isolated(c.q) => Isolated(c) \/ c.q \in world.stale
    /\ \A a \in Actors : loc[a].op = "create" /\ pc[a] = "done" /\ loc[a].id = c.id => Isolated(c)

\* Two clusters of an organization have different names, so that its administrator
\* can use and delete them, unless the search failed or another creation crossed it;
\* and each has a compute profile to be placed by.
NamesDiffer ==
  /\ \A c, d \in world.clusters :
       c.q.name = d.q.name /\ c # d => c.doomed \/ d.doomed \/ c.q.name \in world.blind
  /\ Usable => world.profile
=============================================================================
