---------------------------- MODULE ClusterClient ----------------------------
(***************************************************************************)
(* The cluster commands of "vcd cse" and the classes of client/ behind     *)
(* them.  A command restores its session, chooses a class by the API       *)
(* version and the runtime asked for, finds the cluster by its name, which *)
(* native and TKG-S clusters of every organization may share, and then     *)
(* makes its change, which for an ACL is more than one call.  The clusters *)
(* here all have one name; an organization stands for the filters --org    *)
(* and --vdc; "native" stands for every runtime of the CSE server.  What   *)
(* the server does with a request is one step.                             *)
(***************************************************************************)
EXTENDS Procedures

CONSTANT Users

Old  == 1..2      \* the clusters that exist before the commands
New  == 3..4      \* those that the commands create
Ids  == Old \cup New
Kinds == {"native", "TKG-S"}
Orgs  == {"own", "other"}
Level == 0..3     \* none, read only, read write, full control
Acl   == [Users -> Level]
Commands   == {"info", "config", "delete", "force", "plan", "upgrade", "apply", "nfs",
          "create", "resize", "share", "unshare", "share-list"}
AclCommands == {"share", "unshare", "share-list"}

Clusters == [kind : Kinds, org : Orgs, maker : Actors \cup {Absent}, alive : BOOLEAN]

\* server: the mode of the CSE server; profile: ~/.vcd-cli/profiles.yaml
Profiles == [running : BOOLEAN, version : {"legacy", "full", Absent}]
Worlds == [cluster : [Ids -> Clusters \cup {Absent}], acl : [Ids -> Acl], before : Acl,
           server : {"down", "legacy", "full"}, profile : Profiles]

\* What the user types, and who the user is: the rights are on the entity types.
Requests == [op : Commands, runtime : Kinds \cup {Absent}, id : Ids \cup {Absent},
             org : Orgs \cup {Absent}, sysadmin : BOOLEAN, rights : SUBSET Kinds,
             users : SUBSET Users, level : Level]

\* class: the class that serves the command; org: the filter in use; denied: the
\* lookups that were refused; target: the cluster; read: its ACL as it was read;
\* todo: the entries still to be sent.  History: raw, the command was not filtered;
\* stale, an ACL was replaced that had changed since it was read; alone, no other
\* command has run meanwhile; again, the command was repeated.
Locals == [request : Requests, session : {"legacy", "full", "TKG-S", Absent},
           class : {"legacy", "native", "TKG-S", "mixed", Absent}, org : Orgs \cup {Absent},
           denied : SUBSET Kinds, target : Ids \cup {Absent}, read : Acl, todo : SUBSET Users,
           raw : BOOLEAN, stale : BOOLEAN, alone : BOOLEAN, again : BOOLEAN]

NoAcl == [u \in Users |-> 0]
Started(r) == [request |-> r, session |-> Absent, class |-> Absent, org |-> Absent,
               denied |-> {}, target |-> Absent, read |-> NoAcl, todo |-> {},
               raw |-> FALSE, stale |-> FALSE, alone |-> TRUE, again |-> FALSE]
Typed(op, runtime, id, org, sysadmin, rights, users, level) ==
  [op |-> op, runtime |-> runtime, id |-> id, org |-> org, sysadmin |-> sysadmin,
   rights |-> rights, users |-> users, level |-> level]
Nothing == Started(Typed("info", Absent, Absent, Absent, FALSE, {}, {}, 0))

TypeOK ==
  /\ world \in Worlds
  /\ loc \in [Actors -> Locals]
  /\ DOMAIN pc = Actors
  /\ faults \in 0..MaxFaults

Cluster(kind, org) == [kind |-> kind, org |-> org, maker |-> Absent, alive |-> TRUE]
World(one, two, acl, server, profile) ==
  [cluster |-> [i \in Ids |-> CASE i = 1 -> one [] i = 2 -> two [] OTHER -> Absent],
   acl |-> [i \in Ids |-> IF i \in Old THEN acl ELSE NoAcl],
   before |-> acl, server |-> server, profile |-> profile]

FirstUse == [running |-> TRUE, version |-> Absent]
Sessions == {<<"full", FirstUse>>, <<"down", FirstUse>>, <<"legacy", FirstUse>>,
             <<"full", [running |-> FALSE, version |-> Absent]>>,
             <<"legacy", [running |-> TRUE, version |-> "full"]>>}

-----------------------------------------------------------------------------
\* The commands: a tenant, or a system administrator with or without --org, gives
\* the runtime or not, the id or else the name.
Askers == {[sysadmin |-> FALSE, org |-> Absent], [sysadmin |-> TRUE, org |-> Absent],
           [sysadmin |-> TRUE, org |-> "other"]}
TypedBy(who, op, runtime, id, rights) ==
  Typed(op, runtime, id, who.org, who.sysadmin, rights, {}, 0)
Command(ops, runtimes, ids) ==
  {TypedBy(who, op, runtime, id, rights) :
     who \in Askers, op \in ops, runtime \in runtimes, id \in ids, rights \in SUBSET Kinds}
AnyRuntime == Kinds \cup {Absent}
NameOrId   == {Absent, 1}
AnyUser == CHOOSE u \in Users : TRUE
NamedBy(r, l) == [r EXCEPT !.users = {AnyUser}, !.level = l]
Named(commands, levels) == {NamedBy(r, l) : r \in commands, l \in levels}

Deletions    == Command({"delete", "force"}, AnyRuntime, NameOrId)
Creates      == Command({"create"}, {Absent}, {Absent})
Resizes      == Command({"resize"}, {Absent}, {Absent})
Applies      == Command({"apply"}, Kinds, NameOrId)
NfsDeletions == Command({"nfs"}, {Absent}, {Absent})
Plans        == Command({"plan"}, AnyRuntime, {Absent})
Upgrades     == Command({"upgrade"}, AnyRuntime, {Absent})
Configs      == Command({"config"}, AnyRuntime, NameOrId)
Infos        == Command({"info"}, AnyRuntime, NameOrId)
Shares       == Named(Command({"share"}, AnyRuntime, NameOrId), {1, 3})
ShareLists   == Command({"share-list"}, AnyRuntime, NameOrId)
Unshares     == Named(Command({"unshare"}, AnyRuntime, NameOrId), {0})

AllCommands ==
  Deletions \cup Creates \cup Resizes \cup Applies \cup NfsDeletions \cup Plans \cup Upgrades
  \cup Configs \cup Infos \cup Shares \cup ShareLists \cup Unshares

\* One command, of any kind and in any session; a share or an unshare of one user,
\* who has the access read write.  Users without a right try to delete or to share.
Begins(a, r, session, one, two) ==
  LET made(c) == IF c = Absent THEN Absent ELSE Cluster(c.kind, c.org)
  IN  /\ world = World(made(one), made(two), [NoAcl EXCEPT ![AnyUser] = 2], session[1], session[2])
      /\ Alone(a, "filter", Started(r), Nothing)
InitOne ==
  \E r \in {r \in AllCommands : r.rights = Kinds \/ (r.op \in {"delete", "share"} /\
                                r.runtime = Absent /\ r.id = Absent)} :
  \E s \in {s \in Sessions : s = <<"full", FirstUse>> \/ (~r.sysadmin /\ r.rights = Kinds)},
     one \in [kind : Kinds, org : Orgs] :
  \E two \in {Absent} \cup (IF s = <<"full", FirstUse>> THEN [kind : Kinds, org : Orgs]
                           ELSE [kind : Kinds, org : {"own"}]), a \in Actors :
    Begins(a, r, s, one, two)

\* ACLs of one cluster changed at once, by commands that have found it.
Finding(kind, op, users, level) ==
  /\ \A a \in Actors : op[a] = "unshare" => level[a] = 1
  /\ loc = [a \in Actors |->
              [Started(Typed(op[a], kind, Absent, Absent, FALSE, Kinds, users[a], level[a]))
                 EXCEPT !.session = "full", !.class = kind, !.org = "own",
                        !.target = IF kind = "native" THEN 1 ELSE 2]]
InitAcl ==
  \E acl \in [Users -> {0, 2}], kind \in Kinds :
    /\ acl[AnyUser] = 2
    /\ world = World(Cluster("native", "own"), Cluster("TKG-S", "own"), acl, "full",
                     [running |-> TRUE, version |-> "full"])
    /\ \E op \in [Actors -> {"share", "unshare"}], users \in [Actors -> SUBSET Users \ {{}}],
          level \in [Actors -> {1, 3}] : Finding(kind, op, users, level)
    /\ pc = [a \in Actors |-> "found"]

\* An apply and another command at once, on one cluster or none.
InitApply ==
  /\ pc = [a \in Actors |-> "filter"]
  /\ \E one \in {Absent} \cup {Cluster(kind, "own") : kind \in Kinds} :
       world = World(one, Absent, NoAcl, "full", FirstUse)
  /\ \E op \in [Actors -> {"apply", "delete", "upgrade"}], runtime \in [Actors -> Kinds] :
       loc = [a \in Actors |-> Started(
                Typed(op[a], runtime[a], Absent, Absent, FALSE, Kinds, {}, 0))]

Init ==
  \/ InitOne
  \/ (InitAcl \/ InitApply) /\ faults = 0

-----------------------------------------------------------------------------
\* Every step of a is one during which the other commands are not alone.
Update(a, l) ==
  loc' = [b \in Actors |->
            IF b = a THEN [l EXCEPT !.alone = @ /\ \A c \in Actors \ {a} : pc[c] = "idle"]
            ELSE loc[b]]

\* _override_client: the profile remembers the version, or that the server did not
\* answer, and neither is asked for again.
Asked(p) == p.running /\ p.version = Absent
SessionOf(p, server) ==
  IF ~p.running \/ (Asked(p) /\ server = "down") THEN "TKG-S"
  ELSE IF Asked(p) THEN server
  ELSE p.version
Saved(p, server) ==
  IF ~Asked(p) THEN p
  ELSE [running |-> server # "down", version |-> IF server = "down" THEN Absent ELSE server]

\* The commands and options that get_command removes.  API 35 has no ACLs and API 36
\* no upgrade command; "full" has both.
Hidden(session, r) ==
  \/ session = "legacy" /\ (r.op \in AclCommands \cup {"apply", "nfs"} \/ r.id # Absent
                            \/ r.runtime # Absent)
  \/ session = "full" /\ r.op \in {"create", "resize"}
  \/ session = "TKG-S" /\ r.op \in {"create", "resize", "plan", "upgrade"}

\* get_command restores the session; an exception leaves the command unfiltered.
Filter(a) ==
  /\ pc[a] = "filter"
  /\ LET session == SessionOf(world.profile, world.server)
         next == IF Hidden(session, loc[a].request) THEN "failed" ELSE "session"
     IN  \/ /\ world' = [world EXCEPT !.profile = Saved(@, world.server)]
            /\ Goto(a, next) /\ UNCHANGED faults
            /\ Update(a, [loc[a] EXCEPT !.session = session])
         \/ /\ Goto(a, "session") /\ Fault /\ UNCHANGED world
            /\ Update(a, [loc[a] EXCEPT !.raw = TRUE])

\* cse_restore_session, again in the command, but for apply: after an exception in
\* get_command it has no client, or the one of the login, whatever server there is.
Session(a) ==
  /\ pc[a] = "session" /\ loc[a].request.op # "apply"
  /\ Call(a, [world EXCEPT !.profile = Saved(@, world.server)], "choose", "failed")
  /\ Update(a, [loc[a] EXCEPT !.session = SessionOf(world.profile, world.server)])

KeepSession(a) ==
  /\ pc[a] = "session" /\ loc[a].request.op = "apply"
  /\ IF loc[a].raw
     THEN \E p \in {"choose", "failed"} :
            Step(a, p) /\ Update(a, [loc[a] EXCEPT !.session = "full"])
     ELSE Step(a, "choose") /\ Update(a, loc[a])

\* Cluster.__new__
ClassOf(session, runtime) ==
  IF session = "legacy" THEN "legacy" ELSE IF runtime = Absent THEN "mixed" ELSE runtime

\* Without the CSE server the commands know TKG-S alone and refuse its runtimes; the
\* legacy commands and delete-nfs do not look at this.
ServerNotRunning(l) == l.session = "TKG-S" /\ l.request.runtime = "native"
Runtime(l) ==
  IF l.request.op = "nfs" THEN "native"
  ELSE IF l.request.op \in {"create", "resize"} THEN Absent
  ELSE IF l.session = "TKG-S" THEN "TKG-S"
  ELSE l.request.runtime

\* What a class does not have: apply and ACLs of legacy clusters, a forced deletion
\* when the runtime is named, upgrades of TKG-S clusters, the legacy commands.
Unsupported(class, op) ==
  \/ class = "legacy" /\ op \in AclCommands \cup {"force", "apply"}
  \/ class \in Kinds /\ op = "force"
  \/ class = "TKG-S" /\ op \in {"plan", "upgrade"}
  \/ class # "legacy" /\ op \in {"create", "resize"}

\* The filter: a tenant's organization is the default; apply has one only for TKG-S,
\* and as create whoever the user is; for an ACL an administrator must name one.
TenantOrg(r)       == IF r.org = Absent /\ ~r.sysadmin THEN "own" ELSE r.org
CreateOrg(r)       == IF r.org = Absent THEN "own" ELSE r.org
ApplyOrg(r, class) == IF class # "TKG-S" THEN Absent ELSE CreateOrg(r)
OrgMissing(r)      == r.op \in AclCommands /\ r.sysadmin /\ r.org = Absent

Choose(a) ==
  /\ pc[a] = "choose"
  /\ LET l == loc[a]
         r == l.request
         class == IF r.op = "nfs" THEN "native" ELSE ClassOf(l.session, Runtime(l))
         filter == CASE r.op = "apply" -> ApplyOrg(r, class)
                     [] r.op = "create" -> CreateOrg(r)
                     [] OTHER -> TenantOrg(r)
         next == IF ServerNotRunning(l) \/ OrgMissing(r) \/ Unsupported(class, r.op) THEN "failed"
                 ELSE IF class = "legacy" THEN "legacy"
                 ELSE IF r.id # Absent THEN IF class = "mixed" THEN "kind" ELSE "found"
                 ELSE IF class = "TKG-S" THEN "tkg" ELSE "native"
     IN  /\ Update(a, [l EXCEPT !.class = class, !.org = filter, !.target = r.id])
         /\ Step(a, next)

Live(i) == world.cluster[i] # Absent /\ world.cluster[i].alive

\* The clusters that a search shows the user: those of the organization in the
\* filter, if there is one, and of the user's own unless it is the system's.
Shown(l, i, kind) ==
  /\ Live(i)
  /\ LET c == world.cluster[i]
     IN  /\ c.kind = kind /\ kind \in l.request.rights
         /\ l.request.sysadmin \/ c.org = "own"
         /\ l.org \in {Absent, c.org}
Search(l, kind) == {i \in Ids : Shown(l, i, kind)}

\* is_native_entity
KindById(a) ==
  /\ pc[a] = "kind"
  /\ LET i == loc[a].target
     IN  IF Live(i)
         THEN LET kind == world.cluster[i].kind
              IN  Update(a, [loc[a] EXCEPT !.class = kind]) /\ Query(a, "found", "failed")
         ELSE Step(a, "failed") /\ Update(a, loc[a])

\* get_native_rde_by_name_and_rde_version: the first of those found.  Only
\* DECluster goes on without the right, or with no cluster, to the TKG-S clusters.
FindNative(a) ==
  /\ pc[a] = "native"
  /\ LET l == loc[a]
         ids == Search(l, "native")
         denied == "native" \notin l.request.rights
         next == IF l.class = "mixed" THEN "tkg"
                 ELSE IF denied THEN "failed"
                 ELSE IF ids # {} THEN "found"
                 ELSE IF l.request.op = "apply" THEN "create" ELSE "failed"
     IN  /\ Query(a, next, "failed")
         /\ \E i \in IF ids = {} THEN {Absent} ELSE ids :
              Update(a, [l EXCEPT !.target = i,
                                  !.denied = @ \cup IF denied THEN {"native"} ELSE {}])

\* What get_tkg_s_clusters_by_name finds, when that is one cluster or none, for
\* DEClusterTKGS itself.
NextTkgS(l, ids, denied) ==
  IF "TKG-S" \in denied THEN "failed"
  ELSE IF ids # {} THEN "found"
  ELSE IF l.request.op = "apply" THEN "create" ELSE "failed"

\* _get_tkg_s_and_native_clusters_by_name: one cluster of either kind; an ACL is
\* then changed by the class of the kind, which searches again.
NextMixed(l, ids, denied) ==
  LET native == l.target # Absent
  IN  IF denied = Kinds \/ (native <=> ids # {}) THEN "failed"
      ELSE IF l.request.op \in AclCommands THEN IF native THEN "native" ELSE "tkg"
      ELSE IF ~native /\ l.request.op \in {"plan", "upgrade"} THEN "failed" ELSE "found"

\* get_tkg_s_clusters_by_name and what is done with its answer.
FindTkgS(a) ==
  /\ pc[a] = "tkg"
  /\ LET l == loc[a]
         ids == Search(l, "TKG-S")
         denied == l.denied \cup ({"TKG-S"} \ l.request.rights)
         mixed == l.class = "mixed"
         next == IF \E i, j \in ids : i # j THEN "failed"
                 ELSE IF mixed THEN NextMixed(l, ids, denied) ELSE NextTkgS(l, ids, denied)
         class == IF mixed THEN (IF ids = {} THEN "native" ELSE "TKG-S") ELSE "TKG-S"
     IN  /\ Query(a, next, "failed")
         /\ \E i \in IF ids = {} THEN {l.target} ELSE ids :
              Update(a, [l EXCEPT !.target = i, !.denied = denied, !.class = class])

\* The legacy server looks the name up itself, and refuses a second such cluster;
\* an id is not sent.
Legacy(a) ==
  /\ pc[a] = "legacy" /\ loc[a].request.op # "create"
  /\ LET l == loc[a]
         ids == Search(l, "native")
         served == world.server = "legacy" /\ l.request.id = Absent /\ \E i \in Ids : ids = {i}
     IN  IF served
         THEN \E i \in ids :
                /\ Update(a, [l EXCEPT !.target = i])
                /\ Call(a, IF l.request.op = "delete" THEN [world EXCEPT !.cluster[i].alive = FALSE]
                           ELSE world, "done", "failed")
         ELSE Step(a, "failed") /\ Update(a, l)

-----------------------------------------------------------------------------
\* The API of the class, the CSE server's or that of TKG-S, knows the cluster.
Serves(class, i) ==
  /\ Live(i)
  /\ world.cluster[i].kind = class
  /\ class = "native" => world.server = "full"

\* The request of an operation with the id that was found: it changes the world to w
\* if it is served.
Request(a, class, op, served, w) ==
  /\ pc[a] = "found" /\ loc[a].class = class /\ loc[a].request.op = op
  /\ IF served THEN Call(a, w, "done", "failed") ELSE Step(a, "failed")
  /\ Update(a, loc[a])
Gone(i) == [world EXCEPT !.cluster[i].alive = FALSE]

\* The entity itself is read; its kind is not looked at.
InfoNative(a, i)   == Request(a, "native", "info", Live(i), world)
InfoTkgS(a, i)     == Request(a, "TKG-S", "info", Serves("TKG-S", i), world)
ConfigNative(a, i) == Request(a, "native", "config", Serves("native", i), world)
ConfigTkgS(a, i)   == Request(a, "TKG-S", "config", Serves("TKG-S", i), world)
PlanNative(a, i)   == Request(a, "native", "plan", Serves("native", i), world)
NfsNative(a, i)    == Request(a, "native", "nfs", Serves("native", i), world)
UpgradeNative(a, i) == Request(a, "native", "upgrade", Serves("native", i), world)
DeleteNative(a, i) == Request(a, "native", "delete", Serves("native", i), Gone(i))
DeleteTkgS(a, i)   == Request(a, "TKG-S", "delete", Serves("TKG-S", i), Gone(i))
ForceNative(a, i)  == Request(a, "native", "force", Serves("native", i), Gone(i))
ForceTkgS(a, i)    == Request(a, "TKG-S", "force", Serves("TKG-S", i), Gone(i))

\* apply of a cluster that was found (the resource version that refuses an update of
\* a TKG-S cluster which has changed meanwhile is left out).
UpdateNative(a, i) == Request(a, "native", "apply", Serves("native", i), world)
UpdateTkgS(a, i)   == Request(a, "TKG-S", "apply", Serves("TKG-S", i), world)

\* The pages of an ACL, from the CSE server or from vCD.
ListNative(a, i)   == Request(a, "native", "share-list", Serves("native", i), world)
ListTkgS(a, i)     == Request(a, "TKG-S", "share-list", Live(i), world)

Act(a) ==
  LET i == loc[a].target
  IN  \/ InfoNative(a, i) \/ InfoTkgS(a, i) \/ ConfigNative(a, i) \/ ConfigTkgS(a, i)
      \/ PlanNative(a, i) \/ NfsNative(a, i) \/ UpgradeNative(a, i)
      \/ DeleteNative(a, i) \/ DeleteTkgS(a, i) \/ ForceNative(a, i) \/ ForceTkgS(a, i)
      \/ UpdateNative(a, i) \/ UpdateTkgS(a, i) \/ ListNative(a, i) \/ ListTkgS(a, i)

\* create_cluster, create_tkg_cluster_with_http_info, and the legacy create_cluster,
\* whose server refuses a name that is in use.
Create(a) ==
  /\ pc[a] = "create" \/ (pc[a] = "legacy" /\ loc[a].request.op = "create")
  /\ LET l == loc[a]
         class == IF l.class = "legacy" THEN "native" ELSE l.class
         free == {i \in New : world.cluster[i] = Absent}
         made == [kind |-> class, maker |-> a, alive |-> TRUE,
                  org |-> IF l.org = Absent THEN "own" ELSE l.org]
         refused == CASE l.class = "native" -> world.server # "full"
                      [] l.class = "legacy" -> world.server # "legacy" \/ Search(l, "native") # {}
                      [] OTHER -> FALSE
     IN  IF refused
         THEN Step(a, "failed") /\ Update(a, l)
         ELSE \E i \in free :
                /\ \A j \in free : i <= j
                /\ Call(a, [world EXCEPT !.cluster[i] = made], "done", "failed")
                /\ Update(a, [l EXCEPT !.target = i])

\* create_user_name_to_id_dict, in the organization: unknown users are refused.
\* unshare of a native cluster goes by the names in the ACL.
FindUsers(a) ==
  /\ pc[a] = "found"
  /\ loc[a].request.op \in {"share", "unshare"}
  /\ \/ Query(a, "acl", "failed")
     \/ /\ loc[a].class # "native" \/ loc[a].request.op = "share"
        /\ Step(a, "failed")
  /\ Update(a, loc[a])

\* access_level_reduced
access_level_reduced(new, curr) == (curr = 3 /\ new # 3) \/ (curr = 2 /\ new = 1)

\* The ACL is read, by the CSE server or, for DEClusterTKGS, by vCD, which knows
\* the entity of a native cluster too.
ReadAcl(a) ==
  /\ pc[a] = "acl"
  /\ LET l == loc[a]
         r == l.request
         acl == world.acl[l.target]
         refused == IF r.op = "share"
                    THEN \E u \in r.users : access_level_reduced(r.level, acl[u])
                    ELSE \E u \in r.users : acl[u] = 0
         next == IF refused THEN "failed" ELSE IF l.class = "native" THEN "put" ELSE "entries"
     IN  /\ IF Serves(l.class, l.target) \/ (l.class = "TKG-S" /\ Live(l.target))
            THEN Query(a, next, "failed") ELSE Step(a, "failed")
         /\ Update(a, [l EXCEPT !.read = acl, !.todo = r.users])

\* Variant: the entries of the other users are not sent.
NamedEntries(r, read) ==
  [u \in Users |-> IF u \in r.users /\ r.op = "share" THEN r.level ELSE 0]

\* update_acl_entries: the whole list, with the entries that were read.
Entries(r, read) ==
  [u \in Users |-> IF u \notin r.users THEN read[u]
                   ELSE IF r.op = "share" THEN r.level ELSE 0]

\* put_cluster_acl replaces the ACL by the entries.
PutAcl(a) ==
  /\ pc[a] = "put"
  /\ LET l == loc[a]
         i == l.target
     IN  /\ IF Serves(l.class, i)
            THEN Call(a, [world EXCEPT !.acl[i] = Entries(l.request, l.read)], "done", "failed")
            ELSE Step(a, "failed")
         /\ Update(a, [l EXCEPT !.stale = @ \/ world.acl[i] # l.read])

\* share_def_entity or unshare_def_entity, user by user; an entry that is gone
\* cannot be deleted.
PutEntry(a) ==
  /\ pc[a] = "entries"
  /\ LET l == loc[a]
         i == l.target
     IN  \E u \in l.todo :
           /\ Update(a, [l EXCEPT !.todo = @ \ {u}])
           /\ IF Live(i) /\ (l.request.op = "share" \/ world.acl[i][u] # 0)
              THEN Call(a, [world EXCEPT !.acl[i][u] = l.request.level *
                                                       (IF l.request.op = "share" THEN 1 ELSE 0)],
                        "entries", "failed")
              ELSE Step(a, "failed")

EntriesPut(a) ==
  /\ pc[a] = "entries"
  /\ loc[a].todo = {}
  /\ Step(a, "done")
  /\ Update(a, loc[a])

\* The user repeats a command that a failed call has ended.
Again(a) ==
  /\ pc[a] = "failed" /\ faults > 0 /\ ~loc[a].again
  /\ Step(a, "filter")
  /\ Update(a, [Started(loc[a].request) EXCEPT !.again = TRUE, !.raw = loc[a].raw,
                                               !.stale = loc[a].stale, !.alone = loc[a].alone])

Next ==
  \E a \in Actors :
    \/ Filter(a) \/ Session(a) \/ KeepSession(a) \/ Choose(a) \/ KindById(a) \/ FindNative(a) \/ FindTkgS(a) \/ Legacy(a)
    \/ Act(a) \/ Create(a) \/ FindUsers(a) \/ ReadAcl(a) \/ PutAcl(a) \/ PutEntry(a)
    \/ EntriesPut(a) \/ Again(a)

Spec == Init /\ [][Next]_procedureVars

-----------------------------------------------------------------------------
Done(a)  == pc[a] = "done"
ByName(a) == loc[a].request.id = Absent

\* A command acts on the cluster of its id, or on one with its name, the runtime
\* that was asked for and the organization that was asked for or is the user's;
\* apply of native clusters has no such filter, so that a system administrator's
\* acts on whichever is first, and legacy clients ignore a runtime that was not
\* filtered out.  A client that believes the CSE server down acts on TKG-S clusters
\* only, but for delete-nfs, which is not hidden then.
ActsOnItsCluster ==
  \A a \in Actors : Done(a) =>
    LET r == loc[a].request
        i == loc[a].target
        c == world.cluster[i]
    IN  IF ByName(a)
        THEN /\ r.runtime \in {Absent, c.kind} \/ (loc[a].class = "legacy" /\ loc[a].raw)
             /\ loc[a].session = "TKG-S" => c.kind = "TKG-S" \/ r.op = "nfs"
             /\ r.sysadmin \/ c.org = "own"
             /\ r.org \in {Absent, c.org} \/ (r.op = "apply" /\ c.kind = "native")
        ELSE i = r.id

\* No command takes one of several clusters that its name and filters fit and its
\* user may see, unless both are native, whose names are thought to be unique; of
\* these a legacy server takes none either.
NoGuess ==
  \A a \in Actors : Done(a) /\ ByName(a) =>
    LET l == loc[a]
        taken == world.cluster[l.target].kind
        kinds == IF l.session = "full" /\ Runtime(l) = Absent THEN Kinds ELSE {taken}
    IN  \A kind \in kinds : \A j \in (Old \ {l.target}) \cap Search(l, kind) :
          l.class = "native" /\ kind = "native" /\ taken = "native"

\* apply creates a cluster only if there is none of the kind that it could see, and
\* however often it is repeated leaves one.
CreatesOnce ==
  /\ \A a \in Actors : Done(a) /\ loc[a].target \in New =>
       LET c == world.cluster[loc[a].target]
       IN  c.maker = a => Search(loc[a], c.kind) \cap Old = {}
  /\ \A i, j \in New :
       Live(i) /\ Live(j) /\ world.cluster[i].maker = world.cluster[j].maker => i = j

\* A share or an unshare that succeeded gave its users the access asked for, unless
\* another command named the same users, or replaced a native ACL with one that
\* it had read before; other users keep theirs; and no share lowers an access, unless
\* another command raised it meanwhile.
AclAsAsked ==
  /\ \A a \in Actors :
       LET r == loc[a].request
           i == loc[a].target
       IN  Done(a) /\ r.op \in {"share", "unshare"} =>
             /\ \A u \in r.users :
                  \/ world.acl[i][u] = IF r.op = "share" THEN r.level ELSE 0
                  \/ \E b \in Actors \ {a} : u \in loc[b].request.users \/ loc[b].stale
             /\ r.op = "share" /\ loc[a].alone =>
                  \A u \in r.users : world.before[u] <= r.level
  /\ \A i \in Old, u \in Users :
       (\A a \in Actors : u \notin loc[a].request.users) => world.acl[i][u] = world.before[u]

ClientsActAsAsked == ActsOnItsCluster /\ NoGuess /\ CreatesOnce /\ AclAsAsked
=============================================================================
