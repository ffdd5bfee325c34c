------------------------------- MODULE Installer -------------------------------
(***************************************************************************)
(* cse install and cse upgrade (installer/configure_cse.py): commands that *)
(* bring vCD into the state the server needs, by one call after another,   *)
(* without transaction or rollback.  Most parts are looked up and created  *)
(* if they are missing, so that a command that failed can be run again.    *)
(* The description of the extension tells the next upgrade what to start   *)
(* from, which is why an upgrade writes it last.                           *)
(*                                                                         *)
(* The plan of a command is the list of its stages, in the source's order. *)
(* A world holds the extensions, the parts that exist, and the clusters:   *)
(* their RDEs, and the id of the RDE in the metadata of their vApp.        *)
(***************************************************************************)
EXTENDS Procedures, Sequences

CONSTANTS
  Clusters,  \* clusters that exist
  NameOf,    \* their names, which are unique in an organization only
  MaxRdes    \* bound on the RDEs

Extensions   == {"NONE", "AMQP", "MQTT"}
Versions     == {"3.0", "3.1.0", "target"}
Descriptions == [version : Versions, legacy : BOOLEAN]
Rdes == [id : 1..MaxRdes, name : {NameOf[c] : c \in Clusters},
         type : {"source", "target"}, vapp : Clusters \cup {Absent}, resolved : BOOLEAN]

\* What is looked up before it is created, and what is written in any case.
Ensured == {"interfaces", "behaviors", "overrides", "pvdc-policy", "vdc-policies",
            "catalog", "exchange", "deploy-right", "pks-right"}
Written == {"behavior-ACLs", "role-rights", "template-metadata", "template-policies",
            "policies-on-VDCs", "bundle-published"}
Parts == Ensured \cup Written \cup {"entity-type", "type-ACL", "schema", "filters"}

Schema   == <<"interfaces", "behaviors", "entity-type", "overrides", "behavior-ACLs",
              "role-rights">>
Policies == <<"pvdc-policy", "vdc-policies">>
MqttOn   == <<"mqtt", "filters">>

\* mode: the configuration; kind: the command; left: the clusters not yet processed;
\* cluster, at, rde: the one being processed, the call it is at and its RDE;
\* source: the description of the extension to upgrade; torn: history, an attempt
\* failed where the next one does not see it; installed: history, cse install has
\* tried to register its extension.
Locals == [mode : [legacy : BOOLEAN, mqtt : BOOLEAN], kind : {"install", "upgrade"},
           left : SUBSET Clusters, cluster : Clusters \cup {Absent},
           at : {"find", "create", "by-name", "link", "resolve", "upgrade", "tag"},
           rde : 0..MaxRdes, source : Descriptions,
           torn : BOOLEAN, installed : BOOLEAN]
Nothing == [mode |-> [legacy |-> FALSE, mqtt |-> FALSE], kind |-> "install",
            left |-> {}, cluster |-> Absent, at |-> "find", rde |-> 0,
            source |-> [version |-> "3.0", legacy |-> FALSE],
            torn |-> FALSE, installed |-> FALSE]

TypeOK ==
  /\ DOMAIN world = {"mqtt", "amqp", "parts", "rdes", "tag", "template", "plan"}
  /\ {world.mqtt, world.amqp} \subseteq Descriptions \cup {Absent}
  /\ world.parts \subseteq Parts
  /\ world.rdes \subseteq Rdes
  /\ world.tag \in [Clusters -> 0..MaxRdes]
  /\ world.template \in [Clusters -> {"known", "unknown"}]
  /\ \A a \in Actors : loc[a] \in Locals
  /\ DOMAIN pc = Actors
  /\ faults \in 0..MaxFaults

Source(version, legacy) == [version |-> version, legacy |-> legacy]

\* Nothing installed, or an older CSE with its clusters; the second has RDEs where
\* the older one served them.
Init ==
  /\ \E type \in Extensions, version \in {"3.0", "3.1.0"}, legacy \in BOOLEAN,
        template \in [Clusters -> {"known", "unknown"}] :
       LET description == Source(version, legacy)
           served == {c \in Clusters : ~legacy /\ template[c] = "known"}
           ids    == CHOOSE f \in [served -> 1..MaxRdes] :
                       \A c, d \in served : f[c] = f[d] => c = d
       IN  /\ type = "NONE" => legacy /\ version = "3.0"
           /\ type = "AMQP" => version = "3.0"
           /\ type = "MQTT" => version = "3.1.0" /\ ~legacy
           /\ world = [mqtt |-> IF type = "MQTT" THEN description ELSE Absent,
                       amqp |-> IF type = "AMQP" THEN description ELSE Absent,
                       parts |-> CASE type = "NONE" -> {}
                                   [] type = "AMQP" -> {"catalog", "exchange", "filters",
                                                        "deploy-right", "pks-right"}
                                   [] type = "MQTT" -> Parts \ {"schema", "exchange"},
                       rdes |-> {[id |-> ids[c], name |-> NameOf[c], type |-> "source",
                                  vapp |-> c, resolved |-> TRUE] : c \in served},
                       tag |-> [c \in Clusters |-> IF c \in served THEN ids[c] ELSE 0],
                       template |-> template, plan |-> <<>>]
  /\ \E a \in Actors, mode \in [legacy : BOOLEAN, mqtt : BOOLEAN], kind \in {"install", "upgrade"} :
       Alone(a, "check", [Nothing EXCEPT !.mode = mode, !.kind = kind], Nothing)

-----------------------------------------------------------------------------
should_use_mqtt_protocol(mode) == mode.mqtt /\ ~mode.legacy

\* _get_existing_extension_type: a legacy configuration does not look for MQTT.
existing_type(mode) ==
  IF world.mqtt # Absent /\ ~mode.legacy THEN "MQTT"
  ELSE IF world.amqp # Absent THEN "AMQP" ELSE "NONE"

Refused(a) == Step(a, "failed") /\ UNCHANGED loc
Follow(plan) == [world EXCEPT !.plan = plan]

\* install_cse.  The API versions of a legacy configuration know neither defined
\* entities nor placement policies, so that these stages do nothing.
InstallPlan(mode) ==
  (IF mode.legacy THEN <<>> ELSE Schema \o Policies) \o <<"catalog">> \o
  (IF should_use_mqtt_protocol(mode) THEN MqttOn
   ELSE <<"exchange", "amqp", "deploy-right", "pks-right">>)

CheckInstall(a) ==
  /\ pc[a] = "check" /\ loc[a].kind = "install"
  /\ IF existing_type(loc[a].mode) # "NONE" THEN Refused(a)
     ELSE /\ world' = Follow(InstallPlan(loc[a].mode))
          /\ Goto(a, "run")
          /\ UNCHANGED loc
          /\ UNCHANGED faults

\* The stages for the templates and for the VDCs and organizations of the clusters.
_process_existing_templates == <<"template-metadata", "template-policies">>
AssignToVdcs == <<"policies-on-VDCs", "bundle-published">>

\* Variant: the description is written before the clusters are processed.
UpgradePlanEager(mode, from) ==
  (IF from = "AMQP" /\ ~mode.legacy THEN <<"unregister", "drop-amqp">> \o MqttOn ELSE <<>>)
  \o (IF mode.legacy THEN <<"exchange", "update-amqp", "drop-filters", "filters">>
      ELSE <<"update-mqtt">> \o Policies \o Schema
           \o _process_existing_templates \o AssignToVdcs
           \o <<"sizing", "list-clusters", "clusters", "drop-filters", "filters">>)

\* upgrade_cse, _upgrade_to_cse_3_1_legacy and _upgrade_to_cse_3_1_non_legacy
UpgradePlan(mode, from) ==
  (IF from = "AMQP" /\ ~mode.legacy THEN <<"unregister", "drop-amqp">> \o MqttOn ELSE <<>>)
  \o (IF mode.legacy THEN <<"exchange", "update-amqp", "drop-filters", "filters">>
      ELSE Policies \o Schema
           \o _process_existing_templates \o AssignToVdcs
           \o <<"sizing", "list-clusters", "clusters", "update-mqtt", "drop-filters", "filters">>)

CheckUpgrade(a) ==
  /\ pc[a] = "check" /\ loc[a].kind = "upgrade"
  /\ LET mode == loc[a].mode
         from == existing_type(mode)
         was  == IF from = "MQTT" THEN world.mqtt ELSE world.amqp
     IN  IF \/ from = "NONE"
            \/ from = "MQTT" /\ ~should_use_mqtt_protocol(mode)
            \/ mode.legacy /\ ~was.legacy
         THEN Refused(a)
         ELSE /\ world' = Follow(UpgradePlan(mode, from))
              /\ Goto(a, "run")
              /\ Set(a, [loc[a] EXCEPT !.source = was])
              /\ UNCHANGED faults

\* An upgrade path that is not valid, or a TKGm cluster runtime of CSE 3.0.
PathNotValid(a) ==
  /\ pc[a] = "check" /\ loc[a].kind = "upgrade"
  /\ world.mqtt = Absent /\ world.amqp # Absent
  /\ Refused(a)

-----------------------------------------------------------------------------
At(a, stage) == pc[a] = "run" /\ world.plan # <<>> /\ Head(world.plan) = stage
Done(w)      == [w EXCEPT !.plan = Tail(@)]
With(part)   == [world EXCEPT !.parts = @ \cup {part}]

\* The stage at the head of the plan changes the world to w, or the command fails.
Carry(a, w) == Call(a, Done(w), "run", "failed")
Advance(a)  == Query(a, "run", "failed")

Ensure(a, part) == At(a, part) /\ Carry(a, With(part)) /\ UNCHANGED loc

_register_interfaces(a)      == Ensure(a, "interfaces")
_register_behaviors(a)       == Ensure(a, "behaviors")
_override_behaviors(a)       == Ensure(a, "overrides")
_set_acls_on_behaviors(a)    == Ensure(a, "behavior-ACLs")
_update_user_role(a)         == Ensure(a, "role-rights")
_setup_pvdc_policy(a)        == Ensure(a, "pvdc-policy")
_setup_vdc_policies(a)       == Ensure(a, "vdc-policies")
create_and_share_catalog(a)  == Ensure(a, "catalog")
_create_amqp_exchange(a)     == Ensure(a, "exchange")
_register_deploy_right(a)    == Ensure(a, "deploy-right")
_register_pks_right(a)       == Ensure(a, "pks-right")
_update_metadata_of_templates(a) == Ensure(a, "template-metadata")
_assign_to_templates(a)      == Ensure(a, "template-policies")
_assign_to_vdcs(a)           == Ensure(a, "policies-on-VDCs")
_publish_right_bundle(a)     == Ensure(a, "bundle-published")

EnsurePart(a) ==
  \/ _register_interfaces(a) \/ _register_behaviors(a) \/ _override_behaviors(a)
  \/ _set_acls_on_behaviors(a) \/ _update_user_role(a)
  \/ _setup_pvdc_policy(a) \/ _setup_vdc_policies(a) \/ create_and_share_catalog(a)
  \/ _create_amqp_exchange(a) \/ _register_deploy_right(a) \/ _register_pks_right(a)
  \/ _update_metadata_of_templates(a) \/ _assign_to_templates(a)
  \/ _assign_to_vdcs(a) \/ _publish_right_bundle(a)

\* Variant: a type that exists is never updated.
RegisterOnce(a) ==
  /\ At(a, "entity-type")
  /\ Carry(a, [world EXCEPT !.parts = @ \cup {"entity-type"}])
  /\ UNCHANGED loc

\* update_schema
updates(a) == loc[a].kind = "upgrade" /\ loc[a].source.version = "3.1.0"

\* _register_entity_type: the ACL of the type is set only by the attempt that
\* creates the type.
RegisterEntityType(a) ==
  /\ At(a, "entity-type")
  /\ IF "entity-type" \in world.parts
     THEN /\ Carry(a, IF updates(a) THEN With("schema") ELSE world)
          /\ UNCHANGED loc
     ELSE LET created == [world EXCEPT !.parts = @ \cup {"entity-type", "schema"}]
          IN  \/ /\ world' = [Done(created) EXCEPT !.plan = <<"type-ACL">> \o @]
                 /\ Goto(a, "run")
                 /\ UNCHANGED <<faults, loc>>
              \/ /\ world' \in {world, created}
                 /\ Goto(a, "failed") /\ Fault
                 /\ Set(a, [loc[a] EXCEPT !.torn = "entity-type" \in world'.parts])

TypeAcl(a) ==
  /\ At(a, "type-ACL")
  /\ Carry(a, With("type-ACL"))
  /\ Set(a, [loc[a] EXCEPT !.torn = @ \/ pc'[a] = "failed"])

\* setup_extension: an extension that exists is left as it is.  An upgrade from
\* AMQP gives it the description of the source.
SetupExtension(a) ==
  /\ At(a, "mqtt")
  /\ LET description == IF loc[a].kind = "install" THEN Source("target", FALSE)
                        ELSE loc[a].source
     IN  Carry(a, IF world.mqtt = Absent THEN [world EXCEPT !.mqtt = description] ELSE world)
  /\ Set(a, [loc[a] EXCEPT !.installed = @ \/ loc[a].kind = "install"])

\* setup_api_filter_patterns; add_api_filters_to_service of the AMQP extension
SetupFilters(a) == At(a, "filters") /\ Carry(a, With("filters")) /\ UNCHANGED loc

\* delete_api_filter_patterns, which an update does before it sets them up again;
\* remove_all_api_filters_from_service of the AMQP extension
DropFilters(a) ==
  /\ At(a, "drop-filters")
  /\ Carry(a, [world EXCEPT !.parts = @ \ {"filters"}])
  /\ UNCHANGED loc

\* _register_cse_as_amqp_extension: add_extension gives it its filters.
RegisterAmqp(a) ==
  /\ At(a, "amqp")
  /\ Carry(a, [With("filters") EXCEPT !.amqp = Source("target", loc[a].mode.legacy)])
  /\ Set(a, [loc[a] EXCEPT !.installed = TRUE])

\* _update_cse_amqp_extension: update_extension; the filters are stages of their own.
UpdateAmqp(a) ==
  /\ At(a, "update-amqp")
  /\ Carry(a, [world EXCEPT !.amqp = Source("target", loc[a].mode.legacy)])
  /\ UNCHANGED loc

\* _deregister_cse_amqp_extension
Unregister(a) ==
  /\ At(a, "unregister")
  /\ Carry(a, [world EXCEPT !.parts = @ \ {"filters"}])
  /\ UNCHANGED loc

DropAmqp(a) ==
  /\ At(a, "drop-amqp")
  /\ Carry(a, [world EXCEPT !.amqp = Absent])
  /\ UNCHANGED loc

\* _update_cse_mqtt_extension, its description
UpdateMqtt(a) ==
  /\ At(a, "update-mqtt")
  /\ Carry(a, [world EXCEPT !.mqtt = Source("target", FALSE)])
  /\ UNCHANGED loc

\* _remove_old_cse_sizing_compute_policies, which OvdcPolicies details
RemoveSizing(a) == At(a, "sizing") /\ Carry(a, world) /\ UNCHANGED loc

-----------------------------------------------------------------------------
\* get_all_cse_clusters
ListClusters(a) ==
  /\ At(a, "list-clusters")
  /\ Carry(a, world)
  /\ Set(a, [loc[a] EXCEPT !.left = Clusters, !.cluster = Absent])

\* The next cluster: one without an RDE is given one, unless its template is
\* unknown; one that has an RDE is upgraded, from its own version too.
NextCluster(a) ==
  /\ At(a, "clusters") /\ loc[a].cluster = Absent
  /\ \E c \in loc[a].left :
       LET found   == \E r \in world.rdes : r.id = world.tag[c]
           skipped == ~found /\ world.template[c] = "unknown"
       IN  /\ Advance(a)
           /\ Set(a, IF skipped THEN [loc[a] EXCEPT !.left = @ \ {c}]
                     ELSE [loc[a] EXCEPT !.left = @ \ {c}, !.cluster = c, !.rde = world.tag[c],
                                         !.at = IF found THEN "upgrade" ELSE "create"])

Working(a, at) == At(a, "clusters") /\ loc[a].cluster # Absent /\ loc[a].at = at
Change(a, w, at) ==
  /\ Call(a, w, "run", "failed")
  /\ Set(a, [loc[a] EXCEPT !.at = at])
Rewrite(id, Op(_)) ==
  [world EXCEPT !.rdes = {IF r.id = id THEN Op(r) ELSE r : r \in @}]

\* _create_cluster_rde: create_entity
CreateRde(a) ==
  /\ Working(a, "create")
  /\ \E id \in 1..MaxRdes :
       /\ \A r \in world.rdes : r.id # id
       /\ \A other \in 1..(id - 1) : \E r \in world.rdes : r.id = other
       /\ Change(a, [world EXCEPT !.rdes = @ \cup
                       {[id |-> id, name |-> NameOf[loc[a].cluster], type |-> "target",
                         vapp |-> Absent, resolved |-> FALSE]}], "by-name")

\* get_native_rde_by_name_and_rde_version: the first with that name
FindByName(a) ==
  /\ Working(a, "by-name")
  /\ \E r \in world.rdes :
       /\ r.name = NameOf[loc[a].cluster] /\ r.type = "target"
       /\ Advance(a)
       /\ Set(a, [loc[a] EXCEPT !.rde = r.id, !.at = "link"])

LinkRde(a) ==
  /\ Working(a, "link")
  /\ LET Linked(r) == [r EXCEPT !.vapp = loc[a].cluster]
     IN  Change(a, Rewrite(loc[a].rde, Linked), "resolve")

ResolveRde(a) ==
  /\ Working(a, "resolve")
  /\ LET Resolved(r) == [r EXCEPT !.resolved = TRUE]
     IN  Change(a, Rewrite(loc[a].rde, Resolved), "tag")

\* _upgrade_cluster_rde
UpgradeRde(a) ==
  /\ Working(a, "upgrade")
  /\ LET Upgraded(r) == [r EXCEPT !.type = "target"]
     IN  Change(a, Rewrite(loc[a].rde, Upgraded), "tag")

\* Both end with the metadata of the vApp, which tells the next attempt.
TagVapp(a) ==
  /\ Working(a, "tag")
  /\ Call(a, [world EXCEPT !.tag[loc[a].cluster] = loc[a].rde], "run", "failed")
  /\ Set(a, [loc[a] EXCEPT !.cluster = Absent, !.at = "find"])

\* The old entity types are deleted; a failure is logged.
ClustersDone(a) ==
  /\ At(a, "clusters") /\ loc[a].cluster = Absent /\ loc[a].left = {}
  /\ world' = Done(world)
  /\ UNCHANGED <<pc, loc, faults>>

Succeed(a) ==
  /\ pc[a] = "run" /\ world.plan = <<>>
  /\ Step(a, "done")
  /\ UNCHANGED loc

\* The administrator runs a command again.
Again(a) ==
  /\ pc[a] = "failed"
  /\ \E kind \in {"install", "upgrade"} :
       Set(a, [loc[a] EXCEPT !.kind = kind, !.cluster = Absent, !.at = "find", !.left = {}])
  /\ world' = Follow(<<>>)
  /\ Goto(a, "check")
  /\ UNCHANGED faults

Next ==
  \E a \in Actors :
    \/ CheckInstall(a) \/ CheckUpgrade(a) \/ PathNotValid(a) \/ EnsurePart(a)
    \/ RegisterEntityType(a) \/ TypeAcl(a) \/ SetupExtension(a) \/ SetupFilters(a) \/ DropFilters(a)
    \/ RegisterAmqp(a) \/ UpdateAmqp(a) \/ Unregister(a) \/ DropAmqp(a) \/ UpdateMqtt(a)
    \/ RemoveSizing(a) \/ ListClusters(a) \/ NextCluster(a) \/ CreateRde(a) \/ FindByName(a)
    \/ LinkRde(a) \/ ResolveRde(a) \/ UpgradeRde(a) \/ TagVapp(a) \/ ClustersDone(a)
    \/ Succeed(a) \/ Again(a)

Spec == Init /\ [][Next]_procedureVars

-----------------------------------------------------------------------------
\* What the server needs: the parts of its mode, and an extension with its filters.
Ready(mode, kind) ==
  /\ "filters" \in world.parts
  /\ IF mode.legacy THEN TRUE
     ELSE {Schema[i] : i \in DOMAIN Schema} \cup {"schema", "vdc-policies"} \subseteq world.parts
  /\ IF should_use_mqtt_protocol(mode) \/ (kind = "upgrade" /\ ~mode.legacy)
     THEN world.mqtt = Source("target", FALSE)
     ELSE /\ world.amqp = Source("target", mode.legacy)
          /\ {"exchange"} \subseteq world.parts
          /\ kind = "install" => {"deploy-right", "pks-right"} \subseteq world.parts

\* A cluster is served by the new server: its vApp names an RDE of the new version
\* that is resolved and names the vApp.
Migrated(c) ==
  \E r \in world.rdes :
    /\ r.id = world.tag[c] /\ r.vapp = c
    /\ r.type = "target" /\ r.resolved

\* cse check and cse run look for the exchange or the filters, the extension and the
\* catalog.
_check_amqp_extension_installation == "exchange" \in world.parts /\ world.amqp # Absent
_check_mqtt_extension_installation == world.mqtt # Absent /\ "filters" \in world.parts
check_cse_installation(mode) ==
  /\ IF should_use_mqtt_protocol(mode) THEN _check_mqtt_extension_installation
     ELSE _check_amqp_extension_installation
  /\ "catalog" \in world.parts

\* However often a command failed before, once it reports success vCD is what the
\* server needs and finds; the ACL of the entity type too, unless an attempt failed
\* between the two.
InstallConverges ==
  \A a \in Actors : pc[a] = "done" =>
    /\ Ready(loc[a].mode, loc[a].kind)
    /\ ~loc[a].mode.legacy /\ ~loc[a].torn => "type-ACL" \in world.parts
    /\ loc[a].kind = "install" \/ loc[a].mode.legacy \/ loc[a].mode.mqtt =>
         check_cse_installation(loc[a].mode)

\* The extension claims the new version only when every cluster has been migrated,
\* so that an upgrade that failed can be run again; unless CSE was installed anew
\* over them.  Clusters of the same name are beyond this promise.
ClaimedWhenMigrated ==
  \A a \in Actors :
    world.mqtt = Source("target", FALSE) /\ loc[a].kind = "upgrade" /\ pc[a] # "idle" =>
      \A c \in Clusters :
        world.template[c] = "known" /\ (\A d \in Clusters \ {c} : NameOf[d] # NameOf[c]) =>
          Migrated(c) \/ loc[a].installed
=============================================================================
