------------------------------- MODULE RestApi -------------------------------
(***************************************************************************)
(* The REST requests of the server, from the message to the reply:         *)
(* process_request and the table it searches (request_dispatcher.py), the  *)
(* handlers as sequences of stages (request_handlers/), the validation of  *)
(* their payloads (rde/utils.py, rde/validators) and the security context  *)
(* of a request (operation_context.py).  A handler that answers before its *)
(* work is done marks the context as asynchronous and starts a thread,     *)
(* which ends the context; else the dispatcher does.  What the threads do  *)
(* is in the modules of the services.                                      *)
(***************************************************************************)
EXTENDS Procedures, Sequences

Verbs     == {"GET", "POST", "PUT", "DELETE"}
Supported == {"33.0", "34.0", "35.0", "36.0"}   \* SUPPORTED_VCD_API_VERSIONS
Versions  == Supported \cup {"0.0"}

-----------------------------------------------------------------------------
(***************************************************************************)
(* The table: for each URL, and each verb and set of versions, a handler   *)
(* and the feature flag it needs.  A token with a $ is a parameter.        *)
(***************************************************************************)
Op(verb, versions, flag, module, f) ==
  [verb |-> verb, versions |-> versions, flag |-> flag, handler |-> <<module, f>>]

Common(verb, module, f) == Op(verb, Supported, "none", module, f)
Only36(verb, module, f) == Op(verb, {"36.0"}, "none", module, f)
Legacy(verb, module, f) == Op(verb, {"33.0", "34.0"}, "legacy_api", module, f)
V35(verb, f)  == Op(verb, {"35.0"}, "non_legacy_api", "v35", f)
V36(verb, f)  == Op(verb, {"36.0"}, "non_legacy_api", "v36", f)
Both(verb, f) == {V35(verb, f), V36(verb, f)}
Ovdc(verb, versions, f) == Op(verb, versions, "non_legacy_api", "v35 ovdc", f)
Entry(url, ops) == [url |-> url, ops |-> ops]

SYSTEM_HANDLERS == <<
  Entry(<<"cse", "system">>,
    {Op("GET", Versions, "none", "system", "system_info"),
     Common("PUT", "system", "system_update")}),
  Entry(<<"cse", "system", "config">>, {Common("GET", "system", "get_server_config")})>>

TEMPLATE_HANDLERS == <<
  Entry(<<"cse", "templates">>, {Common("GET", "template", "template_list")}),
  Entry(<<"cse", "templates", "tkgm">>, {Only36("GET", "template", "tkgm_template_list")}),
  Entry(<<"cse", "templates", "action", "reload">>,
    {Only36("POST", "template", "reload_templates")})>>

PKS_HANDLERS == <<
  Entry(<<"pks", "clusters">>,
    {Common("GET", "pks", "cluster_list"), Common("POST", "pks", "cluster_create")}),
  Entry(<<"pks", "cluster", "$name">>,
    {Common("GET", "pks", "cluster_info"), Common("PUT", "pks", "cluster_resize"),
     Common("DELETE", "pks", "cluster_delete")}),
  Entry(<<"pks", "cluster", "$name", "config">>, {Common("GET", "pks", "cluster_config")}),
  Entry(<<"pks", "ovdcs">>, {Common("GET", "pks", "ovdc_list")}),
  Entry(<<"pks", "orgvdcs">>, {Common("GET", "pks", "org_vdc_list")}),
  Entry(<<"pks", "ovdc", "$ovdc">>,
    {Common("GET", "pks", "ovdc_info"), Common("PUT", "pks", "ovdc_update")})>>

LEGACY_CLUSTER_HANDLERS == <<
  Entry(<<"cse", "clusters">>,
    {Legacy("GET", "legacy", "cluster_list"), Legacy("POST", "legacy", "cluster_create")}),
  Entry(<<"cse", "cluster", "$name">>,
    {Legacy("GET", "legacy", "cluster_info"), Legacy("PUT", "legacy", "cluster_resize"),
     Legacy("DELETE", "legacy", "cluster_delete")}),
  Entry(<<"cse", "cluster", "$name", "config">>, {Legacy("GET", "legacy", "cluster_config")}),
  Entry(<<"cse", "cluster", "$name", "upgrade-plan">>,
    {Legacy("GET", "legacy", "cluster_upgrade_plan")}),
  Entry(<<"cse", "cluster", "$name", "action", "upgrade">>,
    {Legacy("POST", "legacy", "cluster_upgrade")})>>

LEGACY_NATIVE_CLUSTER_HANDLERS ==
  <<Entry(<<"cse", "nativeclusters">>, {Legacy("GET", "legacy", "native_cluster_list")})>>

LEGACY_NODE_HANDLERS == <<
  Entry(<<"cse", "nodes">>,
    {Legacy("POST", "legacy", "node_create"), Legacy("DELETE", "legacy", "node_delete")}),
  Entry(<<"cse", "node", "$node">>, {Legacy("GET", "legacy", "node_info")})>>

LEGACY_OVDC_HANDLERS == <<
  Entry(<<"cse", "ovdcs">>, {Legacy("GET", "ovdc", "ovdc_list")}),
  Entry(<<"cse", "ovdc", "$ovdc">>,
    {Legacy("GET", "ovdc", "ovdc_info"), Legacy("PUT", "ovdc", "ovdc_update")}),
  Entry(<<"cse", "ovdc", "$ovdc", "compute-policies">>,
    {Legacy("GET", "ovdc", "ovdc_compute_policy_list"),
     Legacy("PUT", "ovdc", "ovdc_compute_policy_update")})>>

LEGACY_ORG_VDC_HANDLERS ==
  <<Entry(<<"cse", "orgvdcs">>, {Legacy("GET", "ovdc", "org_vdc_list")})>>

CLUSTER_HANDLERS == <<
  Entry(<<"cse", "3.0", "clusters">>, Both("GET", "cluster_list") \cup Both("POST", "cluster_create")),
  Entry(<<"cse", "3.0", "nativeclusters">>, {V36("GET", "native_cluster_list")}),
  Entry(<<"cse", "3.0", "cluster", "$cluster">>,
    Both("GET", "cluster_info") \cup Both("DELETE", "cluster_delete") \cup
    {V35("PUT", "cluster_resize"), V36("PUT", "cluster_update")}),
  Entry(<<"cse", "3.0", "cluster", "$cluster", "config">>, Both("GET", "cluster_config")),
  Entry(<<"cse", "3.0", "cluster", "$cluster", "upgrade-plan">>,
    Both("GET", "cluster_upgrade_plan"))>>

CLUSTER_ACTION_HANDLERS == <<
  Entry(<<"cse", "3.0", "cluster", "$cluster", "action", "upgrade">>,
    {V35("POST", "cluster_upgrade")}),
  Entry(<<"cse", "3.0", "cluster", "$cluster", "action", "force-delete">>,
    {V36("POST", "cluster_force_delete")}),
  Entry(<<"cse", "3.0", "cluster", "$cluster", "nfs", "$node">>, Both("DELETE", "nfs_node_delete")),
  Entry(<<"cse", "3.0", "cluster", "$cluster", "acl">>,
    Both("GET", "cluster_acl_info") \cup Both("PUT", "cluster_acl_update"))>>

OVDC_HANDLERS == <<
  Entry(<<"cse", "3.0", "ovdcs">>, {Ovdc("GET", {"35.0"}, "ovdc_list")}),
  Entry(<<"cse", "3.0", "ovdc", "$ovdc">>,
    {Ovdc("GET", {"35.0", "36.0"}, "ovdc_info"), Ovdc("PUT", {"35.0", "36.0"}, "ovdc_update")})>>

ORG_VDC_HANDLERS ==
  <<Entry(<<"cse", "3.0", "orgvdcs">>, {Ovdc("GET", {"35.0", "36.0"}, "org_vdc_list")})>>

CSE_REQUEST_DISPATCHER_LIST ==
  SYSTEM_HANDLERS \o TEMPLATE_HANDLERS \o PKS_HANDLERS \o LEGACY_CLUSTER_HANDLERS \o
  LEGACY_NATIVE_CLUSTER_HANDLERS \o LEGACY_NODE_HANDLERS \o LEGACY_OVDC_HANDLERS \o
  LEGACY_ORG_VDC_HANDLERS \o CLUSTER_HANDLERS \o CLUSTER_ACTION_HANDLERS \o
  OVDC_HANDLERS \o ORG_VDC_HANDLERS

\* The singular and the plural of a token stand for each other.
DUAL_FORM_TOKENS ==
  {{"template", "templates"}, {"cluster", "clusters"}, {"ovdc", "ovdcs"},
   {"orgvdc", "orgvdcs"}, {"nativecluster", "nativeclusters"}, {"node", "nodes"}}
Forms(token) == {token} \cup UNION {pair \in DUAL_FORM_TOKENS : token \in pair}
Parameters   == {"$name", "$ovdc", "$node", "$cluster"}

-----------------------------------------------------------------------------
(***************************************************************************)
(* process_request, up to the handler.                                     *)
(***************************************************************************)
Matches(url, entry) ==
  /\ Len(url) = Len(entry.url)
  /\ \A i \in DOMAIN url : entry.url[i] \in Parameters \cup Forms(url[i])

Json == {"application/json", "application/*+json", "*/*", "*"}

\* _parse_accept_header and _get_api_version_from_accept_header: the version of the
\* first header that accepts JSON, or Absent.
AcceptedVersion(accept) ==
  LET fit == {i \in DOMAIN accept : accept[i].type \in Json}
  IN  IF fit = {} THEN Absent
      ELSE accept[CHOOSE i \in fit : \A j \in fit : i <= j].version

\* The first entry whose URL matches decides.
Found(url) ==
  LET list == CSE_REQUEST_DISPATCHER_LIST
      fit  == {i \in DOMAIN list : Matches(url, list[i])}
  IN  IF fit = {} THEN Absent ELSE list[CHOOSE i \in fit : \A j \in fit : i <= j]

\* A flag that is not set ends the search.
Dispatch(entry, r, flags) ==
  LET ops     == {o \in entry.ops : o.verb = r.verb}
      version == AcceptedVersion(r.accept)
      usable  == {o \in ops : version \in o.versions}
      refuse(reply) == [reply |-> reply, handler |-> Absent]
  IN  IF version = Absent THEN refuse("NotAcceptable")
      ELSE IF entry = Absent THEN refuse("NotFound")
      ELSE IF ops = {} THEN refuse("MethodNotAllowed")
      ELSE IF usable = {} THEN refuse("NotAcceptable")
      ELSE LET op == CHOOSE o \in usable : TRUE
           IN  IF op.flag \in flags \cup {"none"} THEN [reply |-> Absent, handler |-> op.handler]
               ELSE refuse("NotFound")

-----------------------------------------------------------------------------
(***************************************************************************)
(* The handlers, as sequences of stages.  Those of the PKS broker and the  *)
(* policies of VDCs that end their work before they answer are one change. *)
(***************************************************************************)
\* Stages: "body", the payload is there; "payload 1.0", "payload", its version;
\* "convert", it is made an entity of the version in use; "validate create",
\* "validate update", "immutable size", "immutable template", what it asks for;
\* "required", its keys; "read", the cluster; "kind", not TKGm; "list", any other
\* query; "session", a query of the administrator; "change", of the records in vCD;
\* "task", a task is begun; "async", is_async is set; "TKG+", it is enabled;
\* "thread", a thread is started.
Background == <<"task", "async", "thread">>

\* cluster_handler.py
CreateV36 == <<"body", "payload", "validate create", "change", "session", "read">>
ListV36   == <<"list">>
ReadV36   == <<"read">>
UpdateV36 == <<"body", "payload", "validate update", "change">>
DeleteV36 == <<"read", "change">>
ForceDeleteV36 == <<"read">> \o Background
DeleteNfsV36   == <<"change", "read">>
ReadAclV36     == <<"read", "kind", "list">>
UpdateAclV36   == <<"read", "kind", "change">>

PlanV36(f) ==
  CASE f = "cluster_create" -> CreateV36
    [] f = "cluster_update" -> UpdateV36
    [] f = "cluster_delete" -> DeleteV36
    [] f = "cluster_force_delete" -> ForceDeleteV36
    [] f = "nfs_node_delete" -> DeleteNfsV36
    [] f = "cluster_acl_info" -> ReadAclV36
    [] f = "cluster_acl_update" -> UpdateAclV36
    [] f \in {"cluster_list", "native_cluster_list"} -> ListV36
    [] OTHER -> ReadV36

\* v35/def_cluster_handler.py, on RDE 1.x: the checks of the handler, then the service.
CreateV35    == <<"task", "change", "async", "telemetry", "thread">>
Operation1X  == <<"task", "change", "async", "thread">>
ResizeV35    == <<"read", "immutable size">> \o Operation1X
UpgradeV35   == <<"read", "immutable template">> \o Operation1X
DeleteV35    == <<"read">> \o Operation1X
DeleteNfsV35 == <<"read">> \o Operation1X
UpdateAclV35 == <<"read", "change">>
ListV35      == <<"list">>

PlanV35(f) ==
  CASE f = "cluster_create" -> CreateV35
    [] f = "cluster_resize" -> ResizeV35
    [] f = "cluster_upgrade" -> UpgradeV35
    [] f = "cluster_delete" -> DeleteV35
    [] f = "nfs_node_delete" -> DeleteNfsV35
    [] f = "cluster_acl_update" -> UpdateAclV35
    [] f = "cluster_list" -> ListV35
    [] OTHER -> <<"read">>

\* Requests of API 35 are redirected where the server has RDE 2.x.
Redirected(f) == IF f \in {"cluster_resize", "cluster_upgrade"} THEN "cluster_update" ELSE f
HandlersV35(f, rde) ==
  (IF f \in {"cluster_create", "cluster_resize", "cluster_upgrade"}
     THEN <<"body", "payload 1.0", "convert">> ELSE <<>>) \o
  (IF rde = "1.0" THEN PlanV35(f) ELSE PlanV36(Redirected(f)))

\* native_cluster_handler.py; VcdBroker checks the keys it needs.
LegacyLists == {"cluster_list", "native_cluster_list"}
NodeChanges == {"node_create", "node_delete"}
PlanLegacy(f) ==
  <<"required">> \o
  CASE f = "cluster_create" -> Background
    [] f \in {"cluster_resize", "cluster_delete", "cluster_upgrade"} \cup NodeChanges ->
         <<"read">> \o Background
    [] f \in LegacyLists -> <<"list">>
    [] OTHER -> <<"read">>

\* legacy/ovdc_handler.py: a compute policy is added, or removed by a task of vCD that
\* a thread follows.
UpdatePolicy(removes) ==
  <<"required", "session">> \o (IF removes THEN <<"async", "change", "thread">> ELSE <<"change">>)
OvdcLists == <<"session">>
PlanOvdc(f, removes) ==
  CASE f = "ovdc_compute_policy_update" -> UpdatePolicy(removes)
    [] f = "ovdc_update" -> <<"required", "session", "change">>
    [] f = "ovdc_info" -> <<"required", "session">>
    [] OTHER -> OvdcLists

\* ovdc_service.py
UpdateOvdc  == <<"body", "session", "task", "async", "TKG+", "thread">>
ReadOvdcs   == <<"session">>
PlanV35Ovdc(f) == IF f = "ovdc_update" THEN UpdateOvdc ELSE ReadOvdcs

\* template_handler.py; a list is read from the server's configuration.
TemplateLists == <<>>
ReloadTemplates == <<"list", "task", "async", "thread">>
PlanTemplate(f) == IF f = "reload_templates" THEN ReloadTemplates ELSE TemplateLists

PlanSystem(f) == IF f = "system_update" THEN <<"required", "list", "change">> ELSE <<"list">>

PlanPks(f) ==
  CASE f = "cluster_create" -> <<"required", "session", "change">>
    [] f \in {"cluster_resize", "cluster_delete"} -> <<"required", "session", "read", "change">>
    [] f = "ovdc_update" -> <<"required", "session", "change">>
    [] f \in {"cluster_info", "cluster_config"} -> <<"required", "session", "read">>
    [] OTHER -> <<"session">>

Plan(handler, rde, removes) ==
  LET f == handler[2] IN
  CASE handler[1] = "v36" -> PlanV36(f)
    [] handler[1] = "v35" -> HandlersV35(f, rde)
    [] handler[1] = "legacy" -> PlanLegacy(f)
    [] handler[1] = "ovdc" -> PlanOvdc(f, removes)
    [] handler[1] = "v35 ovdc" -> PlanV35Ovdc(f)
    [] handler[1] = "template" -> PlanTemplate(f)
    [] handler[1] = "system" -> PlanSystem(f)
    [] handler[1] = "pks" -> PlanPks(f)

-----------------------------------------------------------------------------
(***************************************************************************)
(* The server, a request, and its context.                                 *)
(***************************************************************************)
Fields == {"workers", "template", "expose", "other"}
PayloadForms == {"1.0", "2.0", "2.1", "9.0", "2.0 in api_version"}

\* form: its version, where it says so; good: it has the keys and values that are
\* needed; diff: the fields of the cluster that it changes.
Bodies   == [form : PayloadForms, good : BOOLEAN, diff : SUBSET Fields]
Payload  == [form |-> "1.0", good |-> TRUE, diff |-> {}]
UpdateFs == {"cluster_resize", "cluster_upgrade", "cluster_update"}

\* mode: of the server, legacy or by the RDE in use; tkgPlus: FALSE where TKG+ is asked
\* for and is not enabled; cluster: the one the URL names; changed: records in vCD.
Worlds == [mode : {"legacy", "1.0", "2.1"}, running : BOOLEAN, tkgPlus : BOOLEAN,
           cluster : {Absent, "native", "TKG-M"}, changed : BOOLEAN]
Flags(mode) == IF mode = "legacy" THEN {"legacy_api"} ELSE {"non_legacy_api"}

\* row: the entry the request is for; left: the stages to do; session: of the system
\* administrator, open; async, ended: of the context; task, thread: of the operation.
TypeOK ==
  /\ world \in Worlds
  /\ \A a \in Actors : loc[a] # Absent =>
       /\ loc[a].body \in Bodies \cup {Absent}
       /\ {loc[a].session, loc[a].async, loc[a].ended} \subseteq BOOLEAN
       /\ loc[a].task \in {"none", "running", "ended"}
       /\ loc[a].thread \in {"none", "login", "work", "end", "ended", "died"}
       /\ loc[a].reply \in {Absent, "OK", "BadRequest", "NotAcceptable", "MethodNotAllowed",
                           "NotFound", "Error"}
  /\ DOMAIN pc = Actors
  /\ faults \in 0..MaxFaults

OtherForm(token) ==
  IF Forms(token) = {token} THEN token ELSE CHOOSE f \in Forms(token) : f # token
Spelled(url, other) ==
  [i \in DOMAIN url |-> IF url[i] \in Parameters THEN "x"
                        ELSE IF other THEN OtherForm(url[i]) ELSE url[i]]

\* The accept headers; a list of them is sent to one URL only.
AcceptsJson(version) == <<[type |-> "application/json", version |-> version]>>
Accepts == {<<[type |-> "text/xml", version |-> "36.0"]>>,
            <<[type |-> "text/xml", version |-> "33.0"], [type |-> "*/*", version |-> "36.0"]>>}

Updates(handler) == handler # Absent /\ handler[1] \in {"v35", "v36"} /\ handler[2] \in UpdateFs

\* Bodies that differ only in what the handler does not look at are sent once.
BodiesFor(handler) ==
  IF Updates(handler) \/ (handler # Absent /\ handler[2] = "cluster_create")
    THEN {Absent} \cup {b \in Bodies :
           /\ b.diff = {} \/ (b.good /\ Updates(handler))
           /\ b.form = "9.0" => b.good /\ b.diff = {}}
    ELSE {Absent, Payload, [Payload EXCEPT !.good = FALSE]}

Init ==
  \E row \in DOMAIN CSE_REQUEST_DISPATCHER_LIST, other \in BOOLEAN :
   LET url   == Spelled(CSE_REQUEST_DISPATCHER_LIST[row].url, other)
       entry == Found(url)
   IN \E verb \in Verbs, mode \in {"legacy", "1.0", "2.1"},
         accept \in {AcceptsJson(v) : v \in Versions} \cup Accepts :
    LET r == [url |-> url, verb |-> verb, accept |-> accept]
        d == Dispatch(entry, r, Flags(mode))
    IN  /\ accept \in Accepts => url = <<"cse", "system", "config">>
        /\ mode = "1.0" => AcceptedVersion(accept) # "36.0"
        /\ other => d.handler # Absent
        /\ \E running \in BOOLEAN, cluster \in {Absent, "native", "TKG-M"} :
             /\ cluster = "TKG-M" => mode = "2.1"
             /\ other => running /\ cluster = "native"
             /\ ~running \/ d.handler = Absent => cluster = Absent
             /\ \E removes \in {FALSE, d.handler = <<"ovdc", "ovdc_compute_policy_update">>},
                   tkgPlus \in {TRUE, d.handler # <<"v35 ovdc", "ovdc_update">>},
                   body \in IF ~running THEN {Absent} ELSE BodiesFor(d.handler) :
                  /\ verb = "GET" \/ d.handler = Absent => body = Absent
                  /\ world = [mode |-> mode, running |-> running, tkgPlus |-> tkgPlus,
                              cluster |-> cluster, changed |-> FALSE]
                  /\ \E a \in Actors : Alone(a, "dispatch",
                       [request |-> r, row |-> row, removes |-> removes, body |-> body,
                        handler |-> Absent, left |-> <<>>, session |-> FALSE, async |-> FALSE,
                        ended |-> FALSE, task |-> "none", thread |-> "none", reply |-> Absent],
                       Absent)

\* Variant: the dispatcher ends every context.
FinishAll(a, p, reply) ==
  /\ Goto(a, p)
  /\ Set(a, [loc[a] EXCEPT !.reply = reply, !.session = FALSE, !.ended = TRUE])

\* The finally block of process_request.
Finish(a, p, reply) ==
  /\ Goto(a, p)
  /\ Set(a, [loc[a] EXCEPT !.reply = reply, !.session = @ /\ loc[a].async,
                           !.ended = @ \/ ~loc[a].async])

Unchecked == {"system_info", "system_update"}
Receive(a) ==
  /\ pc[a] = "dispatch"
  /\ LET d == Dispatch(Found(loc[a].request.url), loc[a].request, Flags(world.mode))
         refuse(reply) == Set(a, [loc[a] EXCEPT !.reply = reply]) /\ Goto(a, "failed")
     IN  IF d.reply # Absent THEN refuse(d.reply)
         ELSE IF ~world.running /\ d.handler[2] \notin Unchecked THEN refuse("BadRequest")
         ELSE /\ Set(a, [loc[a] EXCEPT !.handler = d.handler,
                          !.left = Plan(d.handler, world.mode, loc[a].removes)])
              /\ Goto(a, "handler")
  /\ UNCHANGED <<world, faults>>

At(a, stages) == pc[a] = "handler" /\ loc[a].left # <<>> /\ Head(loc[a].left) \in stages
Pass(a, l)    == Set(a, [l EXCEPT !.left = Tail(@)]) /\ UNCHANGED pc
Answer(a) ==
  /\ pc[a] = "handler" /\ loc[a].left = <<>>
  /\ Finish(a, "done", "OK")
  /\ UNCHANGED <<world, faults>>

-----------------------------------------------------------------------------
(***************************************************************************)
(* The stages.                                                             *)
(***************************************************************************)
\* What is refused without a call.
Fits(a, stage) ==
  LET b == loc[a].body IN
  CASE stage = "body"        -> b # Absent
    [] stage = "payload 1.0" -> b.form # "2.0 in api_version"
    [] stage = "payload"     -> b.form \in {"2.0", "2.1"}
    [] stage = "convert"     -> b.form # "9.0" /\ b.good
    [] stage = "required"    -> loc[a].request.verb = "GET" \/ b = Absent \/ b.good
    [] stage = "kind"        -> world.cluster # "TKG-M"
    [] stage = "immutable size"     -> b.diff \subseteq {"workers", "expose"}
    [] stage = "immutable template" -> b.diff \subseteq {"template"}
    [] stage = "TKG+"        -> world.tkgPlus
Checks == {"body", "payload 1.0", "payload", "convert", "required", "kind",
           "immutable size", "immutable template", "TKG+"}
Check(a) ==
  /\ At(a, Checks)
  /\ LET stage == Head(loc[a].left) IN
       IF Fits(a, stage)
         THEN Pass(a, IF stage = "convert" THEN [loc[a] EXCEPT !.body.form = "2.1"] ELSE loc[a])
         ELSE Finish(a, "failed", "BadRequest")
  /\ UNCHANGED <<world, faults>>

\* validate_cluster_update_request_and_check_cluster_upgrade
update_allowed(diff) ==
  /\ diff \subseteq {"workers", "template", "expose"}
  /\ ~{"workers", "template"} \subseteq diff

\* Validator_2_1_0.validate; its arguments open the session.
Validate(a) ==
  /\ At(a, {"validate create", "validate update"})
  /\ LET update == Head(loc[a].left) = "validate update"
         b == loc[a].body
     IN  IF update /\ world.cluster = Absent THEN Finish(a, "failed", "Error")
         ELSE IF b.good /\ (update => update_allowed(b.diff))
           THEN Pass(a, [loc[a] EXCEPT !.session = TRUE])
           ELSE Finish(a, "failed", "BadRequest")
  /\ UNCHANGED <<world, faults>>

Creates(a) == loc[a].handler[2] \in {"cluster_create", "ovdc_update", "ovdc_compute_policy_update",
                                      "system_update"}
Ask(a) ==
  /\ At(a, {"read", "list", "session", "telemetry"})
  /\ LET stage == Head(loc[a].left)
         there == stage = "read" => world.cluster # Absent \/ world.changed
     IN  \/ /\ there /\ UNCHANGED faults
            /\ Pass(a, [loc[a] EXCEPT !.session = @ \/ stage = "session"])
         \/ (Fault \/ (~there /\ UNCHANGED faults)) /\ Finish(a, "failed", "Error")
  /\ UNCHANGED world

\* Where a task has begun, it is ended if the change fails.
Change(a) ==
  /\ At(a, {"change"})
  /\ LET there == world.cluster # Absent \/ Creates(a) IN
       \/ /\ there /\ UNCHANGED faults
          /\ world' = [world EXCEPT !.changed = TRUE] /\ Pass(a, loc[a])
       \/ /\ \/ Fault /\ world' \in {world, [world EXCEPT !.changed = TRUE]}
             \/ ~there /\ UNCHANGED <<world, faults>>
          /\ Goto(a, "failed")
          /\ Set(a, [loc[a] EXCEPT !.reply = "Error", !.session = @ /\ loc[a].async,
                       !.ended = ~loc[a].async, !.task = IF @ = "running" THEN "ended" ELSE @])

BeginTask(a) ==
  /\ At(a, {"task"})
  /\ \/ Pass(a, [loc[a] EXCEPT !.session = TRUE, !.task = "running"]) /\ UNCHANGED faults
     \/ Fault /\ Finish(a, "failed", "Error")
  /\ UNCHANGED world

SetAsync(a) ==
  /\ At(a, {"async"})
  /\ Pass(a, [loc[a] EXCEPT !.async = TRUE])
  /\ UNCHANGED <<world, faults>>

\* These threads log in before their try block.
LoginFirst == {<<"legacy", "cluster_create">>, <<"legacy", "node_create">>,
               <<"ovdc", "ovdc_compute_policy_update">>, <<"v35", "cluster_create">>}
StartThread(a) ==
  /\ At(a, {"thread"})
  /\ Pass(a, [loc[a] EXCEPT !.thread = IF loc[a].handler \in LoginFirst THEN "login" ELSE "work"])
  /\ UNCHANGED <<world, faults>>

-----------------------------------------------------------------------------
(***************************************************************************)
(* The thread, beside the rest of the handler.                             *)
(***************************************************************************)
Thread(a, at, l) == loc[a] # Absent /\ loc[a].thread = at /\ Set(a, l) /\ UNCHANGED <<world, pc>>

Login(a) ==
  \/ Thread(a, "login", [loc[a] EXCEPT !.thread = "work", !.session = TRUE]) /\ UNCHANGED faults
  \/ Thread(a, "login", [loc[a] EXCEPT !.thread = "died"]) /\ Fault

\* A call that fails in it makes it end its task too; then the finally block.
Work(a) ==
  /\ Thread(a, "work", [loc[a] EXCEPT !.thread = "end", !.session = TRUE,
                        !.task = IF @ = "running" THEN "ended" ELSE @])
  /\ UNCHANGED faults
End(a) ==
  /\ Thread(a, "end", [loc[a] EXCEPT !.thread = "ended", !.session = FALSE, !.ended = TRUE])
  /\ UNCHANGED faults

Next ==
  \E a \in Actors :
    \/ Receive(a) \/ Answer(a) \/ Check(a) \/ Validate(a) \/ Ask(a) \/ Change(a)
    \/ BeginTask(a) \/ SetAsync(a) \/ StartThread(a) \/ Login(a) \/ Work(a) \/ End(a)

Spec == Init /\ [][Next]_procedureVars

-----------------------------------------------------------------------------
Requested == {a \in Actors : loc[a] # Absent}
AtWork(a) == loc[a].thread \in {"login", "work", "end"}

\* An exception between is_async and the start of the thread: TKG+ is refused there,
\* and a call may fail.
NoThread(a) == loc[a].async /\ loc[a].thread = "none" /\ pc[a] = "failed"

\* A session of the system administrator that a request opened is closed when its
\* handler and its thread have ended, and its task has ended; except where no thread
\* was started to do so, or its first login failed.
SessionsAreClosed ==
  \A a \in Requested : Ended(a) /\ ~AtWork(a) =>
    /\ loc[a].session => NoThread(a) \/ loc[a].thread = "died"
    /\ loc[a].task = "running" => NoThread(a) \/ loc[a].thread = "died"

\* The context of a request is not ended while its thread works with it.
ThreadHasContext == \A a \in Requested : loc[a].ended => ~AtWork(a)

\* A request that is refused, no call failing, has changed nothing and started
\* nothing: all that is checked is checked first, also where a request of API 35 is
\* redirected to the handlers of API 36.
RefusedChangesNothing ==
  \A a \in Requested : pc[a] = "failed" /\ faults = 0 =>
    ~world.changed /\ loc[a].thread = "none"

\* Whatever path it took, an update that was accepted changes nothing immutable, and
\* does not resize and upgrade at once.
AcceptedIsAllowed ==
  \A a \in Requested : loc[a].reply = "OK" /\ Updates(loc[a].handler) =>
    "other" \notin loc[a].body.diff /\ ~{"workers", "template"} \subseteq loc[a].body.diff

\* No row of the table hides another, in the singular or the plural: a request made
\* for a row reaches the handler of the row; and a handler serves its mode only.
RowsAreReached ==
  \A a \in Requested :
    /\ pc[a] = "handler" /\ loc[a].handler[1] \in {"legacy", "ovdc"} => world.mode = "legacy"
    /\ pc[a] # "dispatch" /\ world.running =>
         \A o \in CSE_REQUEST_DISPATCHER_LIST[loc[a].row].ops :
           (/\ o.verb = loc[a].request.verb
            /\ AcceptedVersion(loc[a].request.accept) \in o.versions
            /\ o.flag \in Flags(world.mode) \cup {"none"}) => loc[a].handler = o.handler

RequestIsServed ==
  SessionsAreClosed /\ ThreadHasContext /\ RefusedChangesNothing /\ AcceptedIsAllowed /\
  RowsAreReached
=============================================================================
