# Formal models of the Container Service Extension

TLA+ specifications of the VMware Cloud Director (vCD) Container Service
Extension, CSE, the server in `src/container_service_extension`. CSE is a
Python process that receives requests from vCD over a message bus, creates and
changes Kubernetes clusters (vApps with virtual machines) through vCD's REST
API, and keeps the state of each cluster in a *defined entity* (RDE) that vCD
stores. The difficult part is not any single call. It is that handlers, daemon
threads, a watchdog and vCD itself all act between two calls, that any call may
fail, and that what is left behind is the state the next request starts from.

Paths below are relative to `src/container_service_extension` unless they start
with `src/` or `docs/`.

## 1. Inventory

| Component | State it keeps | Operations | Talks to | What is hard | What makes it correct |
|---|---|---|---|---|---|
| Entity update (`rde/common/entity_service.py`, `lib/cloudapi/cloudapi_client.py`, `security/context/operation_context.py`) | none of its own; `_last_response` of the shared client | `update_entity`, with GET, ETag and PUT, repeated on 412 | vCD's defined entity API | a conflict between GET and PUT; a lost reply; the ETag comes from a shared field | a PUT never undoes a change it has not read; one call applies its changes at most once |
| Cluster life cycle (`rde/backend/cluster_service_2_x.py`) | phase, task, vApp link and node list in the RDE; the vApp; the task | create, resize, upgrade, delete, forced delete, deletion of NFS nodes, info | RDE, vApp, tasks; threads of `run_async` | two operations on one cluster; children that report through a field; failures in failure paths; a crash | the phase, the task and the vApp agree at the end of each operation |
| Server process (`server/service.py`) | `_state`, the current consumer | run, enable, disable, stop, watchdog | consumer, dispatchers | unlocked reads of the state; shutdown against watchdog and late messages | no accepted request is lost; a stop ends the server; a dead consumer comes back |
| MQTT consumer and pool (`mqi/consumer/mqtt_consumer.py`, `consumer_thread_pool_executor.py`) | active count, `_is_closing` | on_message, submit, stop | dispatchers, publisher | a job that ends before it is counted | the count bounds the pool; it returns to 0 |
| Behavior dispatcher (`server/behavior_dispatcher.py`, `behavior_handler.py`) | none | dispatch, error answer | cluster service | exceptions of every kind | every invocation is answered |
| REST dispatcher (`server/request_dispatcher.py`) | none | state check, URL matching, dispatch | handlers | the table of operations | refused while disabled |
| Threads of operations (`common/utils/thread_utils.py`) | a copy of thread-local data | `run_async` | | daemons: not counted, not resumed | work is not cut off unnoticed |
| AMQP consumer (`mqi/consumer/amqp_consumer.py`) | LRU of request ids, connection | process, reject, reconnect, stop | RabbitMQ, dispatchers | redelivery, acknowledgement before work | a request is not worked on twice at once, and is answered |
| MQTT publisher (`mqi/consumer/mqtt_publisher.py`) | a lock | publish an answer or a task update | vCD | order of messages | the final status of a task arrives last |
| Life cycle of RDE 1.x and TKGm clusters (`rde/backend/cluster_service_1_x.py`, `cluster_service_2_x_tkgm.py`), legacy broker (`server/vcdbroker.py`) | as 2.x; 1.x writes whole entities; the broker has the vApp only | as 2.x | as 2.x | as 2.x; copies written back late; nothing that marks a cluster as busy | rollbacks and deletions leave nothing behind |
| Cluster ACL (`rde/acl_service.py`) | none | update of the entity's ACL and the vApp's, rollback | vCD | failure half way; no lock: updates of one cluster overlap | after an update the two ACLs agree; what overlapping updates agree on holds |
| Exposure (`rde/backend/common/network_expose_helper.py`, `lib/nsxt`) | none | find an address, add or remove a DNAT rule | NSX-T gateway | check, then use; a busy gateway | no address is given twice |
| Organization VDCs, compute policies (`rde/ovdc_service.py`, `client/policy_based_ovdc.py`, `server/compute_policy_manager.py`) | none | enable and disable runtimes, remove a policy | vCD | read here, written there; removal from virtual machines first | the VDC has the runtimes asked for; a VM keeps a policy |
| Installer (`installer/configure_cse.py`) | vCD's configuration | install, upgrade | vCD, RabbitMQ | no transaction: a failure leaves a part behind | a command that failed can be run again |
| Templates (`installer/templates`, `server/cli/server_cli.py`) | catalog items and their metadata | install, import, list what is offered | vCD | items half made; a list changed while it is walked | what is offered is complete, and of a runtime that is enabled |
| PKS broker (`server/pks`, `server/request_handlers/pks`, `lib/nsxt`) | cache of accounts | create, delete, resize, enable a VDC | PKS, NSX-T | isolation known by name; deletion after the answer | an accepted cluster is isolated |
| REST requests (`server/request_dispatcher.py`, `server/request_handlers`, `security/context`) | the context of a request | search of the table, checks, stages of each handler | services | who ends the context, the request or its thread | right handler; checked before changed; context kept and closed |
| Client (`client/`) | `profiles.yaml` | the cluster commands | server, vCD | same names in several organizations and kinds; read, then replace | acts on the cluster that was meant |
| Validators, models, configuration, telemetry, generated clients | configuration, caches | pure checks, reporting | | little: stateless or generated | |

How a request travels: vCD publishes a message; the network thread of the
consumer gives it to the pool, or refuses it; a pool thread dispatches it to a
handler; the handler reads the RDE, checks it, writes `phase = X:IN_PROGRESS`
and the task's href with `update_entity`, starts a daemon thread and answers
`RUNNING`; the daemon thread works on the vApp, stores `X:SUCCEEDED` or
`X:FAILED` and ends the task by a message to vCD.

`PROJECT.json` lists every component with its status, and each hazard of the
code at its line with the properties that would catch it.

## 2. Plan

1. **EntityStore, EntityUpdate** (written, proved). Every other component
   writes through `update_entity`; what it promises has to be known first.
2. **ClusterService** (written, proved). All operations of the 2.x service,
   concurrently, with failures and a crash.
3. **Server** (written, proved). The process around it.
4. **AmqpConsumer** (written, proved). Acknowledgement before submission, the
   LRU of request ids, redelivery, reconnection, crash and restart.
5. **ClusterThreads, TkgmService, ClusterService1X, VcdBroker** (written,
   proved). The other three services of a cluster's life.
6. **Procedures** and the modules on it: **ClusterAcl, NetworkExpose,
   OvdcPolicies, Installer, TemplateBuild, PksClusters, RestApi, ClusterClient**
   (written, checked; all but RestApi proved).
7. **Resources**, **LifeCycles** and **Services** (written, checked, proved).
   Resources instantiates the modules of 6 that proofs are about, LifeCycles those
   of 5; Services extends both and is one specification, a behaviour of which is
   one of one service. Its proofs lift what is proved of each.
8. **Proofs that are left**: the REST table, which would complete `TypeOK`.
9. **TaskMessages**: the order of task updates on the bus, which lets
   ClusterService drop its assumption that the first terminal status stays.
10. **Validators, upgrade paths**: pure operators, checked against a reference
    definition over bounded inputs. **Start-up** of `Service.run`.

`Server`, `ClusterService` and `EntityUpdate` are checked alone, each
with the others abstracted to what it uses of them.

## 3. The modules and the code

### EntityStore and EntityUpdate

`EntityStore` is the abstract specification: a caller asks for changes to some
attributes of the entity; the store applies them in one step, at most once; the
call returns if they were applied and raises if they may not have been.

`EntityUpdate` is `DefEntityService.update_entity`. A caller is an operation
context, with the CloudAPI client it owns.

| Module | Code |
|---|---|
| `Call` | entry of `update_entity` |
| `GetEntity`, `GetFails` | `get_entity`, which leaves its response in `_last_response` |
| `ReadEtag` | the ETag of `get_last_response()`; merge of the changes into the copy |
| `PutEntity`, `PutReplyLost`, `PutConflict`, `PutRefused`, `PutNotSent` | the PUT with `If-Match`, and what vCD may answer, or not answer |
| `HandlePutException`, `Retry` | the except block: status 412 and attempts left: start over; otherwise raise |
| `lastResponse` | `CloudApiClient._last_response` |
| `ClientOf` | the client cached per context and API version |

`AtomicUpdates` says that `EntityUpdate` implements `EntityStore` (`Store ==
INSTANCE EntityStore WITH outcome <- ...`; a call that is exhausted has raised).
A PUT of a caller who is not a system administrator also drops `status.private`
from the copy; vCD owns that property and it is left out.

### ClusterService

One action per call out of the server, together with the decision that follows
it; between two such steps every other thread may run. `update_entity` is one
step here, as EntityUpdate allows: `Put` applies the change, `PutFails` raises
and may have applied it.

| Module | Code (`cluster_service_2_x.py`) |
|---|---|
| `rde[k]` | the RDE: state, `status.phase` as `op` and `status`, `task_href`, whether `externalId` is set, node counts |
| `vapp[n]` | the vApp of a name; vCD refuses a second one |
| `task[o]`, `taskStatus[o]` | the task in vCD, and `self.task_status` of the service object |
| `pc[o]`, `child[o]`, `todo[o]` | which thread of the operation is active, and where; a monitor joins its children one by one, so one `pc` follows them |
| `seen[o]` | what the operation kept of its last read |
| `CheckCreate`, `CheckEntity`, `Refuse`, `RejectTemplate`, `MarkBusy`, `AbortCreate`, `AnswerError` | the handlers `create_cluster`, `resize_cluster`, `upgrade_cluster`, `delete_cluster`, `force_delete_cluster`, `delete_nodes` and the dispatcher's error answer |
| `ReadInfo`, `StoreInfo` | `get_cluster_info` with `_sync_def_entity` |
| `MakeVapp` ... `Record` | `_create_cluster_async` |
| `Upgrade`, `RecordUpgrade` | `_upgrade_cluster_async` |
| `DeleteVapp`, `Purge`, `Forget` | `_delete_cluster_async`, `_force_delete_cluster_async` |
| `Monitor`, `Add`, `Grow`, `Del`, `Shrink`, `Fin`, `Finish` | `_monitor_resize`, `_monitor_delete_nodes` and their children `_create_nodes_async`, `_delete_nodes_async` |
| `Fail`, `Rollback`, `Undo`, `Sync`, `Write`, `Err`, `Ok` | the except blocks, `_fail_operation`, `_delete_vapp`, `_sync_def_entity`, `_update_task` |
| `Crash` | the process dies, and its daemon threads with it |

Actions whose name ends in `Fails`, `Refused` or `Dies` are the error paths of
the action they are named after. vCD is external: it makes the entity before it
invokes the create behavior, resolves it when that task ends, removes it when
the delete task succeeds, and keeps the first terminal status of a task.

Nodes are counted, not named. Software versions, the exposure of clusters, the
ACL operations and the CPU and storage figures of nodes are left out, and a
resize that only removes the exposure is no request of the model.

### Server

| Module | Code |
|---|---|
| `state`, `main`, `consumer` | `Service._state`, the loop of `Service.run`, `Service.consumer` |
| `Receive`, `Submit`, `Count`, `Register` | `on_message`; `ConsumerThreadPoolExecutor.submit`: submission, increment of the active count, registration of the callback |
| `NetworkFails`, `StopItself`, `Die` | an error or a refused connection in the network thread; `consumer_thread_run` stops the consumer |
| `Dispatch`, `Handle`, `Answer`, `Done` | a job of the pool, from the dispatcher to the callback that decrements the count |
| `ReadState`, `SetState` | `Service.update_status`, which reads and sets the state without a lock |
| `Work` | the daemon thread of an operation |
| `WatchState`, `WatchThread`, `Restart` | `consumer_watchdog`: three steps, as the state, the thread and the new consumer are used one after the other |
| `Break`, `Interrupt`, `Close`, `Exit` | the main loop, Ctrl+C, `consumer.stop()`, the end of the process |

The three comparisons of `update_status` count as one read. Malformed messages
are not modelled: a job whose message lacks a header ends without an answer.
The start-up of `Service.run` is sequential and left out.

### AmqpConsumer

| Module | Code (`mqi/consumer/amqp_consumer.py`) |
|---|---|
| `broker[m]` | the message of a request in RabbitMQ: queued, settled (its acknowledgement or rejection is under way), or gone |
| `job[m, c]` | the job of a request as delivered on the connection `c` |
| `cache` | `REQUESTS_BEING_PROCESSED`, the `LRUCache` of the ids in process |
| `Deliver` = `RejectDuplicate` or `Acknowledge` | `on_message`: an id that is in the cache is rejected and taken out of it; any other is acknowledged |
| `CheckBusy` = `AnswerBusy` or `Remember` | `max_threads_busy`: the answer to try again, or the id is put into the cache |
| `Submit`, `Process`, `Reply`, `Forget` | the pool, and a job up to `send_response` and the removal of its id |
| `Settle` | RabbitMQ takes note of an acknowledgement or a rejection |
| `Disconnect`, `Reconnect` | a lost connection, at which RabbitMQ delivers again what was not settled; the consumer's reconnection |
| `Stop`, `Exit`, `Crash`, `Start` | the end of the process, in order or not, and the next one |

`replied`, `unsent`, `lost`, `rejected` and `evicted` are history variables.

### ClusterThreads, TkgmService, ClusterService1X, VcdBroker

`ClusterThreads` has what the three share: one cluster, its RDE, vApp, task and
the local variables of the threads. A procedure is a chain of calls, `Call(...)`
from one program counter to the next, with the exceptions each may raise.

| Module | Code | What differs from ClusterService |
|---|---|---|
| `TkgmService` | `rde/backend/cluster_service_2_x_tkgm.py` | a refresh token and a DNAT rule belong to the cluster; no node is removed by a resize; no upgrade |
| `ClusterService1X` | `rde/backend/cluster_service_1_x.py` | the RDE is read, changed in memory and written back whole, without `If-Match` (`mem.copy`, `mem.temp`); the task of an update ends before its result is stored; a delete removes the RDE in the handler and the vApp in the thread; workers and NFS nodes are counted together; an upgrade drains, upgrades and uncordons group by group |
| `VcdBroker` | `server/vcdbroker.py` | no RDE: `owner` is the cluster id in the vApp's metadata, `tagged` whether it was set, `seen` the cluster a request found; nothing marks a cluster as busy |

### The procedure modules

`Procedures` is their convention: `world` is what other systems keep, `loc` the
local variables of each actor, `pc` its next call; `Call` changes the world or
fails, before or after the change; `Query` may fail and changes nothing; `Step`
is work without a call. Fields of `loc` that a comment calls history are read by
properties only.

| Module | Code | World, actors, actions |
|---|---|---|
| `ClusterAcl` | `rde/acl_service.py`, `update_cluster_acl` of the services | the ACL of the entity with the ids of its entries, the access settings of the vApp; a request shares and unshares user by user (`Share`; `Unshare`, by the id it read), then sets the vApp's (`UpdateVapp`), or rolls back. The handler takes no lock: any number of requests overlap, and `alone` (history) marks one that no other overlapped |
| `NetworkExpose` | `rde/backend/common/network_expose_helper.py`, `lib/nsxt/nsxt_backed_gateway_service.py` | the DNAT rules; clusters look for an address (`LookUp`), add the rule, again while the gateway is busy, find and delete it |
| `OvdcPolicies` | `rde/ovdc_service.py`, `client/policy_based_ovdc.py`, `server/compute_policy_manager.py` | the policies of a VDC and of its VMs; the client reads and sends a list, the server makes it so (`Diff`, `AddPlacement`, `DeleteNext`, `TakeFromVm`) |
| `Installer` | `installer/configure_cse.py`, `mqi/mqtt_extension_manager.py` | extensions, the parts that exist, RDEs and the metadata of legacy vApps; a command is a list of stages, one per call. The AMQP extension is registered with its filters by one call (`RegisterAmqp`) and updated by three: `UpdateAmqp`, and the removal and addition of its filters |
| `TemplateBuild` | `installer/templates/`, `server/cli/server_cli.py` | catalog items with tag and metadata, the temporary vApp. The catalog may hold items of an older CSE and complete ones of any runtime at first. `get_valid` is what the server offers; as in the code, it removes from the list it walks |
| `PksClusters` | `server/pks/pksbroker.py`, `server/request_handlers/pks/`, `lib/nsxt` | the clusters of PKS, groups and sections of NSX-T; PKS deletes after it answered (`PksDeletes`) |
| `RestApi` | `server/request_dispatcher.py`, `server/request_handlers/`, `rde/validators`, `security/context/operation_context.py` | the table, row by row; a handler is the list of its stages; the session, the task and the thread of a request |
| `ClusterClient` | `client/` | `Filter` is `get_command`, `Session` restores the session and caches the server's version, `Choose` and `ClassOf` are `Cluster.__new__`, `FindNative`, `FindTkgS` and `NextMixed` the look-ups by name, `PutAcl` and `PutEntry` the two ways to change an ACL, `Again` a user who repeats a command that failed |

`Resources` instantiates ClusterAcl, NetworkExpose, OvdcPolicies, TemplateBuild and
PksClusters, `LifeCycles` the services TkgmService, ClusterService1X and VcdBroker;
`Services` extends both, adds Installer, RestApi and ClusterClient and composes all of
them, and `MCServices` is its instance for TLC. Which service serves a request is fixed by the
kind of the cluster and the API version, and the procedures share no record with
each other, so the service is chosen in `Init` and kept.

## 4. What is checked

Every property has a comment that says what it means. The passing runs:

| Run | Instance | What it shows |
|---|---|---|
| `entity_update` | 2 callers, 2 attributes with 2 values, 2 attempts, 4 calls; conflicts, refusals, lost requests and replies, a deletion of the entity | `AtomicUpdates` (refinement), `FreshCopy`: an accepted PUT carries the stored entity with the requested changes only, `ExhaustedByOthers`: a call gives up only after as many updates by others as it had attempts. 1.4 million states. |
| `cluster_ops` | a deployed cluster, two requests of five kinds on two threads, one failed entity call | `BusyHasLiveTask`, `TaskTellsPhase`. 1.7 million states. |
| `cluster_create` | a new cluster, a create and any second request, one failed call, one crash | `DeleteIsComplete`, `RollbackIsComplete`, `BusyHasLiveTask`, and the liveness property `TaskEnds`. 265 thousand states. |
| `cluster_exclusive` | three creates, upgrades, deletes and reads of two clusters, one of them deployed, on a pool of one thread | `Exclusive`: with one thread the phase is a lock. Every thread that works on a vApp counts as working, creates and their rollbacks too, but for the forced delete, which asks for no lock. 113 thousand states. |
| `server` | three messages of any kind, two threads, one failure of the network thread | `NeverQueued`, `OnePool`, `AnsweredBeforeExit`, and the liveness properties `AcceptedIsAnswered`, `ConsumerIsReplaced`, `StopEnds`. 248 thousand states. |
| `amqp` | two requests, two threads, a cache of one id, up to two losses of the connection; crash, restart, stop | `NotTwiceAtOnce`, `CacheIsLive`, `AnsweredUnlessLost`, and the liveness property `EventuallyAnswered`. |
| `services` | one of eleven services, two requests or commands at once, one failed call at any point | the properties below. 3.9 million states. |

What `services` shows, service by service:

| Service | Property | Meaning |
|---|---|---|
| TKGm, 1.x, legacy | `RollbackIsComplete`, `DeleteIsComplete` | a rolled back create and a deletion that succeeded leave neither entity nor vApp, token or rule |
| TKGm, 1.x, exposure | `ExposedHasRule` | an entity that says it is exposed has its rule; an exposure that succeeded has the rule it returned |
| 1.x, legacy | `UpgradeIsComplete` | upgrades that succeeded leave no node drained and one version, however they overlap |
| TKGm, 1.x, legacy | `TaskEnded` | threads that have ended have ended their task, whatever failed |
| legacy | `OnlyOwnRollback` | of two creates of one name, the one that fails never deletes the vApp of the other |
| ACL | `AclsAgree` | after an update that no other overlapped, entity and vApp are shared with the same users; a failed one leaves each user the old or the new level |
| ACL | `RollbackIsComplete` | an update that failed alone, and whose rollback did not fail, leaves the entity's ACL as it was |
| ACL | `AclsAgree`, second part (`AgreedIsShared`) | of overlapping updates: a user to whom all of them give one level has it, in the entity and the vApp, once one of them succeeded, and a user whom all leave out is out of the entity |
| exposure | `RulesDiffer` | two clusters share no address, and a cluster has one rule at most |
| VDC | `OvdcAsRequested`, `VmsKeepPolicy` | a request changes the runtime it names and no other; a VM keeps a policy, and one that its VDC has |
| installer | `InstallConverges` | a command that succeeds, after any failures, leaves what the server needs and looks for; the new version is claimed only when all clusters are migrated |
| templates | `TemplatesAreComplete` | what the server offers is complete, and all that has its metadata and is served; of a disabled TKG+ only what is listed right after a template that was skipped; what a command built is complete |
| PKS | `PksIsIsolated` | a cluster that is accepted is isolated; names of an organization differ |
| REST | `RequestIsServed` | no row of the table hides another; a refused request has changed nothing; a thread keeps its context, and the context is closed after it |
| client | `ClientsActAsAsked` | a command acts on a cluster of the name, organization and runtime asked for, guesses between none, creates one, and gives the users of an ACL what was asked |

The runs that end in a violation, each a disagreement of the code with what the
repository says of it:

| Run | Property | What happens |
|---|---|---|
| `resize_join` | `NoSilentFailure` | the except block of `_create_nodes_async` fails on a `ClusterJoiningError`, the child dies, and the resize is recorded as a success |
| `create_rollback` | `OwnVappOnly` | of two creates of one name, the rollback of the one deletes the vApp of the other |
| `update_unlinked` | `SuccessIsRecorded` | a deletion of NFS nodes on a cluster without vApp ends its task in SUCCESS and leaves the cluster busy |
| `server_stop` | `StopWaits` | a stop does not wait for the daemon threads of operations |
| `server_disabled` | `DisabledStartsNothing` | behavior invocations are handled while the server is disabled |

Several properties hold with exceptions, which they name; each is a behaviour of
the code a reader should know of:

* `BusyHasLiveTask` and `TaskTellsPhase` leave out an update of a cluster without
  `externalId`, where `_sync_def_entity` stores nothing (`update_unlinked` shows
  that case). `BusyHasLiveTask` also leaves out a crash, after which nothing
  resumes the operation, and a lost write of the phase. `TaskTellsPhase` leaves
  out a resize that errs: its child stores FAILED, and ends the busy phase, while
  the monitor still runs; and it does not speak of a phase that another request
  stored over. `AnsweredBeforeExit` and `AcceptedIsAnswered` leave out a server
  whose watchdog put a new consumer in place during the shutdown (`Overtaken`).
* `NotTwiceAtOnce`: a request whose second delivery was rejected, or whose id
  another one evicted, may run twice. `AnsweredUnlessLost`: an answer that finds
  no channel is dropped, and so is a message that was acknowledged before a stop,
  or a crash, kept it from the pool.
* `Exclusive` is about a pool of one thread. With two, handlers that both read an
  idle phase both mark the cluster busy; nothing claims that they do not.
* `DeleteIsComplete` is about the vApp the handler saw; one that a create links
  later, its phase having been lost, is left. `StopEnds` starts from a stop that
  no unlocked update of the state can undo; a stop that one overwrote is lost.
* `AclsAgree`: updates that overlap and differ may leave the entity as one of them
  asked and the vApp as the other; after a rollback that failed the users form
  neither the old list nor the new. Its second part: a user whom overlapping
  updates all leave out may stay in the vApp, as the settings that one of them
  keeps may be older than those another wrote.
* `RollbackIsComplete` of TKGm and 1.x clusters, and `ExposedHasRule`, are about
  runs without a failed call; `ExposedHasRule` of 1.x about one request at a time.
* `TemplatesAreComplete`: of two TKG+ templates listed one after the other, the
  second is offered by a server without TKG+. The comment in the loop of
  `get_valid_k8s_local_template_definition` says 'TKG+ is not enabled on CSE
  config. Skip the template' (`installer/templates/local_template_manager.py:193`),
  but the first one is removed from the list that is being walked (`:198`), and the
  walk passes over the second. It is a bug of the code; the property allows this
  case and no other.
* `RulesDiffer`: two clusters may get one address when one rule is created
  between the look-up and the rule of the other (`crossed`).
* `OvdcAsRequested`: of two clients that read the list of runtimes before either
  sends it back, one undoes the other's change (`crossed`); a client to which
  TKG+ is hidden drops it from the list.
* `InstallConverges`: the ACL of the entity type is set only by the attempt that
  creates the type; clusters of one name in two organizations are migrated to one
  entity.
* `PksIsIsolated`: an isolation that an earlier cluster of the name left, and
  searches that failed, mislead the broker (`stale`, `raced`, `blind`).
* `RequestIsServed`: a handler that raises after it marked its context as
  asynchronous leaves the session open and the task running, and so does a thread
  whose first login fails.
* `ClientsActAsAsked`: a native ACL is replaced by one built from an earlier read
  (`stale`); `apply` of native clusters is not filtered by organization; the
  legacy client ignores a runtime that was not filtered out; the first of two
  native clusters of one name is taken; `delete-nfs` is not hidden while the
  server is down.

### Bounds

* Two requests on one cluster are enough for every pairwise race. Three are
  used where the property is about exclusion; one of two clusters is not there
  yet, so that creates are among them. A third request in `cluster_ops`
  adds no kind of step; it only multiplies the orders.
* Node counts of 0 and 1 suffice for a resize that adds, removes, does both or
  neither; a resize that removes workers and adds NFS nodes runs both children.
* One failed entity call reaches each error path; failures of operations on the
  vApp and of the creation of nodes are not bounded. One crash reaches each
  point a restart can find.
* Two attempts let a call succeed at once, succeed after a conflict and be
  exhausted. Four calls let a caller be overtaken at each of its attempts, and once more.
* Three messages and two threads fill the pool and leave one to be refused; one
  failure of the network thread makes the watchdog act, at any time.
* In `services` two requests race on one object: one cluster of a TKGm, 1.x or
  legacy service, one cluster with an ACL of two users (one of the system
  organization; what an update does to a user of the organization depends on that
  user's own entries and ids only, so one user shows every order), two clusters with three addresses (two ranges), one VDC with
  two runtimes, one sizing policy and one VM, two legacy clusters to migrate, three
  revisions (two of TKG+, which may be listed one after the other) and one import
  of templates, one name of two users in PKS, two
  existing clusters and two new ones for the client. One worker more or less
  makes a resize; one failed call, with its effect or without, reaches each error
  path. A behaviour of one service never meets another's records.
* Two requests and a cache of one id make one evict the other; two losses of the
  connection allow a redelivery and a loss during it; both messages fit the pool,
  and a redelivery finds it full.
* `CHECK_DEADLOCK FALSE`: the server stops by its exit, and the systems of
  ClusterService, EntityUpdate and AmqpConsumer when their bounded requests are
  done. `services` checks deadlock: its `Rest` step is possible only when no
  request is at work, so that a request which could neither go on nor fail would
  be reported.
* Requests are symmetric in the runs that check only safety; the runs with
  liveness use no symmetry.

### Fairness

`ClusterService!FairSpec` lets the threads of every operation go on: Python
schedules its threads, and vCD answers or refuses each call (a call that never
returns is ended by the timeout of the HTTP client, a failure). Nothing is
assumed about which answer comes, nor that users send requests.
`Server!FairSpec` lets the network thread, the watchdog, the main thread and
each job go on. It assumes nothing about the arrival of messages, failures,
Ctrl+C, or the end of the work of daemon threads.
`AmqpConsumer!Spec` lets the connection's thread go on (`CheckBusy`, `Submit`,
`Reconnect`), the broker deliver and settle each message, each job of the pool
go on to its end, and a stopped process exit. A message is never kept from being
delivered by a consumer that listens, as RabbitMQ pushes it. Nothing is assumed
about `Disconnect`, `Stop`, `Crash` or `Start`.
The other modules have no fairness: what they promise is safety, with `TaskEnded`
and the check for deadlock in place of progress.

## 5. What is proved

The theorems hold for every number of callers, attributes, attempts, messages,
threads, requests, clusters, nodes, users, policies, templates and failures. They
rest on the assumption of the module they are about (`EntityAssumption`,
`ServerAssumption`, `AmqpAssumption`, `ClusterAssumption`, `ThreadsAssumption`,
`ResourcesAssumption`, `LifeCyclesAssumption`, `InstallerAssumption` and
`ClientAssumption`): bounds are
natural numbers, there is at least one attempt, thread, worker or cached id, the
revisions of templates are finitely many, addresses are integers, there is a user to
share a cluster with, the bound on RDEs
leaves one for each cluster to migrate, and a value that stands for none (`Keep`,
`Gone`, `NoRequest`, `Absent`) is not one of the values it is told from. One
theorem, `Exclusive`, has hypotheses of its own, as the code does not promise it
without them.

**EntityUpdateProofs.** `IInv` says what holds from the GET to the PUT: the copy
of a caller is the entity as of the ETag it holds, so that if the ETag is still
current the copy is fresh; and the ETag is at least the one at the start of the
call plus the attempts spent. `FreshCopy` alone is not inductive, as it speaks
only of the moment of the PUT. `Inductive` proves that every action keeps `IInv`;
`TypeCorrect`, `FreshCopyHolds` and `ExhaustedByOthersHolds` follow. `Implements`
proves the refinement: each step is one of `EntityStore` or leaves its variables
alone, and the PUT that vCD accepts is the step that applies the changes, which
needs the freshness of the copy.

**ServerProofs.** `NeverQueued` is not inductive: the count that guards the
admission of a message is incremented after the submission. `IInv` adds that the
active count is the number of jobs the pool holds but for the one that is
submitted and not yet counted, and that there was room for that one before the
submission (`CountInv`); what each point of the network thread implies of its
message (`NetInv`); and that a consumer to be replaced has a dead network thread
(`WatchInv`). `TypeCorrect`, `NeverQueuedHolds`, `OnePoolHolds` and
`AnsweredBeforeExitHolds` follow. The counting needs lemmas about how the set of
held jobs changes by one element.

**AmqpProofs.** The properties speak of states that are several deliveries apart.
`IInv` adds to them what each point of the connection's thread implies of the id
it holds (`NetInv`), that a request which was neither rejected nor evicted has one
job at most, its id in the cache while it runs, and is not at the connection's
thread meanwhile (`OneJobInv`), and what is known of a request whose message is
settled but not yet gone (`AnswerInv`). There is a lemma per action; the bound of
the cache needs the cardinality of a set that loses or gains an id. `TypeCorrect`,
`NotTwiceAtOnceHolds`, `CacheIsLiveHolds` and `AnsweredUnlessLostHolds` follow, for
any requests, pool, cache and number of connections.

**ClusterServiceProofs.** `IInv` has a part about each request alone (where its
threads may be, `PathInv`, `ThreadInv`; when its task ends, `TaskInv`; what it has
stored, `WroteInv`) and one that relates it to the entity, the vApp and other
requests. Two of the latter carry the argument. `BusyInv`: the entity of a busy
cluster names a request that marked it, has stored nothing since and has not
ended; it implies `BusyHasLiveTask`, which does not say *which* request is alive
and is therefore kept by no step that ends one. `OrderInv`: a create is the first
request on its cluster, and until it has ended all others have been refused or only
read; without it a deletion could run between the steps of a rollback, and
`RollbackIsComplete` would not be kept. A step changes at most the entity and the
vApp of its own cluster and its own record, so there are lemmas by group of
actions (`HandlerStep`, `CreateStep`, `UpdateStep`, ...) for each part, and one
lemma that says what a step leaves to another request. Crashes and the beginning
of requests are steps like any other. `TypeCorrect`, `BusyHasLiveTaskHolds`,
`TaskTellsPhaseHolds`, `DeleteIsCompleteHolds`, `RollbackIsCompleteHolds`.

`ExclusiveHolds` (the phase is a lock, for creates with their rollbacks, upgrades and
deletes; the forced delete asks for none) assumes `LockAssumption`: one thread in the
pool, no failed entity calls, no request that resizes or deletes NFS nodes. Each
hypothesis is needed. Handlers check the phase and set it in two calls, so that
two threads can both find the cluster idle; a write that seemed to fail but was
made ends the phase twice, and so does a resize with its two children: the second
end frees a lock that another request may hold. `LockInv` says who holds the lock
and who has found it free.

**LifeCycleProofs.** Three services, and one way to argue for each. The invariant
has clauses for each request (`TkgmLocal`, `NativeLocal`: what the request itself
keeps, where its threads may be and when its task ends; `TkgmCreate`,
`NativeDelete`, ...: what it knows of the cluster) and clauses for all (`TkgmOrder`,
`NativeOrder`: which requests run together, a create being the first on its
cluster; `TkgmLinked`, `NativeExposed`, `NativeUpgrade`: what the entity and the vApp
have in common). A summary (`TkgmSummary`, `NativeSummary`, `VcdSummary`) says what a
step of request `o` leaves of the cluster and of `o`: each action is shown to do what
the summary says, and one lemma shows that a step of that shape keeps every clause,
for the other requests too.

* TKGm (`TkgmInv`): the DNAT rule of a cluster is removed before the entity stops
  saying that it is exposed, so that whoever removed it is still at work
  (`Unexposing`).
* RDE 1.x (`NativeInv`): an RDE is written back whole from a copy in memory that
  another request may have overtaken. What a copy says of the exposure is therefore
  part of the invariant: a copy that says so is of a cluster with a vApp (`Truthful`),
  and while requests come one at a time and no call has failed (`Alone`) there is a
  rule (`NativeAlone`); otherwise copies that are written back out of order leave the
  entity exposed without one, which `ExposedHasRule` excepts.
* Legacy (`VcdInv`): no entity marks a legacy cluster as busy, so the invariant is
  about the owner in the metadata of its vApp: which create made it
  (`VcdOwnerInv`), that a create which can be rolled back has set the id by which it
  is found (`VcdTaggedInv`), that a rollback or deletion is about to delete its own
  vApp or one someone wanted deleted (`VcdUndoInv`, `VcdGoneInv`), and that nodes
  which are drained, or of the new version while others are not, have an upgrade at
  work or a failed one (`VcdUpgradeInv`), for any overlap of upgrades.

**ResourcesProofs.** An inductive invariant for each of the procedures that
`Resources` instantiates.

* `AclInv`: updates overlap, so that what one has done another may undo. `AclKnown` is
  what an update knows of a user by where it is: half-way (`AclSharing`) the user is
  either still to be seen to or has the level of the target, which during the
  roll-back is the previous ACL; at the end the vApp agrees. It knows this only while it is alone,
  or while all updates that have begun ask the same for that user and none is taken
  back (`AclProgress`). So a step must keep the first for the update that moves, as
  no other is at work then (`AclAlone`), and the second for all of them:
  `AclWrites` is what a step may do to a user on whom they agree.
  `AclTypeCorrect`, `RollbackRestoresHolds`; `AclsAgreeHolds` follows in
  ServicesProofs.
* `ExposeInv`: the address found stays free until another cluster creates its rule
  (`FreeAddress`). `LeastAddress` is the lemma about the search: the address found
  is in a range, is not in use, and none below it is free; it needs the
  well-foundedness of the natural numbers. `ExposeTypeCorrect`, `ExposureIsTrueHolds`.
* `OvdcInv`: until another request changes the VDC, the runtimes on it and those
  still to be added are the ones asked for and those still to be deleted, and the
  list that was sent differs from the one read in the runtime that was named
  (`OvdcListSent`, `OvdcAdding`, `OvdcDeleting`). A policy that a VM has is removed
  from the VDC by no step: vCD refuses it, and the service replaces it before.
* `TmplInv`: an item that carries its metadata was tagged before, as the metadata is
  stamped last; commands on one item, or one temporary vApp, cross each other
  (`Disputed`). What `get_valid` returns is proved for lists of any length
  (`ValidKeeps`): the walk that skips the template after a removed one keeps every
  template that is not of a removed runtime, and of a removed one keeps only what
  follows one it removed. The induction is by the least prefix
  that fails, with the well-foundedness of the natural numbers.
* `PksInv`: a cluster that was not made while an earlier isolation of its name was
  at work has one request that works on its isolation, the one that made it, and what
  there is of its groups and its section is what that request has made so far
  (`PksCluster`, `PksMade`); a section is made after the groups, so that its rules
  are about all of them. The argument needs that ids are given once (`PksIds`), as
  names are not, and what a search found is still so unless a creation crossed it
  (`PksSearched`). `PksRest` and `PksWorks` say what a step must show that does not,
  or does, work on an isolation.

**CommandProofs.** The invariants of the two parts an administrator or a user runs
from a shell, and what their steps do. `InstallConverges` relates a command that succeeds to every
attempt before it, each of which failed at some call. `InstInv` has three parts.
`InstLeft` is what failed attempts may leave, whatever they were: a description is
registered only after the catalog was made, the type only after its interfaces, RDEs
and the metadata of vApps agree (`InstRdes`), and a description of the target
version means that the clusters are migrated, or that the command which wrote it
was an installation. `InstAcl` is about the ACL of the type, which the attempt that
creates the type makes next, or no attempt (`torn`). `InstRun` is about the command
at work, whose plan is the sequence of its stages still to come: every part it must
leave is there or among them (`InstMade`), they come in an order in which none
undoes what is done and the description comes after the clusters (`InstStages`, by
`Then` and `NeverAfter`), and every cluster that is promised is migrated, at work
(`InstMoving`) or to come (`InstListed`). `PlansJoined` and `PlanAhead` are the
lemmas about sequences: what these orders become when plans are joined and when the
first stage is done. The exceptions of `InstallConverges` are needed: of two
clusters of one name the second finds the RDE of the first.

`ClientsActAsAsked` is about commands of several users at once, on clusters that may
be created and deleted meanwhile. `ClientInv` has a part about a command alone
(`ClientLocal`), as a predicate of the clusters and its local variables: its session
is what the profile says of the server (`ClientSession`), its class follows from the
session and the runtime it was given (`ClientClass`), and its target is a cluster
that the search showed when no other was shown, but for a second native one
(`ClientTarget`). As clusters that were there before can only go, what a search has
not shown stays not shown. The other parts are about commands together: a cluster
was created by one of them, after a search that showed no such cluster
(`ClientMade`); the access of a user whom no command named is what it was, and that
of a user whom one did is what was asked for as far as the command has come, unless
another disturbs it (`ClientAcl`); and a share that is alone lowers none
(`ClientAlone`).

**ServicesProofs.** The properties of the run `services`, for the composition. A
behaviour is one of one service (`OneService`), so `SInv` is, per service, an
inductive invariant about its variables: one of ResourcesProofs, LifeCycleProofs or
CommandProofs. The steps of the client are put together here. `RollbackIsCompleteHolds`, `DeleteIsCompleteHolds`,
`ExposedHasRuleHolds`, `UpgradeIsCompleteHolds`, `TaskEndedHolds`, `OnlyOwnRollbackHolds`,
`AclsAgreeHolds`, `RulesDifferHolds`, `OvdcAsRequestedHolds`, `VmsKeepPolicyHolds`,
`TemplatesAreCompleteHolds`, `PksIsIsolatedHolds`, `InstallConvergesHolds` and
`ClientsActAsAskedHolds`.

**Only model-checked.** `RequestIsServed`: that no row hides another is a fact about a
finite table, which TLC settles by looking at all of it. As the invariant of this
service is not written, `TypeOK` of `services` as a whole is not proved either; its
parts about the other ten are in their invariants.
And all liveness: `TaskEnds`, `AcceptedIsAnswered`, `ConsumerIsReplaced`, `StopEnds`
and `EventuallyAnswered` are temporal properties under fairness, out of reach of the
proof system.

## 6. What is not modelled

Components with status `not_modelled` in `PROJECT.json`:

* *MQTT publisher*: builds payloads and publishes under a lock. What its messages
  do to a task is part of ClusterService; their order is planned (section 2).
* *Entity validators and models*: pure classes. The checks that decide whether an
  update is accepted are in RestApi (`update_allowed`, `Validate`); the fields of
  the models, and defaults, are not.
* *Server configuration*, *telemetry and logging*, *generated and wrapped REST
  clients*: a dictionary written at start-up, reporting whose failures are
  swallowed, and code without logic of this program.

Parts of modelled components that are left out: lists, and the configuration
download, of the services, which change no state; the commands of the client
for nodes, VDCs, templates, the system and PKS, which pass one request through;
the text and pages of answers; the resource versions of TKG-S clusters; the
difference of API 35 and 36 in the client, which is one version "full" there; the
validation and encryption of the configuration file; malformed messages.

Hazards no property covers: a create that fails with an unknown error is not
rolled back (`cluster_service_2_x.py:1149`; ClusterService has the branch, but no
document says what should become of the vApp); the handler's own `RUNNING` may be
published after the final status (`:315`); a monitor joins threads by a suffix of
their name, which need not be its own children's (`:1233`; the model joins the
children).
