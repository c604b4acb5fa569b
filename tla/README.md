# Verification of the meeting-operator

The meeting-operator runs Jitsi, Etherpad and Whiteboard instances on Kubernetes.
One process (`main.go`) holds a controller per custom resource. Each controller is a
function from the cached resource to calls on the Kubernetes API; nothing else is
kept between two reconciliations. There are no tests in the repository. What is hard
about the program is therefore not in any function but between them: reads come from
caches that lag, writes are refused by an optimistic lock, most errors are logged and
dropped, event filters suppress events, and the process may stop between two calls.
That is what these models are about.

## 1. Inventory

| Component | State | Operations | Interaction |
|---|---|---|---|
| **JVB** (`internal/jitsi/jvb`) | the JVB resource; per replica *N* a Deployment `jvb-N`, two Services, a ConfigMap; two shared ConfigMaps; in memory the copy of the resource, the loop counter, the accumulated `envs` | `Reconcile`, `Create`, `Update` (with `updateReplicaCount`), `UpdateStatus`, `Delete`, `additionalEnvironments`, `getExternalIP` | API server through client and cache; event filter `isSpecUpdated`; AutoScaler writes its spec; the cloud assigns addresses |
| **Graceful shutdown** (script in `internal/jitsi/jvb/cm.go`) | `confCount`, `pid`, the exit code; of the pod its grace period | the commands of `graceful_shutdown.sh` | REST interface of the bridge, s6, signals, the kubelet |
| **AutoScaler** (`internal/jitsiautoscaler`) | the AutoScaler resource, read only | `Reconcile` -> `Scale` through Prometheus or InfluxDB, requeued every `repeat` | reads load, writes `spec.replicas` of a JVB resource |
| **Web, Prosody** (`internal/jitsi/{web,prosody}`, `internal/jitsi/service.go`) | one Deployment, one Service, (Prosody) a ConfigMap with a TURN credential | get-or-create, update, delete | the shared service helper; Prosody reads Secrets |
| **Jigasi, Jibri, Jicofo** (`internal/jitsi/{jigasi,jibri,jicofo}`) | one Deployment or StatefulSet, (Jicofo) a ConfigMap | get-or-create; Jicofo: create, else update | - |
| **Etherpad, Whiteboard** (`internal/{etherpad,whiteboard}`) | one Deployment, one Service | update, else create; delete | - |
| **Finalizer helpers** (`internal/utils/finalizers.go`) | - | `AddFinalizer`, `RemoveFinalizer`: a PUT of the whole object | called by all controllers but the AutoScaler |
| **Errors, labels** (`internal/errors`, `internal/utils`) | - | constructors and predicates | - |
| **API types, manifests** (`apis`, `config`, `deploy`) | - | CRD defaults, among them `spec.replicas: 1` | what a write that omits a field turns into |
| **Manager** (`main.go`) | leader lease, informers, queues | start, stop | one worker per controller, no cache or resync options |

What makes each of them correct:

- *JVB*: every replica asked for stands and carries the present configuration; no
  surplus stands; nothing is rolled back to an older configuration; the status says
  what is there; no event is lost for good; a deletion completes and leaves nothing;
  clients are told where they reach a bridge, and resyncs do not restart it.
- *Several JVB resources*: one of them does not lose its bridges to another.
- *Graceful shutdown*: no conference the script could see is cut off, the script is done
  within the grace period, and does not leave the process it aimed at drained and running.
- *AutoScaler*: the count it writes stays between the minimum and the maximum and is
  derived from a count that is still the stored one; an outage of the monitoring does
  not scale the service down.
- *The one-application controllers*: from every partial state a reconciliation comes
  to the full one (creation is idempotent), an error is retried, nothing is rolled
  back, a deletion completes and leaves nothing; the config map of Prosody, and in time its
  pod, has the TURN credential that is meant.
- *Finalizer helpers*: they change only the object version that was read.

The behaviours that are hard, at their lines, are the `hazards` of `PROJECT.json`.

## 2. Modules

| Module | What it is |
|---|---|
| `CustomResource` | one custom resource: API server, users, watch, cache, event filter, queue; finalizer helpers |
| `CustomResourceProofs` | lemmas about it, used by the proofs of two controllers |
| `Follower` | the abstract specification of a controller, with its theorems |
| `JVBController` | the JVB controller and its child objects, on top of `CustomResource` |
| `JVBRequirements` | its properties and the fairness |
| `JVBRefinement` | the JVB controller as a `Follower` |
| `JVBProofs` | theorems about it: its safety, that it is a `Follower`, that it loses no event, what stands at rest |
| `AppController` | the seven controllers of one application each, on top of `CustomResource` |
| `AppRequirements`, `AppRefinement` | their properties and the fairness; the seven as `Follower`s |
| `AppProofs` | their types, that they are followers, and what their children are at rest |
| `AutoScaler` | the AutoScaler and the JVB resource it scales, on top of `CustomResource` |
| `AutoScalerRequirements`, `AutoScalerProofs` | its properties and the fairness; theorems |
| `GracefulShutdown` | the preStop script of a bridge, with the bridge, its supervisor and the kubelet |
| `ShutdownRequirements`, `ShutdownProofs` | its properties; theorems |
| `BridgeAddress` | the ports and the address in the environments of the bridges, and their Services |
| `AddressRequirements`, `AddressProofs` | its properties and the fairness; theorems |
| `Neighbours`, `NeighboursProofs` | several JVB resources in several namespaces; theorems |
| `TurnCredential` | the credential of Prosody, from the Secret to the config map and to the pod |
| `MCJVB`, `MCApp`, `MCAutoScaler`, `MCShutdown`, `MCAddress`, `MCNeighbours`, `MCTurn` | instances for TLC; the bounds are in the `.cfg` files of these names |

How they fit together: `CustomResource` is the common ground of the three models in which
the versions of a resource matter. `JVBController` has every call of the JVB controller
and renders a child as a serial number. Three modules enlarge what it abstracts:
`BridgeAddress` what is rendered into a bridge, `Neighbours` the other resources of
the same controller, `GracefulShutdown` what the rendered script does when a bridge is taken
down; `TurnCredential` does the same for the one rendering of `AppController` that reads
another object. Each leaves to the larger model what that has already, and says so at
its head.

### CustomResource

`cr` is the stored object and `rv` the last resourceVersion handed out. Every write
gives the object a new `rv` and appends it to `watch`, the stream of versions towards
the informer; `Deliver` moves the head of the stream into `crCache` and puts the key in
the queue (`queued`, a Boolean, since a work queue holds a key once) if the event filter
of the controller agrees. `Relist` is a watch that broke: the informer skips to the
present state and the filter sees several versions as one update. `Resync` is the
informer's periodic self-update (ten hours, the default, as `main.go` sets no other).
`RestartInformer` is the start of a new process.

A version holds `replicas`, the status, the finalizer, the deletion mark, and `conf`:
everything else of the spec that reaches a child object, represented by the serial
number of the user's write that set it. This keeps of the data just what the
properties ask about: which of two renderings is older.

The optimistic lock is `Current(v)`: the version sent must carry the stored
resourceVersion. The CRD default is `Defaulted`: `replicas` is `omitempty` with the
default 1, so a resource scaled to 0 comes back as 1 when the operator PUTs it whole.

### Follower

What every controller promises, whatever its calls: in rounds that do not overlap it
takes one version of the wish into view, never one older than what it has made, and
makes or removes things only as that version says. `Complete` is the API server
changing the version in view (the CRD default, at a finalizer PUT). The variables are `wish`,
`view` and `made`; `JVBRefinement` and `AppRefinement` map them to the stored resource, the copy
the worker holds while it works, and the children.

### JVBController

One action is one call to the API server, with the cache reads around it. `pc` is the
call to come, `loop` and `replica` the loop it belongs to, `obj` the `*v1beta1.JVB` in
memory. `service` and `instance` remember whether what `getService` and `getInstance`
returned was absent, stale or current, which is all that decides the answer to the
later write. `child[o]` is the configuration an object was rendered from, or 0.

| Action | Code |
|---|---|
| `Reconcile`, `ReconcileNotFound`, `AddFinalizerCall` | `controller.go:57-107` |
| `CreateConfigMaps`, `SkipExisting`, `GetService`, `CreateService`, `CreateSIP`, `CreateInstance` | `Create`, `deployment.go:49-180` |
| `StartUpdate`, `ScaleDownFrom`, `UpdateConfigMaps`, `UpdateSIP`, `GetService`, `CreateService`, `UpdateInstance` | `Update`, `deployment.go:453-535` |
| `UpdateStatus` | `deployment.go:543-546` |
| `RemoveFinalizerCall`, `StartDelete`, `DeleteService`, `DeleteExporter`, `DeleteInstance`, `ListConfigMaps`, `DeleteConfigMap`, `FinishDelete` | `Delete`, `deployment.go:548-629` |
| `Fault` in any of them | a call that fails; it may have taken effect |
| `ReceiveVersion`, `ReceiveList`, `PeriodicResync`, `ReceiveChild` | informers; `isSpecUpdated` is the filter |
| `Touch` | another controller writes a Deployment or a Service |
| `Crash` | the manager stops and starts |
| `UserWrite` | `kubectl`, or the AutoScaler |

Simplifications, all of them visible in the comments of the module:
`jvb-graceful-shutdown` and `jvb-custom-logging` go through the same calls at the same
places and are one object, `Shared`. The error of preparing a config map is that of a
template and does not occur. `exporter.type` is empty, so that the exporter Service is
made. The up to 300 seconds of `getExternalIP` are the point between `CreateService` and
`CreateInstance` or `UpdateInstance`, at which anything else may happen; its answer is in
`BridgeAddress`. Child informers do not relist by themselves. Child Services go at once
although a load balancer's finalizer may keep them. The manager runs once (leader
election), and nobody takes the finalizer off by hand.

### BridgeAddress

`envs` is `j.envs`: it begins as the users' list, `additionalEnvironments` adds an address and
a port for the first bridge it renders, and finds them there for the next ones. `Render`
decides whether `getExternalIP` is asked (`NeedsAddress`), `Look` is one tick of its fifteen
seconds, `TimeOut` its end; the last tick and the timeout come together, in either
order (`Patience` ticks, twenty in the code). A look reads the cached Service, which may still
be of another type (answer `""`) or have no ingress yet (no answer). The Service of a
bridge is `service[r]`, and its Deployment `bridge[r]` with a declared container port and an
environment. The declared port opens none: the process binds `JVB_PORT` of its environment, or
`JVB_TCP_PORT` with a TCP harvester (`Bound`), and that is what `Forwarded` compares with the port
of the Service, whose target port is the same number.

| Definition | Code |
|---|---|
| `jvbExternalPort`, `PortOf` | `controller.go:83-86`, `deployment.go:263-265` |
| `NeedsPort`, `NeedsAddress`, `WithAddress`, `WithPort`, `Keep` | `additionalEnvironments`, `deployment.go:336-370` |
| `Look`, `TimeOut` | `getExternalIP`, `deployment.go:372-409` |
| `ServicePerInstance` | `deployment.go:163-196` |
| `PutInstance` | `createInstance`, the write in `Update` |
| `SkipExisting`, `CreateNext`, `StartUpdate`, `ScaleDown`, `GetInstance`, `UpdateStatus` | the loops around them |
| `AcceptsShutdown` | `cm.go:165-170`: only a bridge with an address takes a shutdown over REST |

The four variables of a TCP harvester always have the same value and are one,
`JVB_TCP_PORT`. The worker reads the stored resource; failed deletions, counts of 0 and the
copies of the resource are in `JVBController`. A cloud gives a load balancer one address,
or the empty IP of one that is known by name.

### Neighbours

Three JVB resources, two of them in one namespace. The names of children contain only
the number of the replica, so that the two share them; `DeleteConfigMaps` takes the config
maps of *all* namespaces, since the `List` of `deleteCMs` has a label selector and no
namespace. One action is one round of a loop and every call succeeds: what goes wrong
here is the neighbours' doing alone. The finalizer is there from the beginning.

### GracefulShutdown

One action per command of the script. Around it: the bridge with conferences that have
participants (`busy`) or not (`empty`, which the script's query leaves out), s6, which starts a
new process unless `s6-svc -O` came first, the kubelet with its grace period, and time
in seconds, which passes while the script sleeps or curl hangs. `rest` says whether the
bridge answers a shutdown request with 200; by `AcceptsShutdown` in `BridgeAddress` that is
whether it was rendered with an address. `calm`, `unseen` and `blind` are history variables: the
seconds since there were participants, the empty conferences at the last count, and
whether that count got no answer.

| Definition | Code (`cm.go`) |
|---|---|
| `StartHook` | 41-80 |
| `RequestShutdown`, `StatusIs200` | 102-108 |
| `TurnOffRestart` | 109-110 |
| `CountConferences`, `WaitsFor` | 82-119 |
| `AskIfRunning`, `AskAgain` | 121-135 |
| `Kill`, `Check`, `ForceKill`, `GiveUp` | 136-161 |

### AutoScaler

A round of the controller is four steps, between which anybody may act: the spec is
read (`ReconcileScaler`), the monitoring answers (`QueryAnswered`, `QueryFails`), the JVB
resource is read from the cache and the new count computed (`Scale`, `ScaleNothing`), the
resource is written back whole (`UpdateJVB`). `jas` is the AutoScaler resource, `due` says
that its key is queued or a `RequeueAfter` is running, `jitsi` is the `*v1beta1.JVB` in memory.

| Definition | Code |
|---|---|
| `ReconcileNothing`, `ReconcileScaler`, `Finish` | `controller.go:32-44`, `jas.go:53-117` |
| `LastValue`, `CountAvgValue`, `QueryAnswered`, `QueryFails`, `Panics` | `prom.go:46-74`, `influx.go:38-76` |
| `DesiredReplicas`, `Exceeds`, `ScaleUp`, `ScaleDown`, `Scale` | `prom.go:27-44, 76-98`, `influx.go:22-36, 78-100` |
| `ScaleNothing` | `getJVBCR`, `jas.go:119-129`: an error of `Get`, logged |
| `UpdateJVB` | the PUT that ends `scaleUp` and `scaleDown` |
| `FinishScale` | `Repeat`, `prom.go:100-110` |
| `ReadJVB`, `WriteJVB` | the JVB controller, reduced to its reads and writes of the resource itself |

Numbers are modelled by what they do. An average is a fraction, so that rounding to even
and comparisons are exact; 0/0 is NaN, which is below nothing; a float that does not fit
into an `int32` becomes what amd64 or arm64 make of it, and NaN with it. Products wrap
around at `MaxInt`, the greatest `int32`: TLC's own integers have 32 bits, so the instance takes
that of 16, and among its loads one whose product with the greatest count overflows. The monitoring answers anything in `Loads`, among it nothing, and a
series with the single sample that `Values[1]` panics on. The recovery of that panic is
controller-runtime's. Targets are not negative. The AutoScaler's own cache is not told apart
from its stored resource: it is only read, at the start of a round.

### AppController

The handlers of these controllers are straight sequences of API calls. A `Call` says what
is done to which object and which errors are passed over; a handler is a sequence of
calls (`WebCreate`, `JicofoUpdate`, ...); `Then` says what `Reconcile` makes of the error that
ended a handler. One worker carries this out, a call per step, and between two calls
everything else may happen. `read` is how current the Deployment is that a handler read
before, which decides between success and Conflict.

| Definition | Code |
|---|---|
| `CreateService`, `UpdateService`, `DeleteService` | `internal/jitsi/service.go:90-151` |
| `WebCreate` ... `WhiteboardDelete` | `Create`, `Update`, `Delete` in the `deployment.go` (Jibri: `statefulSet.go`) of each |
| `AfterGetOrCreate`, `AfterJicofo`, `AfterEtherpad`, `AfterWhiteboard` | the `Reconcile` methods |
| `Reconcile`, `AddFinalizerCall`, `RemoveFinalizerCall` | `newInstance`, and the first lines of `Delete` |
| `CallServer`, `CallFails` | a call, answered or not; in the second case it may have taken effect |
| `Panics`, `Refused`, `CallStops` | a call that cannot be made: `getTurnCredential` and `setPV` panic, or the API server refuses the PUT of `jibri/statefulSet.go:176-181` |
| `Wanted`, `isSpecUpdated` | `constructPredicates`; Etherpad and Whiteboard have none |
| `ReceiveVersion`, `ReceiveList`, `PeriodicResync`, `ReceiveChild`, `Touch`, `Crash`, `UserWrite` | as for JVB |

A child carries the serial number of the configuration it was rendered from; for the
Service of Etherpad that is the ports and the selector, the part its `Update` writes. Users
do not scale here: the replica count is a part of the configuration like any other. An
update that falls back on create inside a helper (`updateTurnCM`, `updateCustomLoggingCM`) is
one call, `apply`, since its errors are logged whichever half they come from.

Of what a configuration says only its `form` matters otherwise, which `Histories` gives for each serial number. A form that `panics`: a TURN credential of Prosody from a ConfigMap (`prosody/deployment.go:123-132`
dereferences `SecretKeyRef`), or a storage of Jibri with neither a requested size nor an empty directory
(`jibri/statefulSet.go:98`). Prosody renders the credential after the call for the Service and before that
for the config map, in `Create` and `Update` alike, so that neither the config map nor the Deployment follows;
Jibri has one call, which is not made. controller-runtime makes the panic the error of `Reconcile`, and
the key is queued again. `claims` is a storage of Jibri that is a volume claim: `Update` replaces
`volumeClaimTemplates`, which are immutable, and a change from or to it is refused for ever. A claim of another
size is refused likewise, and is not told apart.

### TurnCredential

Prosody's credential comes from the value of a variable, from a Secret, or from a
ConfigMap, whose case dereferences a nil pointer (`RenderPanics`; controller-runtime recovers
it and retries). The Secret is read through a cache and watched by nobody. The two halves
of an update that finds no config map are two calls here (`handler` is then `recreate`). A
config map is also lost to the deletion of a Prosody resource in another namespace.

`pod` is the pod of Prosody: the configuration of its template and the credential it has. The
template mounts the config map by `SubPath` (`prosody/deployment.go:175-177`), which the kubelet does not
refresh, and does not change with the config map's contents. So a pod has what the config map
held when it started. `StartPod` starts one for a new template, or in place of one that has ended
(`PodEnds`), and waits for the config map; both are Kubernetes, not the operator. One pod stands for all of
the Deployment, and the old one ends when the new one starts.

## 3. Runs

Users' writes (`MaxEdits`, `MaxWrites`), faults, restarts, relists, touches and losses are
counted, so every behaviour comes to rest or goes round in resyncs; where it may rest, deadlock
is not checked.

| Run | Bounds | Shows |
|---|---|---|
| `jvb_faults` | replicas 0..2, 3 user writes at any moment, 1 fault, 1 touch | safety of the JVB controller: types, versions that agree and stay in order, loops in range, nothing rolled back, no event lost, removals repaired |
| `jvb_settled` | replicas 0..3, 3 writes by users who wait, all caches lag | at rest exactly what was asked for stands; after a deletion nothing |
| `jvb_live` | replicas 1..2, 2 writes, 1 fault, 1 relist, 1 restart, the Deployment cache lags | the resync repairs whatever was dropped; deletions complete; the controller implements `Follower` |
| `jvb_status` | replicas 1..2, 3 writes | the first finding below |
| `scaler` | users ask for 1 bridge, the maximum is 3, 2 user writes, 1 change of the spec among 5, 4 kinds of answers, 3 stored counts, 1 fault, 1 restart, 16-bit words | the PUT of the whole object undoes nobody's write; counts within the limits; rounds go on; a lasting overload reaches the maximum |
| `apps_settled` | all 7 controllers, 4 writes by users who wait, 1 touch, all caches lag | at rest everything current; after a deletion nothing |
| `apps_live` | all 7, 3 writes at any moment, 1 fault, 1 restart, 1 relist, the workload cache lags; the configurations as in `LiveHistories` | no dropped error is the last word; the resync repairs, but for the pairs in `Half`; a configuration that cannot be brought about stops the controller as long as it is the present one, and no longer; deletions complete; each controller implements `Follower` |
| `shutdown` | grace period of 32 s, timeout of 3 s, 2 conferences, 2 starts of the bridge, 1 fault, curl hangs 1 s | the script cuts off no conference it saw, is done in time |
| `address` | 2 replicas, 2 wishes (load balancers over UDP; the cluster's network over TCP with a list of the users'), 1 change between them, 1 fault or restart, 2 looks before the timeout | nothing named twice, one wait, the first bridge reachable and forwarded to, no restarts by resyncs |
| `address_each` | 2 replicas, 2 addresses, nothing fails, nobody writes | the second finding below |
| `neighbours` | 3 resources in 2 namespaces, up to 2 replicas, 4 writes | a resource alone in its namespace is undisturbed at rest; what neighbours take, resyncs bring back |
| `turn_credential` | 3 writes to resource or Secret, 1 fault, 1 lost config map, 1 restart | the credential that is meant arrives in the config map, and in the pods that start from then on; one written in the resource is in the pod of its template |

**Why the bounds are enough.** Three user writes are the least that create, scale up and
scale down (or delete) one resource, or delete it and create it again; the worker's copy can
then be two writes behind. Two replicas give a bridge that the scale-down must never touch and
one that it must; the third, in `jvb_settled`, a scale-down of more than one. One fault is enough
for each error path; more only combine paths that each end in the same release of the worker.
Four writes in `apps_settled` create a resource, change or delete it, create it again and change
that. For the AutoScaler two stored counts are enough to multiply a count twice from a cache that
does not show the first; users' 1 lies at or below each minimum, and what the AutoScaler makes of
it reaches the maximum of 3. In `apps_live` the forms of the three configurations are all plain, or the first and the third panic, so
that `Create` meets a panic, users correct it, and `Update` meets another; or the second has another storage of Jibri,
which users may take back, or leave, or delete and create. The
timeout of the shutdown is 3 seconds instead of the default 25, which makes `Tail`, the longest way
from the last participant to the end of the hook, 22 seconds; the grace period, which
is the users' to set, is one poll longer, so that a conference may end before and after
it is too late. In `address` the fifteen-second looks are two instead of
twenty: one look is then before the timeout and one comes together with it, the two cases there
are. In `neighbours` two resources collide in their namespace and a third one, alone, stands
for all namespaces that are reached by label only.

**What the properties leave out, because the code does not keep it.** `QuietMeansReconciled`,
`RemovalIsRepaired` and the `SettledMeansProvisioned` of the applications speak of behaviours without
a relist: a broken watch can fold a user's write into an update that the event filter drops.
`SettledMeansProvisioned` and `SettledMeansGone` of the JVB controller are checked without failed
calls, which can leave surplus bridges behind. `EventuallyProvisioned` is the claim that survives
both, by the resync. `CurrentAtRest` says what a restart in the middle of `Create` may leave as it was,
and `Half` is part of the result: a Deployment of Web or Prosody without its Service, and
a Service of Etherpad or Whiteboard without its Deployment, are states in which every
reconciliation fails at the same call, and a Whiteboard without its Service is one that none
notices. A failure or restart in the middle of a deletion leads there when a resource of the
same name is created again. `Stopped` are the configurations that cannot be brought about, as long as
they are the present ones: one that panics, and a storage of Jibri other than the one its StatefulSet was
made with. `EventuallyProvisioned` says that nothing else stops a controller for good, for
configurations that an API server accepts in a new object; what it refuses otherwise (a name, a port,
an immutable field that users cannot reach through the resource) is not in the model. In `apps_settled` users wait until
all has settled, and never see a stopped resource settle, so that what it says of later versions is about
configurations that do not stop. `WithinLimits` is claimed of averages that are numbers: NaN, when no series is answered,
becomes the least `int32` on amd64 and can be stored; the model does that too, and `TypeOK` then
says that it is at least an `int32`. Its lower limit excepts counts whose product with the ratio of
load and target is no `int32` (`Fits`): that wraps around and may be negative, and then the
count shrinks as the load grows. `OverloadReachesMax` is conditional: on an overload of one and a
half times the target or more that does not overflow (`Overload`), on queries that do not panic
for ever (`Answered`), and on behaviours that have not used up `MaxScalings`. `NothingNamedTwice` excepts
`JVB_TCP_PORT`, which `additionalEnvironments` adds without looking for it when users have set it
without `JVB_PORT`. `FirstBridgeReachable`, and of `Forwarded` the comparison of ports, are not claimed of later
bridges, which are told the port of the first: see the second finding. A load balancer known by name has
the empty IP, and `FirstBridgeReachable` does not count it as an address. `CredentialArrives` claims nothing of a pod
that runs on: it keeps the credential it started with, and a rotation does not restart it. `ValueReachesPod` excepts
failures and restarts: `createTurnCM` passes over a config map that stands, and a failed write is only logged, so the
pod of the new template starts with the old credential.
`NothingSeenIsCut` excepts conferences that were empty at the last count, which the script
does not count, and a count that was not answered, which it takes for none.

**Fairness.** Weak fairness of each worker (`Worker`, `Scaler`): controller-runtime starts a worker
for every queued key and every call returns. Of `ReceiveVersion`, `ReceiveChild`, `ReceiveService`,
`ReceiveBridge` and `ReceiveSecret`: client-go keeps its watches alive. Of `StartPod`: the Deployment controller and
the kubelet start the pod of a template. Of `PeriodicResync` and
`Resync`: the informers resync, and without it a dropped event stays dropped; the AutoScaler does not
need it, its timers are part of `Scaler`. None of users, clouds, faults, touches, relists,
losses, restarts and ends of pods, which need not happen. A worker may be unlucky as often as the bound on
faults allows: the outcomes of one call are one action. The shutdown is checked for safety
only; the time that passes in it is a number.

**Findings.** `jvb_status`: `jvb_types.go:21` says the status is observed. `UpdateStatus` copies
`spec.replicas`. Users scale from 1 to 2; the worker creates the second bridge; users scale back to
1 before the status is written; the write loses the optimistic lock. The next reconciliation
finds `status.replicas` 1 and wants 1, so `updateReplicaCount` looks for nothing: `jvb-2` stands for
as long as the count does not pass 2 again, and the status says 1.

`address_each`: `config/samples/_v1beta1_jitsi_jvb.yaml:66` says that by default the address comes from
the load balancer's Service, of which each bridge has one, with a port of its own.
`additionalEnvironments` appends to `j.envs` (`deployment.go:340`), which belongs to the
reconciliation and not to the bridge. The second bridge finds `JVB_PORT` in the list already and
is told the address and port of the first one rendered. It also binds that port, while its Service
forwards to its own, where nothing listens. Which one that is depends on what
`Create` skips, so after a scale-up the new bridge is right until the next update renders all of them.

Three more places where text and code disagree became part of the models, not runs of their own:

- `docs/jvb-autoscaler.md:3` bases the metric on the participants count, while `prom.go:71` and
  `influx.go:72` say `sum = +value` where `sum += value` is meant: the load of the last series is
  divided by the number of series (`CountAvgValue`).
- The script says that it polls "until conference count drops to 0" (`cm.go:26`), but a count that
  is not answered ends the loop too (`blind` in `GracefulShutdown`).
- `docs/jvb-custom-sip-configuration.md:10` says that `ENABLE_REST_SHUTDOWN` is "enabled by default in
  operator"; the code writes it only for a bridge with an address in its environment
  (`cm.go:165-169`, `AcceptsShutdown`), and a bridge without it is not told to drain (`rest`).

## 4. Proofs

All theorems hold for every value of the constants, from nothing but the typing assumptions on
them (`ReplicasAssumption`, `EditBoundsAssumption`, ... in the modules that declare them).

**JVB controller** (`JVBProofs`).

1. `TypeCorrect`, `LoopsStayInRange`. `TypeOK` is not inductive alone: `replica` could leave its range if
   the loops did not start at 1 and stop at the wanted count. The inductive invariant is
   `TypeOK /\ LoopsInRange`.
2. `CopiesAgree`. A copy that carries the stored resourceVersion equals the stored object but
   for the finalizer. Inductive together with 1; the bound `v.rv <= rv` is what makes a new version
   differ from all copies in circulation.
3. `StatusAlwaysMatches`. `UpdateStatus` writes the replica count of its copy under the lock; by 2
   that is the count of the stored object.
4. `ConfigurationsStayInOrder`. The stream, the cache, the worker's copy and the child objects are
   in the order of the users' writes. Inductive together with 1 and 2: the finalizer PUT stores a
   copy, and only 2 tells that its configuration is the stored one.
5. `NothingRolledBack`. A child is rendered from `obj.conf`, and by 4 no child is ahead of it.

**JVB controller, what it follows and what it never misses** (`JVBProofs`).

6. `JVBFollows`, the refinement `Spec => Pool!Spec`. Besides 1 to 4 it needs `StageOK`: which loop a call
   belongs to, and whether the version held is under deletion, so that a rendering call addresses a
   thing of the version and a deletion one that is not. `JVBGoesForward` follows from it and the
   theorem about `Follower` alone.
7. `NoEventLost` (`QuietMeansReconciled`). The invariant is `NothingLost`. The informer's copy and the
   announced versions are one stream; `Due(c, w, i)` says that a step after the i-th version passes
   the event filter. `StreamOK`: a version that asks for something else than the stored one
   is followed by such a step. The filter drops two kinds of writes, that of the finalizer
   and that of the status, and by 2 both leave what is asked for as it was (`SilentWrite`; the default
   of a count of 0 is why `Effective` is there). On top of it: a worker that acts on a version that asks
   for something else has an event coming, and an unreconciled resource has an event
   coming or a worker that is at it.
8. `RemovalsRepaired` (`RemovalIsRepaired`). Only a deletion, or a scale-down above the first bridge, takes a
   bridge down (`TakesDown`); if the bridge is still wanted the version held asks for something
   else, and by `NothingLost` its replacement is coming.

**JVB controller, what has settled** (`JVBProofs`).

9. `BridgesSettleProvisioned` and `BridgesSettleGone`, under the hypothesis `Patient` and in the
   part of a behaviour without failed calls, restarts and writes of others to the children
   (`Calm`), for any lagging caches. The hypotheses are needed: a failed deletion of a scale-down leaves
   a bridge behind (`deployment.go:490`), and a conflict with another writer of a Deployment or
   Service is logged and leaves it at its old configuration (`AfterUpdate`). The invariant, `SettledInv`, has two
   parts. `CachesFollow`: what a cache has yet to see of an object is its present state, so that
   an object without pending changes is in the cache exactly if it stands. And `Ages`, the states a
   resource goes through: its creation is announced, it has no finalizer yet, it is `BeingProvisioned`,
   the users wrote over what had settled and the worker may still replay the version before
   (`WriteAnnounced`, `WriteOverheard`), it is `Doomed`, it is `Gone` and its children go.
   `BeingProvisioned` carries the argument: what the worker has done so far with the stored version
   (`OnCourse`, one clause per step of `Update`), what its readings of the cache still tell when it
   acts on them (`StillTrue`), that the status bounds the surplus bridges, which is what makes the
   count-down of `updateReplicaCount` reach them all (`SurplusKnown`), that no exporter's service
   stands without its bridge's, since `deleteService` would not come to it (`AllReachable`), and
   that an idle worker has either served the stored version or has its key queued: a status write
   refused because of the worker's own finalizer or status write ends in a retry, and the
   update the filter drops is one of those two.

**JVB controller, how long a pass is** (`JVBProofs`).

10. `BridgesPassesEnd`. `CallsLeft` bounds the calls the worker may still make before it is idle. It is never
    above `LongestPass`, 11 calls for each replica and 5 besides, and it is 0 only for an idle worker.
    Every call lowers it, one that fails, is refused or finds nothing included, and no step of users,
    caches, other controllers or a restart raises it. So none of the loops of `Create`, `Update`,
    `updateReplicaCount`, `Delete` and `deleteCMs` turns for ever, and one `Reconcile` cannot pass
    from `Update` to `Create` and back. The invariant is `UpdateRounds`: the
    steps of `Update` have `loop = "update"`, and so what they call comes back to `Update` alone. This is the safety core of the liveness properties; what
    is left to fairness is that a call returns. (The wait for an address is in `AddressProofs`.)

**JVB controller, users who write at any time** (`JVBProofs`).

11. `BridgesServedAmidWrites` (`QuietMeansServed`). As long as no call has failed, no watch was broken and nobody else
    has written a Deployment or Service: whenever nothing is queued, announced or running, all bridges of the
    spec stand whole, rendered from the stored configuration, with any writes of users and any restarts before.
    It says nothing of surplus bridges, which may be left (`StatusIsObserved`), and it is not one of
    the runs' properties. The hypothesis is that only the config maps' cache lags; TLC finds
    it violated with a late Service cache and with a late Deployment cache, since an `Update` that meets a
    Conflict is logged and the status is written all the same. The invariant is `AmidInv`: caches that do not
    lag show what stands (`Shown`), no version has configuration 0 (`Configured`), the loop of `Update` has brought
    about all it has passed, at the version it holds (`BroughtAbout`), and an idle worker with nothing coming
    has served the stored version (`IdleServed`). The last follows at the status write, which the lock
    lets through only if the version held is the stored one; at every other return something is
    coming by `NothingLost`; and what users write passes the filter (`UserAsks`).

**Custom resource** (`CustomResourceProofs`). Lemmas only: the types of the writes, and `Circulation`,
the invariant that versions on their way from the API server to a worker agree with the
stored one under the lock and stay in order, whatever controller stands on top.

**Follower.** `OrderKept`: the version in view is never ahead of the wish, nor what was made ahead of the
views. `FollowersGoForward`: nothing is made again from an older version.

**The seven applications** (`AppProofs`). `AppTypeCorrect`; `AppsFollow`, the refinement, from `Circulation` and
from what is proved of the plans: each call renders an object of the version held or
removes one while that is under deletion. `AppsGoForward` follows.

`AppsSettleProvisioned` and `AppsSettleGone` say what the children are at rest, under the hypothesis
`Patient` and in the part of a behaviour in which no call has failed and the manager has not been
restarted, nor a configuration been written that panics (`Calm`); any number of objects may have lagging caches, and other controllers may
write the children. The hypotheses are needed: a user who deletes while a Service is not yet in the
cache leaves it behind, and so does a failed deletion; and `Create`, begun once more after a panic, passes over a
Service of the configuration before. A refused change of the storage is not excepted: the worker then does not
come to rest. The inductive invariant is `RestInv`:

- `ChildrenInStep`: all children stand or none does (`Full`, `Empty`), but for those a `Create` or `Delete`
  at work has not come to (`Building`, `Clearing`); what an `Update` has passed is of the version held.
- `CachesInStep`: what a cache has not seen of an object is its creation and writes, or its removal,
  never both, and a child of a resource that is gone is in the cache as long as it stands. So
  `Delete` misses none.
- `NewsInStep`: at most one version is announced, the users' or that of the finalizer, and it
  is such that the event filter lets the users' pass.
- `WorkInStep`: what the version held and the stored one have in common.
- `NewsServed`: if nothing is queued or on its way, the worker is at the stored
  configuration or has brought it about.

It rests on what is proved of the shapes of the plans: `Create` makes each object once and
the workload last, `Update` reaches all that is updated and passes over nothing but an `apply`,
`Delete` removes each object once. That is where the plans of the seven differ, and
where a changed plan would break the proof.

`AppsPassesEnd` is what `BridgesPassesEnd` is for the JVB controller: a pass of any of the seven makes at most five
calls, a finalizer and a `Create` that follows an `Update` included.

`AppsSettleAmidWrites` is the property `SettledMeansProvisioned` for users who write at any time, whatever touches,
restarts, panics, refusals, failures and broken watches there are, as far as the property speaks of such behaviours:
at rest, if no call has failed and no watch was broken, the children are those of the present
configuration - but for a Service or config map that `Create` passed over after a restart or a panic - or a restart has
left one of the pairs in `Half`. The hypothesis is that only the
workload's cache lags, as in `apps_live`. It is needed: TLC finds the property violated for Web with a
late Service cache and for Jicofo with a late ConfigMap cache, without a failure or a restart, since a
`Delete` told that there is no Service passes on, and the next resource of that name keeps what was
left, of the old configuration. The inductive invariant is `BusyInv`, on top of the order of the versions:

- `KnownOK`: the resourceVersion of a version tells whether it is under deletion.
- `Served`: in the stream of the informer's copy and the announced versions, one that asks for something
  else than the stored version is followed by a step that passes the filter; if no event is coming
  and nothing is queued, an idle worker has left the children as the property wants them, and one at
  work is at what the stored version asks for.
- `Told`: a cache that does not lag shows what stands.
- `Kept`: what the calls of a handler have done so far (`Progress`); and, until a restart or a panic, that what belongs to
  a workload comes before it and goes before it (`WorkloadKept`). The latter is why no pair in `Half` is
  left, although users may delete at any call of a handler: `Create` renders the workload last, and the
  version it renders from is finished before the next one is read.

**AutoScaler** (`AutoScalerProofs`). `RoundsGoOn` (`StaysDue`) from the invariant that a round that is not idle
holds the spec it works with, and that an idle one was put back into the queue. `NothingUndone`
(`OnlyReplicasChange`) from the invariant that a copy with the stored resourceVersion is the stored
object. `ScalerTypeCorrect` (`TypeOK`) and `ScaledWithinLimits` (`WithinLimits`) rest on lemmas about the
arithmetic: what wraps around is an `int32`, and is itself if it was one; an average rounds to no
negative number. The invariant of the second, `LimitsInv`: before its PUT the count in memory is
within the limits, measured at the stored count as long as the lock holds; everybody's write
ends that (`WriteOutdates`).

**Shutdown** (`ShutdownProofs`). One invariant says, for each command, what the script knows: whether the bridge
was drained since its request, at which process it aims, and how many seconds it has spent
since the last participant. From it `ShutdownTypeCorrect`, `SignalsOnlyDrained`, `EndsInTime`, and
`LeavesNoneRunning` (`NoneLeftRunning`, which no run checks): the hook does not end and leave the process whose id it
took drained and running. A bridge restarted before `s6-svc -O` is another process.

**Addresses** (`AddressProofs`). The invariant `Waited`: the worker waits for an address only as long as the list
has no port, and afterwards it has one; so it waits once. `AddressTypeCorrect`, `TellsOnce`,
`AsksOnce`.

**Neighbours** (`NeighboursProofs`). `NeighboursTypeCorrect`: a key is in the queue once, whatever the number of
resources. `AloneUndisturbed` (`AloneMeansUndisturbed`): the invariant `AloneInv` says of every resource
that is alone in its namespace and not in the queue that its bridges stand at its configuration, up
to the bridge at which the worker is; steps of others reach objects of other namespaces only,
since the one deletion across namespaces takes config maps.

**Only model-checked.** For users who do not wait and with Services or Deployments late, written by others or
failing to be written: what the JVB controller brings about in the end (`EventuallyProvisioned`, in `jvb_live`).
What stands after a deletion, and that no surplus bridge does, is stated for users who wait alone.
`TypeOK` and `ValueReachesPod` of `TurnCredential`. And liveness everywhere, which
is out of the prover's reach under fairness.

## 5. Not modelled

- Negative replica counts in the JVB controller: `CustomResource` counts in natural numbers. That the
  AutoScaler can store a negative count is in its own model.
- The AutoScaler beside the whole JVB controller: in `AutoScaler` the latter is its reads and writes of
  the resource, in `JVBController` the former is a user.
- A request of a process that has stopped, still on its way when the next one starts.
- Two resources of another kind than JVB in a namespace. Jicofo and Prosody delete config maps by
  label in all namespaces like JVB; `TurnCredential` has that as a loss.
- The text of config maps other than the script and the line `AcceptsShutdown` is about; rendering
  of pod specs, labels, probes; the arithmetic of metrics beyond the average.
- Error values and labels: pure functions, whose branches are guards of `Reconcile`.
- `main.go` beyond what it decides about the manager (one worker, no cache or sync-period
  options): flags, scheme, health checks. RBAC, manifests, generated code.

## 6. Plan

1. Composition of `AutoScaler` with `JVBController`, with counts that may be negative: what a
   NaN does to the bridges that stand.
2. A bound on the bridges that failed deletions of a scale-down leave behind
   (`deployment.go:490`), if there is one worth stating.
3. Proofs: which part of the settled properties of the JVB controller survives other writers of
   its children, whose conflicts leave a bridge at an old configuration.
