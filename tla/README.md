# TLA+ models of the SSH gateway controller

The controller turns Kubernetes Gateway API objects into reverse port
forwardings over SSH. A `Gateway` listener becomes a `tcpip-forward` request on
an SSH session; a route attached to it decides which backend the forwarded
connections reach; the public address the server announces on its output goes
into the Gateway's status. This directory models the places where that is hard:
the tunnel manager, with its goroutines and an unreliable server; the pool that
replaces managers while they are used; the controllers, with their registry,
finalizers and retries; and the statuses, which several writers keep in one
object.

Contents: [the system](#the-system) ·
[modules](#modules-and-the-code) · [runs](#what-the-runs-check) ·
[bounds](#bounds) · [fairness](#fairness) · [proofs](#what-is-proved) ·
[known behaviours](#what-the-models-found) ·
[left out](#what-is-not-modelled) · [plan](#plan)

## The system

| Part | State | Operations | Talks to |
|---|---|---|---|
| Tunnel manager (`ssh/ssh_tunnel_manager.go`) | client and `connected`, `forwardings`, `assignedAddrs`, `addrNotifications`, `captureReady`, two locks | `Connect`, `StartForwarding`, `StopForwarding`, `GetAssignedAddresses`, `IsConnected`, `Stop`; goroutines for keepalive, output capture, incoming channels, orphan cancels | the SSH server; called by the pool |
| Address matching (`MatchesRequestedHost`, `isForwardingValid`) | none | pure | manager and Gateway reconciler |
| Session pool (`ssh/ssh_session_pool.go`) | up to three managers by session kind | `ConfigureSessions`, then the manager's operations by kind | managers; called by the Gateway reconciler |
| Gateway registry (`controllers/gateway_controller.go`) | `gateways`, their `listeners`, each with its `route`; `gatewaysMu`, `listenersMu` | `SetRoute`, `RemoveRoute`, `handleAddOrUpdateGateway`, `handleDeleteGateway` | pool; called by the reconcilers |
| Gateway reconciler (same file) | the registry; finalizers and status in Kubernetes | `Reconcile`: reconnect, configure sessions, finalizer, registry, status | Kubernetes, pool |
| Route reconcilers (`httproute_`, `tcproute_`, `tlsroute_controller.go`) | finalizers and status in Kubernetes | `Reconcile`: finalizer, `SetRoute` or `RemoveRoute`, status | Kubernetes, registry |
| Route status (`controllers/route_status.go`) | one parent entry of the route's status | `writeRouteParentStatus` | Kubernetes |
| GatewayClass reconciler | none | writes a constant condition | Kubernetes |
| Start-up (`main.go`, `common.go`, `scheme.go`) | configuration | sequential | everything |

What is hard, and what makes each part correct:

* **Tunnel manager.** A call holds `clientMu` over several requests and replies;
  the connection may hang or die under it; a request may time out in its caller
  and be executed later; output is broadcast to every waiting call, split and
  late; a client may connect to a forwarding that was just given up. Correct
  means: nothing outlives its connection, what is registered was verified and is
  bound at the server, channels live exactly as long as the call that reads
  them, every call returns, and a dead connection is given up.
* **Registry and reconcilers.** Reconciliations act on objects they read
  earlier; a session comes and goes between the calls of one `SetRoute`; a
  restart empties the registry while finalizers stay. Correct means: the
  registry and the attached routes never outlive their objects, a forwarding
  always has a listener that accounts for it and leads to that listener's
  backend, a route is attached in the end, and a deletion completes.
* **Session pool.** A manager may be stopped and dropped between lookup and
  call; sessions are rebuilt when a class changes. Correct means: a stopped
  manager is never connected again, a forwarding is on a session of its kind with
  the flags configured for it, and to a caller one kind is one session that
  closes and opens.
* **Statuses.** Written from a cached copy by two workers, refused when the copy
  is old, skipped when nothing seems to have changed. Correct means: nothing of
  another writer is lost, and what is written settles on what is the case.

`PROJECT.json` lists every hazard at its line with the properties that cover it,
or why none does.

## Modules and the code

| Module | What it is |
|---|---|
| `AddressMatch` | `MatchesRequestedHost`, `handleAssignedURIs`' decision and `isForwardingValid`, as operators over structured URIs |
| `ForwardingTable` | the abstract specification of a session: open, enter, remove, close |
| `TunnelManager` | the manager, one action per operation, reply, timeout or goroutine step |
| `TunnelManagerProps` | its properties, its inductive invariants, the refinement mapping to `ForwardingTable` |
| `TunnelManagerProofs`, `TunnelBinding` | the theorems about it |
| `SessionPool` | the pool; each manager behind it is a `ForwardingTable` |
| `SessionPoolProofs` | the theorems about it |
| `GatewayRoutes` | the controllers over one session, the session being `ForwardingTable` |
| `GatewayRoutesProps` | their properties and the inductive invariants behind them |
| `RouteServing` | the abstract specification of what route owners are promised: taken on, served, stopped, let go |
| `GatewayRoutesProofs`, `RoutesAttachedProofs`, `RoutesForwardingProofs` | the theorems about them: types and registry; attached routes; forwardings and the refinement of `RouteServing` |
| `GatewayStatus` | listeners on sessions of different kinds, and the two writers of a Gateway's status |
| `RouteStatus` | one route object between its user, another controller and its reconciler: finalizer, status entry, conflicts |
| `GatewayStatusProofs`, `RouteStatusProofs` | the theorems about them |
| `MCTunnelManager`, `MCSessionPool`, `MCGatewayRoutes`, `MCGatewayStatus`, `MCRouteStatus` | instances for TLC |

`ForwardingTable` is where the parts meet: `TunnelManager` is proved to implement
it, `SessionPool` takes every call of a manager as one of its steps and is proved
to implement one per session kind, and `GatewayRoutes` takes every call of the
pool as one of its steps. `GatewayStatus` in turn takes an attachment as one step
of what `GatewayRoutes` does in several, and `RouteStatus` its result. At the top
stands `RouteServing`, which knows neither sessions nor locks nor reconciliations:
a route has one home, a listener serves one route and one backend at a time, and
a route leaves only when it is served no more. `GatewayRoutes` is proved to
implement it, so the chain goes from what a route's owner sees to the requests on
an SSH connection.

### TunnelManager

| State | Code |
|---|---|
| `connected`, `transport` | `m.connected` and `m.client` (they change together); the condition of the TCP connection, which the code cannot see |
| `capture` | `captureServerOutput`: opening a session (`captureReady` open), reading, ended |
| `forwardings`, `assignedAddrs`, `addrNotifications` | the maps of the same names |
| `op` | the call that holds `clientMu` for writing and where it is |
| `orphan` | the goroutines of `handleChannels` that cancel a forwarding nobody registered; they hold `clientMu` for reading |
| `opened` | forwarded-tcpip channels on their way to `handleChannels` |
| `wire` | global requests in the order in which they were issued, with who waits for each |
| `bound` | what the server forwards (it survives a restart of the process, not of the connection) |
| `out`, `readers` | output not read yet; `notifyURIWaiters` between copying the channels and sending |

One action stands for the part of a call between two points where another
goroutine can be seen. `StartForwarding` is `StartForwarding` (lock, checks),
`CaptureWaited`, `ReplyToOp` or `RequestFails` once for the preliminary cancel
and once for the request, `URIsArrive` or `VerificationTimeout`, `Register`;
`Deregister` is its deferred clean-up. Timeouts (2 s for a request, the
verification timeout, the keepalive's) are actions that may happen whenever the
wait goes on: no duration is modelled. Each request is sent by a goroutine of its
own that waits for the SSH library's lock; the model assumes that they get it in
the order in which they were started, which neither Go nor the library promises
in so many words. `RegisteredIsBound` and `StaysBound` rest on it. Errors of the
server and of the transport are choices. A byte stream is a set of announced
URIs: chunks may come late, together, be dropped when `out` or a channel is
full, or never come.

The bytes copied over accepted channels are left out, and so is everything that
needs the goroutines of two connections side by side (see
[left out](#what-is-not-modelled)).

### SessionPool

| State | Code |
|---|---|
| `managers`, `flags` | `p.managers`, and the flags each kind was opened with |
| `made` | the flags the factory was given for a manager, which it keeps |
| `session` | per manager, the table `TunnelManager` implements |
| `call` | a caller's `StartForwarding` or `StopForwarding` after the lookup, or a `Connect` that walks over the managers |
| `config` | the `ConfigureSessions` that holds `mu` and the kind it is at |
| `asked` | what the last one was asked for, `None` if it failed |

`ConfigureSessions` is one action that takes the lock and one per kind for each
thing `reconcileKind` may find: `KindUnchanged`, `StopKind`, `OpenKind`,
`FactoryFails`. A kind whose version flipped is stopped and opened in two steps.
The lock is a guard: `config = Unlocked` to read, and nobody in `Connect` to
write. `LookUp` is a call up to `RUnlock`; `Started`, `Stopped` and `Refused` are
what the manager then does, whether it is still in the pool or not. The order in
which `Connect` visits the map is left open, as Go leaves it. `GetAssignedAddresses`
and `IsConnected` look the manager up in the same way, ask it after the lock is
released, and change nothing.

### GatewayRoutes

| State | Code |
|---|---|
| `routeObj`, `gwObj` | the Kubernetes objects: absent, live or being deleted, whether they carry our finalizer, parent and backend of a route, listeners of a Gateway |
| `due` | controller-runtime's work queues and the requeue timers |
| `job` | a reconciliation in progress with what it read from its object |
| `gateways`, `listeners` | `r.gateways`, `gw.listeners` with `l.route` |
| `call` | the `SetRoute` or `RemoveRoute` that holds `gatewaysMu` and `listenersMu`, and the call to the pool it makes next |
| `connected`, `forwardings`, `assignedAddrs` | the session, as the abstract table |

A reconciliation of a route is `ReconcileRoute` (read, finalizer), then
`SetRoute` or `RemoveRoute` under the lock, one step for each of its calls to
the pool with each outcome (`StopRefused`, `StopFails`, `Stopped`, `Connects`,
`ConnectFails`, `StartRefused`, `StartFails`, `Started`), and `RouteFinalized`.
A reconciliation of a Gateway is `ReconcileGateway`, `GatewayReads`,
`HandleAddOrUpdateGateway` or `HandleDeleteGateway`, `GatewayFinalized`.
`SessionCloses` may come between any two of these, `Restart` too.

The three route reconcilers have the same control and are modelled once. Reading
an object and adding the finalizer is one step: the `Update` of an object that
changed since it was read is refused by the API server and the reconciliation
repeated, which is the same as reading it later. (`RouteStatus` does not take
this for granted: there reads come from the cache and updates are refused, fail
or lose their answer.) After a successful call the code releases the locks,
writes the Gateway's status and takes them again before it returns: the status
is in `GatewayStatus`, and without it the second critical section does nothing.

### GatewayStatus

| State | Code |
|---|---|
| `spec`, `status`, `class` | the Gateway, its status, its class's annotations |
| `wanted` | parent and backend each route asks for, `None` when there is no such route or it was deleted |
| `listeners` | the registry's listeners: session kind, reason they were rejected for, and `l.route`, the name and backend of the route attached |
| `enabled`, `connected`, `forwardings` | the pool: kinds with a manager, with a connected one, forwardings with an address by kind |
| `gwJob`, `routeJob` | the Gateway reconciler and each route reconciler, with their copy of the object and whether it is still the latest (`fresh`) |

The Gateway reconciler goes `ReconcileGateway`, `ConfigureSessions`,
`reconnectRequiredSessions`, `handleAddOrUpdateGateway`, `SetConditions`,
`SetAddresses`, `WriteGatewayStatus`: the registry and the sessions are looked at
again at each of these, and anything may happen between two. A route reconciler
goes `SetRoute` or `RemoveRoute`, then, with the locks released, `FetchGateway`,
`FillAddresses`, `WriteFromRoute`.

The calls of one `SetRoute` or `RemoveRoute`, which `GatewayRoutes` takes one by
one, are one step here, with the outcomes they may have together. `Attach` is the
listener without a route, or with the one asked for whose forwarding is gone: the
reference is forgotten, and connecting or starting may fail. `Replace` is the
listener with another route, or the same one with another backend: its forwarding
is stopped first, and if that is not confirmed, or the start fails, the reference
to the old route stays while its forwarding does not. From then on, as after a
lost session, stopping it is an error at every retry: neither action is enabled,
`RemoveRoute` is not either, and the listener is `Blocked`. A route that cannot be
removed keeps its finalizer, so `CreateRoute` waits until its name is free.
Routes are not moved here; they are in `GatewayRoutes`. Listeners differ in port
and hostname, so that only the session kind decides whether a listener is kept.

### RouteStatus

| State | Code |
|---|---|
| `server`, `cache`, `synced` | the object at the API server, in the informer's cache, and whether these are the same |
| `due` | the work queue |
| `job` | the reconciliation: where it is, its copy, whether the copy is the latest (`fresh`), what `SetRoute` returned, the attempts of `RetryOnConflict` |
| `gateway` | how `SetRoute` and `RemoveRoute` end: no such Gateway, not ready, done, failed |

One action per call of the API server (`AddFinalizer`, `UpdateStatus`,
`UpdateAgain`, `RemoveFinalizer`), of the cache (`Refetch`) and of the registry
(`SetRoute`, `RemoveRoute`). Instead of counting resource versions a copy is
`fresh` until somebody else writes. Each call of the API server may be taken,
refused for its version, fail, or be taken and seem to fail. `Refetch` has two
outcomes because `getRouteStatus` does not know the version of `TLSRoute` that
the reconciler handles: the copy is then left as it was fetched.

## What the runs check

| Run | Configuration | Shows |
|---|---|---|
| `tunnel_two_keys` | `TunnelTwoKeys.cfg` | two listeners, one of them with two backends: `RegisteredIsVerified`, `AddressesAreRegistered`, `RegisteredIsBound`, `StoredStaysValid`, and the refinement `ImplementsTable` |
| `tunnel_liveness` | `TunnelLiveness.cfg` | one listener, two backends, clients on orphan forwardings, requests still queued when a call starts: `CallsReturn`, `FailureIsDetected`, with `TypeOK`, `NothingOutlivesConnection`, `ChannelHasItsCall` |
| `session_pool` | `SessionPool.cfg` | two callers against `ConfigureSessions` and `Stop`: `TypeOK`, `ConnectedIsInPool`, `SessionsFollowConfig`, `ForwardsOnItsKind`, and the refinement `ImplementsTables` |
| `routes_safety` | `RoutesSafety.cfg` | two routes, two listeners, one changing its key: `TypeOK`, `RegistryIsOwned`, `AttachedIsOwned`, `ForwardingIsAccountedFor`, `ForwardsToItsRoute`, and the refinement `ImplementsServing` |
| `routes_liveness` | `RoutesLiveness.cfg` | `RoutesGetAttached` through moves, listener changes and failures |
| `routes_deletion` | `RoutesDeletion.cfg` | two routes on one listener: `DeletionSettles` through listener changes, Gateway deletion, lost sessions, failing calls and restarts |
| `gateway_status` | `GatewayStatus.cfg` | routes created, deleted and changed while sessions are enabled, disabled and lost under two listeners: `TypeOK`, `NeverDowngraded`, `AddressesSettle`, `ProgrammedSettles` |
| `route_status` | `RouteStatus.cfg` | a route edited, moved, deleted and written by others under its reconciler: `TypeOK`, `AttachesOnlyOwned`, `OwnedIsWatched`, `OthersKept`, `StatusSettles` |
| `tunnel_mute_capture` | `TunnelMuteCapture.cfg` | violated: `FailureIsDetected` |
| `tunnel_closed_channel` | `TunnelClosedChannel.cfg` | violated: `NotifyingIsHarmless` |
| `routes_stuck_deletion` | `RoutesStuckDeletion.cfg` | violated: `DeletionCompletes` |
| `gateway_listener_status` | `GatewayListenerStatus.cfg` | violated: `ListenerStatusesSettle` |

`StoredStaysValid` relates two packages: what the manager accepts when it stores
addresses, the Gateway reconciler accepts at every later reconciliation, although
the two decide with different lists of wildcard names. (The empty name, the only
one on which the lists differ, is not in the run; `AddressesStayValid` covers it.)

The passing runs leave out, by their constants, what the violated ones are
about, and say so: `tunnel_liveness` has `MuteDuringCapture = FALSE`;
`tunnel_two_keys` has no client on unregistered keys; `routes_safety` has no two
listeners with one key, does not move routes between listeners and does not drop
listeners from a Gateway; `routes_liveness` does not change backends;
`routes_deletion` has no backend changes; `gateway_status` lets a listener change
between session kinds but not between protocols of one kind. Three properties
leave something out in their own text, again because it is a known behaviour:
`DeletionSettles` a route whose listener had lost the forwarding before
`RemoveRoute` could stop it (`Orphaned`: with its session, at a cancel that was
denied or timed out, or halfway to another backend); `AddressesSettle` the
listeners in the same state (`Blocked`), and with `ProgrammedSettles` those that
two routes name at once (`Contested`): these replace each other at every
reconciliation and write the status each time, so that the Gateway reconciler's
copy may be old whenever it writes; `StatusSettles` routes with invalid
references. The section on
[known behaviours](#what-the-models-found) says what happens otherwise.

## Bounds

* `TunnelManager`: one chunk unread (`MaxOut`) is enough to have an announcement
  arrive late, or for another call; one reader with its three steps is enough to
  have it broadcast to a call that has returned. A call may leave a cancel and a
  start on the wire when it times out; `MaxPending = 1` lets the next call begin
  while one is still there, `MaxPending = 0` when they are done. With 0, in
  `tunnel_two_keys`, `RegisteredIsBound` meets an abandoned request only within the
  call that issued it; `StaysBound` covers later calls.
  `NotifSize` stands for `addrNotificationChannelSize`: with 1 the queue fills and
  drops. `db` and `db2`, or `web` and `web2`, share a key with two backends; `any`
  is a wildcard listener registered or in progress meanwhile. Connections, calls
  and restarts are not bounded. The theorems have none of these bounds.
* `SessionPool`: two callers are a reconciler of the Gateway and one of a route.
  Each may hold on to one manager that was replaced while three are in the pool:
  five managers never make `OpenKind` wait for one. One forwarding, because a
  table of keys is `TunnelManager`'s matter. Managers and callers are
  interchangeable, so the run uses symmetry; nothing is counted.
* `GatewayRoutes`: `MaxEdits` edits of the kinds in `Edits` and `MaxFaults`
  failures of the kinds in `Faults`. Four edits allow create, change, delete for
  one object with one edit of another between them, or two routes on one
  listener that is changed; two failures allow one during the recovery of the
  other. Reconciliations are not bounded. Routes and backends are
  interchangeable, so `routes_safety` uses symmetry; the liveness runs do not.
  In `routes_deletion` two routes compete for one listener, with any two of a lost
  session, a failing call and a restart: enough for one route to be left on the
  listener by the other's failure, and for a failure during the recovery.
* `GatewayStatus`: a TCP listener with two routes that may name it, one of them
  with two backends, and one that is TLS, passed through or not, with a third
  route. Two edits reach every pair of changes to listener, class and routes from
  what is deployed, in any order (a route deleted and another created in its
  place, a backend change while a class changes), and one failure (a lost session,
  a failing call, a restart) can befall any step. The reconcilers are not bounded.
  There is one for each kind of route in the code; `gateway_status` has one, which
  serves all routes and interleaves with the Gateway reconciler,
  `gateway_listener_status` has two. (With two and the edits of `gateway_status`
  there are ten times as many states.) The theorems hold for any number.
* `RouteStatus`: three edits (a change, another's write and a deletion, or a
  Gateway that comes, goes and comes) and one failed call; refused writes are not
  bounded. Two attempts stand for the four of `retry.DefaultBackoff`:
  one that is repeated and one that is the last.
  Two parents, so that one entry is left behind.

`CHECK_DEADLOCK FALSE` is set for `GatewayRoutes` and `RouteStatus` only: when
everything is deleted and all edits are spent the system really has nothing left
to do.

## Fairness

`TunnelManager!Fairness`: the Go scheduler runs every goroutine that can run and
every timer fires, so the call that holds the lock, the orphan goroutines and
the readers go on; a session being opened is answered or refused as long as the
server is not mute; the monitor whose keepalive failed gets the lock if it is
free again and again, because `sync.RWMutex` does not starve a waiting writer.
Nothing is assumed of callers, of clients, or of the server's answers.

`GatewayRoutes!Fairness`: the work queue hands out every scheduled object and a
worker goes on with what it does; waiters for `gatewaysMu` get it in turn
(`sync.Mutex` does not starve), which is strong fairness of the step that takes
it. That connections and starts which may fail do not fail for ever is
`MaxFaults`.

`RouteStatus!Fairness`: the watch delivers, the work queue hands out what is
scheduled, and the informer hands its objects out again from time to time
(controller-runtime's resync). The last is what brings a skipped route back;
nothing in this repository does.

`GatewayStatus!Fairness`: the Gateway reconciler and every route reconciler come
back, since every return of theirs carries `RequeueAfter` or an error. Which of a
reconciler's routes comes next is not said, only that one that can go on does.

## What is proved

With TLAPS, for every value of the constants: sets of requests, URIs, readers,
keys, routes, Gateways, listeners, and all bounds. What is assumed of them:
`AbsentAssumption`, that the values standing for "no forwarding" and "no
channel" are none; `ObjectsAssumption`, that no object is both a route and a
Gateway and that each listener is one of a Gateway; `NoneAssumption`, that
`None` is no configuration, request, route or listener; `SchemeAssumption`, that
the extraction of addresses yields HTTP and TCP URIs only; `PoolAssumption`, that
PROXY protocol versions are positive and `None` is no manager, request or flags;
`StatusAssumption`, `DeployedAssumption` and `RouteAssumption`, that listeners and
classes are what users may choose from, that `None` is no reason, registry, entry
or condition, and that at least one attempt is made to write a status.

* `TunnelManagerProofs!SafeInvHolds`: `Spec => []SafeInv`. `SafeInv` is
  inductive: types, `CallShape` (where the call in progress can be, that its key
  is not registered before it registers it, that what it is about to register is
  verified), `ChannelHasItsCall`, `NothingOutlivesConnection`,
  `RegisteredIsVerified`, `AddressesAreRegistered`. The last two are not
  inductive alone: between the arrival of the addresses and the registration they
  are stored under a key that is not registered, which is what `CallShape` says
  of the step `register`. There is one lemma per group of actions and one step
  per action.
* Its corollaries `TypeCorrect`, `Verified`, `ConnectionBounds`,
  `ChannelsFollowCalls`, `AddressesFollowTable` state the parts the runs check.
* `TunnelManagerProofs!AddressesStayValid`: `Spec => []StoredStaysValid`, from
  `SafeInv` and a lemma about the two checks.
* `TunnelManagerProofs!Implements`: `Spec => ImplementsTable`. An address is in the
  abstract table once its key is registered (`KnownAddrs`), so `URIsArrive`
  stutters and `Register` enters; `StopForwarding` removes; `closeClient`
  closes. `SafeInv` supplies that a registered key is the key of its forwarding
  and that nothing is left when a connection closes.
* `TunnelBinding!StaysBound`: if no client connects to unregistered keys,
  `Spec => []RegisteredIsBound`. The invariant `Bindings` says why a request
  executed late does no harm: the server answers in order, the waiting call's
  request is the newest one, so once a start has been accepted nothing is left
  on the wire, and no unanswered cancel is queued for a registered key.
* `SessionPoolProofs!PoolTypes`, `StoppedStaysStopped`, `ConfigurationIsFollowed`
  and `StartsOnItsKind`: `TypeOK`, `ConnectedIsInPool`, `SessionsFollowConfig` and
  `ForwardsOnItsKind`. The inductive invariant `PoolInv` adds to them `Distinct` (a
  manager serves one kind), `FlagsFollow` (the pool remembers what its managers
  were made with), `CallsHold` (a manager somebody looked up serves its kind or
  nothing: this is what makes it safe to call it after releasing the lock),
  `ConnectHolds` (a `Connect` keeps `ConfigureSessions` out, so it can connect
  nothing that was stopped) and `Progress` (what is settled while the second kind
  is dealt with).
* `SessionPoolProofs!PoolImplements`: `Spec => ImplementsTables`. A kind's table is
  that of its manager, or a closed one. `ClosedIsEmpty` supplies that stopping a
  session which was lost already is a stutter.
* `GatewayRoutesProofs!RouteTypes`: `Spec => [](TypeOK /\ CallShape)`. The two
  need each other: `StartForwarding` is called for the backend in `job`, and only
  `CallShape` says that the call which holds the locks still has a job, and that
  its listener is still registered.
* `GatewayRoutesProofs!RegistryStaysOwned`: `Spec => []RegistryIsOwned`. The
  invariant alone is not inductive, since `HandleAddOrUpdateGateway` registers
  what an earlier step read. `RegistryShape` ties the jobs to the objects: one
  about to register has put the finalizer on, and one about to remove it has
  taken the Gateway out of the registry.
* `RoutesAttachedProofs!AttachedStaysOwned`: `Spec => []AttachedIsOwned` if users
  do not move routes. `AttachedShape` says that a route is attached to its parent
  only and that a job's parent is still its route's, so that `RemoveRoute`, which
  looks at one listener, has looked at all. It needs the registry's invariant,
  because `RemoveRoute` looks for a listener through its Gateway. With moves it
  is false, see the known behaviours.
* `RoutesForwardingProofs!ForwardingsStayAccountedFor`:
  `Spec => []ForwardingIsAccountedFor` if users do not drop listeners from a
  Gateway. `SpecsGrow` says that a registered listener is in what the job in
  progress read, so `handleAddOrUpdateGateway` either keeps a listener or stops
  its forwarding. Of the errors that end a call, the ones on the way to a new
  forwarding leave none behind: either the session is closed, and `ClosedIsEmpty`,
  or the key was free. No assumption is made about two listeners having one key.
* `RoutesForwardingProofs!ForwardsWhereItShould`: if users do not drop listeners
  from a Gateway, `Spec /\ []DistinctKeys => []ForwardsToItsRoute`. The danger is
  adoption: `StartForwarding` answers that the forwarding exists, and `SetRoute`
  takes it for its own. `Started` is the only step that adds a forwarding or
  attaches a route (`Sheds` says what all the others do), and `AdoptsItsOwn` is what
  it needs to find: whatever is forwarded under the key of a call past its stop
  was started for the route and the backend of that call. That in turn needs
  `ForwardingIsAccountedFor`, since a forwarding without a listener would be found
  by the next one with its key.
* `RoutesForwardingProofs!ForwardsWhenConfiguredApart`: the same without the
  hypothesis on behaviours. `KeysApart` says of the configurations users choose
  from that no two listeners can have one key; registered listeners then never do
  (`KeysStayApart`, by `ConfigsFollow`: what is registered, and what a job read,
  was a configuration of that listener). The hypothesis is the code's: with two
  listeners on one key the property is false, see the known behaviours.
* `RoutesForwardingProofs!ImplementsRouteServing`: if users neither drop listeners
  nor move routes, `Spec /\ []DistinctKeys => ImplementsServing`. A route's home is
  its parent while its object carries the finalizer, and a listener serves while
  it has a route and its key is forwarded, to wherever that goes. Adding the
  finalizer takes a route on; `Started` serves; `Stopped`, a lost session, a
  restart, and the edit or deletion of a Gateway stop; `RouteFinalized` lets go,
  which `AttachedShape` allows. That a backend is never swapped under a listener in
  service is `AdoptsItsOwn` again.
* `GatewayStatusProofs!StatusTypesHold` and `ServedOnItsSession`: `TypeOK` and
  `NeverDowngraded`. The latter needs `ForwardingHasRoute`, that a forwarding's
  listener has a route: `handleAddOrUpdateGateway` stops what a changed listener
  had only if a route is registered for it.
* `RouteStatusProofs!RouteTypesHold`, `FinalizerBeforeRoute` and `OthersAreKept`:
  `TypeOK`, `AttachesOnlyOwned` and `OthersKept`. The inductive invariant
  `RouteInv` says what optimistic concurrency is worth here. `FreshCopy`: a copy
  that will be accepted agrees with the object but for the controller's own entry,
  except after an update whose answer was lost, and that copy is not written
  again. `CacheIsBehind` and `DeletionIsFinal`: an old copy with a finalizer that
  is not being deleted means that the object has it still, because only a
  reconciliation of an object being deleted takes it off. `GenerationsCounted`
  bounds the generation by the edits, for the type.
* `RouteStatusProofs!OwnedAreWatched`: `Spec => []OwnedIsWatched`, from `RouteInv`: a
  skip believes the cache, and `CacheIsBehind` says that a cache without the
  finalizer of an object that has it is one whose event is still to come. It is
  the safety half of `StatusSettles`: for routes we own, no resync is needed.

Every invariant, refinement and action property that a passing run checks is a
theorem. Only model-checked: liveness (`CallsReturn`, `FailureIsDetected`,
`RoutesGetAttached`, `DeletionSettles`, `AddressesSettle`, `ProgrammedSettles`,
`StatusSettles`), which is out of this prover's reach with fairness.

## What the models found

Shown by a run, with the quoted claims in `PROJECT.json` under `findings`:

* `sendForwarding` waits for `captureReady` with `clientMu` held; when the server
  goes silent before the capture session is opened, only `closeClient` could end
  the wait and it needs the lock. The connection is never given up.
* `notifyURIWaiters` sends on channels it copied before `sendForwarding` closed
  them: a panic.
* `RemoveRoute` fails for ever once the forwarding it wants to stop is gone, with
  its session (the run) or at a cancel that was denied or timed out, which drops
  the table entry and returns an error; the finalizer stays.
* The Gateway's status is written when its own conditions or its addresses have
  changed. With one listener rejected the Gateway is not programmed before and
  after a session of another listener is lost or comes back, so that listener's
  status is left as it was.

Behaviours of the same models that no run is kept for:

* The goroutine that cancels an orphan does not look again whether the key was
  registered meanwhile (`VisitedKeys` with a registered key, `RegisteredIsBound`).
* A forwarding that exists is adopted whoever started it (two listeners with one
  key in `RoutesSafety.cfg`, `ForwardsToItsRoute`).
* A backend change after a lost session fails like the deletion does
  (`RoutesStuckDeletion.cfg` with `"backend"` for `"delete"` and
  `RoutesGetAttached`), and so does a new route on a listener whose old one was
  deleted after the session was lost (`GatewayStatus.cfg` and `AddressesSettle`
  without `Blocked`): the listener is served no more until the old
  route comes back as it was, its Gateway is removed, its session kind, port or
  hostname changes, or the process restarts.
* A moved route stays attached to its old listener, after its deletion too
  (`"move"` added to `RoutesSafety.cfg`, `AttachedIsOwned`), and its status keeps
  the entry of its old parent (`RouteStatus`, where only the entry of the current
  parent is written).
* A listener dropped from its Gateway leaves its forwarding running
  (`"unlisten"` added, `ForwardingIsAccountedFor`). If it is added again, the route
  that is attached to it adopts what was left, whatever its backend
  (`ForwardsToItsRoute`): this is why the theorems on forwardings exclude it.
* A listener that changes from HTTP to HTTPS keeps being served, and one that
  changes back stays rejected: only port, hostname and session kind are compared
  (both protocols in `ConfigsOf` of `GatewayStatus`, `ProgrammedSettles`).
* Two classes with different annotations tear down each other's sessions in turn:
  sessions are configured per class, the pool is one. (`SessionsFollowConfig`
  holds between two of these.)
* A wildcard forwarding whose announcement comes late is registered without an
  address, and one announced late for another forwarding is stored for it.
* A TCP listener that pins its port is satisfied by an HTTP address, since
  `EnforcePort` "has no effect on HTTP/HTTPS URIs": the late announcement of another
  listener is enough to have it registered with that address
  (`TunnelTwoKeys.cfg`, `RegisteredIsVerified` with "the port is the one asked for").
* With a specific hostname, `EnforcePort` accepts a port that begins with the
  digits of the one asked for (`ContainsHostPort`).
* A route that is rejected by its listener is an error to its reconciler, and an
  error writes no status: `Accepted=False` with a reason of the listener's, which
  `CONFIGURATION.md` and `ARCHITECTURE.md` describe, is never written.
* A `TLSRoute`'s status is written back unchanged after a conflict, and waits for
  the next reconciliation (`Refetch`).
* On a retry the entry gets the generation of the object just fetched, with the
  outcome found for an earlier one, until the next reconciliation.
* A route whose references became invalid while it had a finalizer cannot be
  deleted, and keeps the status it had: its details are extracted before anything
  else is looked at.
* `populateListenerStatuses` reads the registry's maps without the locks
  `ARCHITECTURE.md` says protect them. The models let it see them at any moment;
  that Go may end the process for a concurrent map access is beyond them.
* A route reconciled before its Gateway exists is not scheduled again by the
  controller itself.

## What is not modelled

* The goroutines of two connections of one manager side by side. The capture
  goroutine of a closed connection reads `m.client`, `m.captureReady` and
  `m.connectionCtx` without a lock and may meet its successor's; a request
  goroutine may find `m.client` nil. Planned, below.
* The data path: the copying of bytes, which backend a connection accepted during
  a replacement reaches, dial errors and their rate-limited log.
* Of a Gateway's status, the number of attached routes and the supported kinds,
  which are counted from the same registry in the same write.
* Several Gateways in `GatewayStatus`: the registry keeps them apart, and what
  they share, the pool, is in `SessionPool`.
* The GatewayClass reconciler (one constant write), start-up and configuration
  (sequential), the test doubles.
* Durations. A property says that something happens, not within which time.
* Parsing of Kubernetes objects: references that fail validation only make the
  reconciliation return an error.

## Plan

Done: every module of the table above, with the theorems listed. What is left, in
this order:

1. `ConnectionLifecycle`: connections of one manager numbered by generation, with
   the capture, channel and monitor goroutines of each. To check: a stale
   goroutine never closes the successor's `captureReady`, a monitor never closes
   the successor's client, nobody uses a nil client.
2. An extension of `TunnelManager` with the data path: to which backend a client
   gets while forwardings are replaced.
