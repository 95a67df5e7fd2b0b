--------------------------- MODULE GatewayRoutesProps ---------------------------
(***************************************************************************)
(* What the controllers guarantee about routes, listeners and forwardings, *)
(* and what their comments and documents say of them.                      *)
(***************************************************************************)
EXTENDS GatewayRoutes

RouteJob == {Idle} \cup
  [task : {"set", "remove", "finalize"}, parent : Listeners, backend : Backends]

GatewayJob == {Idle} \cup [task : {"read", "delete", "finalize"}]
              \cup [task : {"update"}, spec : [Listeners -> Configs \cup {None}]]

(***************************************************************************)
(* Every variable keeps its type.                                          *)
(***************************************************************************)
TypeOK ==
  /\ routeObj \in [Routes ->
       [state : {"live", "deleting"}, ours : BOOLEAN, parent : Listeners,
        backend : Backends] \cup {NoObject}]
  /\ gwObj \in [Gateways ->
       [state : {"live", "deleting"}, ours : BOOLEAN,
        spec : [Listeners -> Configs \cup {None}]] \cup {NoGateway}]
  /\ due \subseteq Objects
  /\ job \in [Objects -> RouteJob \cup GatewayJob]
  /\ \A r \in Routes : job[r] \in RouteJob
  /\ \A g \in Gateways : job[g] \in GatewayJob
  /\ gateways \subseteq Gateways
  /\ listeners \in [Listeners -> Listener \cup {None}]
  /\ call \in {Free} \cup [by : Routes, step : {"stop", "connect", "start"}]
  /\ connected \in BOOLEAN
  /\ forwardings \in [Keys -> Requests \cup {None}]
  /\ assignedAddrs \in [Keys -> SUBSET URIs]

(***************************************************************************)
(* The registry holds only Gateways that carry our finalizer, so a Gateway *)
(* that is gone has been taken out of the registry, with its listeners,    *)
(* although its reconciliations act on what they read earlier.             *)
(***************************************************************************)
RegistryIsOwned ==
  /\ \A g \in gateways : gwObj[g].state # "absent" /\ gwObj[g].ours
  /\ \A l \in Listeners : listeners[l] # None => GatewayOf[l] \in gateways

(***************************************************************************)
(* "Add a finalizer so we can correctly clean up the route when it's       *)
(* deleted" (handleAddOrUpdate): a listener never keeps a route whose      *)
(* object is gone.                                                         *)
(***************************************************************************)
AttachedIsOwned ==
  \A l \in Listeners : listeners[l] # None /\ listeners[l].route # None =>
    LET o == routeObj[listeners[l].route.name] IN o.state # "absent" /\ o.ours

(***************************************************************************)
(* No forwarding is left running that no listener accounts for: there is a *)
(* listener for its key which has a route, or whose route is being set.    *)
(***************************************************************************)
ForwardingIsAccountedFor ==
  \A k \in Keys : forwardings[k] # None =>
    \E l \in Listeners :
      /\ listeners[l] # None /\ Key(l) = k
      /\ listeners[l].route # None
         \/ (call # Free /\ job[call.by].parent = l)

(***************************************************************************)
(* A listener that has a route and a forwarding forwards to the backend of *)
(* that route: adopting a forwarding that exists ("controller restart      *)
(* case") never adopts another one's.                                      *)
(***************************************************************************)
ForwardsToItsRoute ==
  \A l \in Listeners :
    listeners[l] # None /\ listeners[l].route # None /\ forwardings[Key(l)] # None
      => forwardings[Key(l)].backend = listeners[l].route.backend

(***************************************************************************)
(* Why RegistryIsOwned is kept: a Gateway that is about to be registered   *)
(* has its finalizer, and one that loses it has left the registry.         *)
(***************************************************************************)
RegistryShape ==
  \A g \in Gateways :
    /\ job[g].task = "update" => gwObj[g].state # "absent" /\ gwObj[g].ours
    /\ job[g].task = "finalize" => g \notin gateways

HasRoute(l) == listeners[l] # None /\ listeners[l].route # None

(***************************************************************************)
(* Why AttachedIsOwned is kept while routes are not moved: a route is      *)
(* attached to its parent only, what a reconciliation read of the parent   *)
(* is still so, and a route that loses its finalizer is attached nowhere.  *)
(***************************************************************************)
AttachedShape ==
  /\ \A l \in Listeners :
       HasRoute(l) => routeObj[listeners[l].route.name].parent = l
  /\ \A r \in Routes :
       /\ job[r] # Idle =>
            /\ routeObj[r].state # "absent" /\ routeObj[r].ours
            /\ job[r].parent = routeObj[r].parent
       /\ job[r].task = "finalize" =>
            \A l \in Listeners : HasRoute(l) => listeners[l].route.name # r

(***************************************************************************)
(* What the call that holds the locks works on: its job has not ended, and *)
(* the listener stays, with the route that is about to be stopped.         *)
(***************************************************************************)
CallShape ==
  call # Free =>
    /\ job[call.by].task \in {"set", "remove"}
    /\ call.step # "stop" => job[call.by].task = "set"
    /\ listeners[job[call.by].parent] # None
    /\ call.step = "stop" => listeners[job[call.by].parent].route # None

(***************************************************************************)
(* Why ForwardingIsAccountedFor is kept while no listener is dropped from  *)
(* its Gateway: what is registered is still in the specification, and in   *)
(* what the reconciliation in progress read of it.                         *)
(***************************************************************************)
SpecsGrow ==
  \A g \in Gateways : \A l \in ListenersOf(g) :
    /\ listeners[l] # None => gwObj[g].spec[l] # None
    /\ job[g].task = "update" =>
         /\ listeners[l] # None => job[g].spec[l] # None
         /\ job[g].spec[l] # None => gwObj[g].spec[l] # None

\* A session that closes takes its forwardings with it (closeClient).
ClosedIsEmpty == ~connected => forwardings = Session!Empty

(***************************************************************************)
(* No two registered listeners share a host and port.                      *)
(***************************************************************************)
DistinctKeys ==
  \A l, m \in Listeners :
    listeners[l] # None /\ listeners[m] # None /\ Key(l) = Key(m) => l = m

(***************************************************************************)
(* Why ForwardsToItsRoute is kept: what a call may adopt is a forwarding   *)
(* of the route it sets, which it has just taken off the listener because  *)
(* its address is no longer valid.                                         *)
(***************************************************************************)
AdoptsItsOwn ==
  call # Free /\ call.step # "stop" =>
    LET l == job[call.by].parent IN
    forwardings[Key(l)] # None =>
      /\ listeners[l].route = None
      /\ forwardings[Key(l)].backend = job[call.by].backend

(***************************************************************************)
(* The refinement mapping to RouteServing: a route is taken on by adding   *)
(* the finalizer, and a listener serves its route while the session        *)
(* forwards its key, to wherever that goes.                                *)
(***************************************************************************)
Homes == [r \in Routes |-> IF routeObj[r].ours THEN routeObj[r].parent ELSE None]

Served ==
  [l \in Listeners |->
     IF HasRoute(l) /\ forwardings[Key(l)] # None
       THEN [name |-> listeners[l].route.name, backend |-> forwardings[Key(l)].backend]
       ELSE None]

Traffic == INSTANCE RouteServing WITH home <- Homes, serving <- Served

(***************************************************************************)
(* The controllers keep what RouteServing promises: "Add a finalizer so we *)
(* can correctly clean up the route when it's deleted" (handleAddOrUpdate) *)
(* and "Stop existing forwarding if present" (setupRouteForwarding),       *)
(* through every failure and restart.                                      *)
(***************************************************************************)
ImplementsServing == Traffic!Spec

Expected(r) ==
  LET o == routeObj[r] IN
  /\ o.state = "live"
  /\ \E l \in Listeners :
       /\ l = o.parent /\ gwObj[GatewayOf[l]].state = "live"
       /\ gwObj[GatewayOf[l]].spec[l] # None
       /\ ~gwObj[GatewayOf[l]].spec[l].rejected

Serving(r) ==
  LET o == routeObj[r] IN
  \E l \in Listeners :
    /\ l = o.parent /\ listeners[l] # None
    /\ listeners[l].route = [name |-> r, backend |-> o.backend]
    /\ forwardings[Key(l)] # None /\ forwardings[Key(l)].backend = o.backend

(***************************************************************************)
(* Periodic reconciliation "Ensures routes are always attached even after  *)
(* transient failures" (ARCHITECTURE.md): a route whose Gateway lists its  *)
(* listener gets its forwarding, once failures and edits end.              *)
(***************************************************************************)
RoutesGetAttached == \A r \in Routes : Expected(r) ~> Serving(r) \/ ~Expected(r)

\* The parent of the route still holds it, although nothing is forwarded under
\* its key any more: StopForwarding will answer so at every retry.
Orphaned(r) ==
  \E l \in Listeners :
    /\ l = routeObj[r].parent /\ HasRoute(l) /\ listeners[l].route.name = r
    /\ forwardings[Key(l)] = None

(***************************************************************************)
(* When users and failures come to rest, a deleted route is gone.  The one *)
(* case excluded is that of a listener which lost the forwarding before    *)
(* RemoveRoute could stop it: with its session, at a cancel the server did *)
(* not confirm, or when the listener was to go over to another backend.    *)
(***************************************************************************)
DeletionSettles ==
  <>[](\A r \in Routes : routeObj[r].state = "deleting" => Orphaned(r))

(***************************************************************************)
(* A deleted route is let go: "RemoveRoute()", "Remove finalizer"          *)
(* (ARCHITECTURE.md, reconciliation workflow).                             *)
(***************************************************************************)
DeletionCompletes ==
  \A r \in Routes : routeObj[r].state = "deleting" ~> routeObj[r].state # "deleting"
===============================================================================
