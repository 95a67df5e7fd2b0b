----------------------------- MODULE GatewayRoutes -----------------------------
(***************************************************************************)
(* The controllers that attach routes to the listeners of Gateways: the    *)
(* registry of GatewayReconciler (controllers/gateway_controller.go), the  *)
(* HTTPRoute, TCPRoute and TLSRoute reconcilers that call its SetRoute and *)
(* RemoveRoute, and the Kubernetes objects with their finalizers.          *)
(*                                                                         *)
(* The session is the abstract ForwardingTable, one step per call: what    *)
(* TunnelManager implements.  All listeners are of one session kind.       *)
(*                                                                         *)
(* A reconciliation reads its object first ("job" is what it read) and     *)
(* takes gatewaysMu later.  SetRoute and RemoveRoute hold gatewaysMu and   *)
(* listenersMu over all their calls to the session ("call"), while the     *)
(* session may come and go.  Every job is followed by another one, by      *)
(* RequeueAfter, backoff or an event, unless a comment says otherwise.     *)
(***************************************************************************)
EXTENDS AddressMatch, FiniteSets

CONSTANTS
  Gateways, Listeners, Routes, Backends,
  GatewayOf,     \* [Listeners -> Gateways]
  ConfigsOf,     \* the configurations [host, port, enforce, rejected] users may
                 \* give a listener
  URIs,          \* what the server may announce
  None,          \* absence: of a listener, route, forwarding or lock holder
  Edits,         \* the kinds of edit users make
  MaxEdits,      \* bound on edits
  Faults,        \* what may fail: "session", "server" or "process"
  MaxFaults      \* bound on failures

Objects == Routes \cup Gateways
Configs == UNION {ConfigsOf[l] : l \in Listeners}

Fwd(cfg, backend) == [host |-> cfg.host, port |-> cfg.port,
                      backend |-> backend, enforce |-> cfg.enforce]
Requests == {Fwd(cfg, b) : cfg \in Configs, b \in Backends}
KeyOf(fwd) == [host |-> fwd.host, port |-> fwd.port]
Keys == {KeyOf(fwd) : fwd \in Requests}

Route    == [name : Routes, backend : Backends]
Listener == [cfg : Configs, route : Route \cup {None}]

\* No object is both a route and a Gateway.
ASSUME ObjectsAssumption ==
  Routes \cap Gateways = {} /\ GatewayOf \in [Listeners -> Gateways]

ASSUME NoneAssumption == None \notin Configs \cup Requests \cup Route \cup Listener

VARIABLES
  routeObj,       \* [Routes -> [state, ours, parent, backend]]
  gwObj,          \* [Gateways -> [state, ours, spec]]
  due,            \* objects with a reconciliation scheduled
  job,            \* [Objects -> reconciliation in progress, or Idle]
  gateways,       \* r.gateways
  listeners,      \* [Listeners -> [cfg, route], or None]: gw.listeners
  call,           \* the SetRoute or RemoveRoute holding the locks
  connected, forwardings, assignedAddrs,   \* the session
  edits, faults   \* how many there have been

Session == INSTANCE ForwardingTable WITH
  open <- connected, table <- forwardings, addr <- assignedAddrs,
  NoFwd <- None, Acceptable <- MayStore

objVars  == <<routeObj, gwObj>>
regVars  == <<gateways, listeners, call>>
sessVars == <<connected, forwardings, assignedAddrs>>
vars == <<objVars, due, job, regVars, sessVars, edits, faults>>

Idle == [task |-> "idle"]
Free == [by |-> None, step |-> "free"]

ListenersOf(g) == {l \in Listeners : GatewayOf[l] = g}
NoSpec == [l \in Listeners |-> None]

NoObject  == [state |-> "absent", ours |-> FALSE, parent |-> None, backend |-> None]
NoGateway == [state |-> "absent", ours |-> FALSE, spec |-> NoSpec]

\* The listeners a Gateway object may list.
Specs(g) == {spec \in [Listeners -> Configs \cup {None}] :
               \A l \in Listeners : \/ spec[l] = None
                                    \/ l \in ListenersOf(g) /\ spec[l] \in ConfigsOf[l]}

Init ==
  /\ routeObj = [r \in Routes |-> NoObject]
  /\ gwObj \in [Gateways ->
       {NoGateway} \cup
       UNION {[state : {"live"}, ours : {FALSE}, spec : Specs(g)] : g \in Gateways}]
  /\ \A g \in Gateways : gwObj[g].spec \in Specs(g)
  /\ due = {g \in Gateways : gwObj[g].state = "live"}
  /\ job = [o \in Objects |-> Idle]
  /\ gateways = {} /\ listeners = NoSpec /\ call = Free
  /\ Session!Init
  /\ edits = 0 /\ faults = 0

-------------------------------------------------------------------------------
\* What users and the world do.

Edit(kind) ==
  /\ kind \in Edits /\ edits < MaxEdits /\ edits' = edits + 1
  /\ UNCHANGED <<job, regVars, sessVars, faults>>

Fault(kind) == kind \in Faults /\ faults < MaxFaults /\ faults' = faults + 1

CreateRoute(r, l, b) ==
  /\ Edit("create") /\ routeObj[r].state = "absent"
  /\ routeObj' = [routeObj EXCEPT ![r] =
       [state |-> "live", ours |-> FALSE, parent |-> l, backend |-> b]]
  /\ due' = due \cup {r} /\ UNCHANGED gwObj

ChangeBackend(r, b) ==
  /\ Edit("backend") /\ routeObj[r].state = "live" /\ b # routeObj[r].backend
  /\ routeObj' = [routeObj EXCEPT ![r].backend = b]
  /\ due' = due \cup {r} /\ UNCHANGED gwObj

MoveRoute(r, l) ==
  /\ Edit("move") /\ routeObj[r].state = "live" /\ l # routeObj[r].parent
  /\ routeObj' = [routeObj EXCEPT ![r].parent = l]
  /\ due' = due \cup {r} /\ UNCHANGED gwObj

\* An object with a finalizer stays until the finalizer is removed.
DeleteRoute(r) ==
  /\ Edit("delete") /\ routeObj[r].state = "live"
  /\ routeObj' = [routeObj EXCEPT ![r] =
       IF routeObj[r].ours THEN [routeObj[r] EXCEPT !.state = "deleting"] ELSE NoObject]
  /\ due' = due \cup {r} /\ UNCHANGED gwObj

CreateGateway(g, spec) ==
  /\ Edit("gateway") /\ gwObj[g].state = "absent"
  /\ gwObj' = [gwObj EXCEPT ![g] =
       [state |-> "live", ours |-> FALSE, spec |-> spec]]
  /\ due' = due \cup {g} /\ UNCHANGED routeObj

EditGateway(g, spec) ==
  /\ Edit("listeners") /\ gwObj[g].state = "live" /\ spec # gwObj[g].spec
  /\ \A l \in ListenersOf(g) :
       gwObj[g].spec[l] # None /\ spec[l] = None => "unlisten" \in Edits
  /\ gwObj' = [gwObj EXCEPT ![g].spec = spec]
  /\ due' = due \cup {g} /\ UNCHANGED routeObj

DeleteGateway(g) ==
  /\ Edit("undeploy") /\ gwObj[g].state = "live"
  /\ gwObj' = [gwObj EXCEPT ![g] =
       IF gwObj[g].ours THEN [gwObj[g] EXCEPT !.state = "deleting"] ELSE NoGateway]
  /\ due' = due \cup {g} /\ UNCHANGED routeObj

SessionCloses ==
  /\ Fault("session") /\ Session!Close
  /\ UNCHANGED <<objVars, due, job, regVars, edits>>

\* The pod is restarted: everything but the Kubernetes objects is lost.
Restart ==
  /\ Fault("process")
  /\ due' = {r \in Routes : routeObj[r].state # "absent"}
            \cup {g \in Gateways : gwObj[g].state # "absent"}
  /\ job' = [o \in Objects |-> Idle]
  /\ gateways' = {} /\ listeners' = NoSpec /\ call' = Free
  /\ connected' = FALSE
  /\ forwardings' = Session!Empty /\ assignedAddrs' = Session!NoAddr
  /\ UNCHANGED <<objVars, edits>>

-------------------------------------------------------------------------------
\* The route reconcilers.

\* The job ends; RequeueAfter or backoff schedules the next one.
Finish(o) == job' = [job EXCEPT ![o] = Idle] /\ due' = due \cup {o}

\* A route that is not ours yet and whose Gateway is not there: IsGatewayManaged
\* says no.
Unmanaged(r) ==
  /\ routeObj[r].state # "absent" /\ ~routeObj[r].ours
  /\ gwObj[GatewayOf[routeObj[r].parent]].state = "absent"

\* Nothing is scheduled any more.
SkipRoute(r) ==
  /\ r \in due /\ job[r] = Idle
  /\ routeObj[r].state = "absent" \/ Unmanaged(r)
  /\ due' = due \ {r}
  /\ UNCHANGED <<objVars, job, regVars, sessVars, edits, faults>>

\* Reconcile up to the call of SetRoute or RemoveRoute, with the finalizer.
ReconcileRoute(r) ==
  /\ r \in due /\ job[r] = Idle
  /\ routeObj[r].state # "absent" /\ ~Unmanaged(r)
  /\ due' = due \ {r}
  /\ job' = [job EXCEPT ![r] =
       [task |-> IF routeObj[r].state = "live" THEN "set" ELSE "remove",
        parent |-> routeObj[r].parent, backend |-> routeObj[r].backend]]
  /\ routeObj' = [routeObj EXCEPT ![r].ours = TRUE]
  /\ UNCHANGED <<gwObj, regVars, sessVars, edits, faults>>

\* The finalizer is removed, and with it the object.
RouteFinalized(r) ==
  /\ job[r].task = "finalize"
  /\ routeObj' = [routeObj EXCEPT ![r] = NoObject]
  /\ Finish(r)
  /\ UNCHANGED <<gwObj, regVars, sessVars, edits, faults>>

-------------------------------------------------------------------------------
\* SetRoute and RemoveRoute.

Found(l)    == GatewayOf[l] \in gateways /\ listeners[l] # None
Wanted(r)   == [name |-> r, backend |-> job[r].backend]

\* Mutant: an attached route is never looked at again.
Valid_Always(cfg) == TRUE

Valid(cfg)  == ForwardingValid(cfg, assignedAddrs[KeyOf(cfg)])
Attached(r, l) == listeners[l].route = Wanted(r)

Begin(r, step) == call' = [by |-> r, step |-> step] /\ UNCHANGED <<job, due>>

\* Mutant: the forwarding of the old route is not stopped.
FirstStep_Start(l) == "connect"

FirstStep(l) == IF listeners[l].route = None THEN "connect" ELSE "stop"

SetRoute(r) ==
  /\ call = Free /\ job[r].task = "set"
  /\ LET l == job[r].parent IN
     \/ /\ \/ ~Found(l)
           \/ Found(l) /\ listeners[l].cfg.rejected
           \/ Found(l) /\ Attached(r, l) /\ Valid(listeners[l].cfg)
        /\ Finish(r) /\ UNCHANGED <<listeners, call>>
     \/ /\ Found(l) /\ ~listeners[l].cfg.rejected
        /\ \/ /\ Attached(r, l) /\ ~Valid(listeners[l].cfg)
              /\ listeners' = [listeners EXCEPT ![l].route = None]
              /\ Begin(r, "connect")
           \/ /\ ~Attached(r, l)
              /\ Begin(r, FirstStep(l)) /\ UNCHANGED listeners
  /\ UNCHANGED <<objVars, gateways, sessVars, edits, faults>>

\* Mutant: the route must still have the backend it was attached with.
IsHere_SameBackend(r, l) == Found(l) /\ Attached(r, l)

IsHere(r, l) ==
  Found(l) /\ listeners[l].route # None /\ listeners[l].route.name = r

\* Mutant: ErrGatewayNotFound and ErrRouteNotFound are errors like any other.
NotHere_Fails(r) == Finish(r) /\ UNCHANGED call

\* ErrGatewayNotFound and ErrRouteNotFound: there is nothing left to remove.
NotHere(r) ==
  job' = [job EXCEPT ![r].task = "finalize"] /\ UNCHANGED <<due, call>>

RemoveRoute(r) ==
  /\ call = Free /\ job[r].task = "remove"
  /\ IF IsHere(r, job[r].parent) THEN Begin(r, "stop") ELSE NotHere(r)
  /\ UNCHANGED <<objVars, gateways, listeners, sessVars, edits, faults>>

\* The call that holds the locks works for route r on listener l.
Holding(r, l, step) ==
  /\ call = [by |-> r, step |-> step] /\ l = job[r].parent
  /\ UNCHANGED <<objVars, gateways, edits>>

Key(l) == KeyOf(listeners[l].cfg)

\* The call returns with an error: l.route stays as it is.
CallFails(r) == call' = Free /\ Finish(r) /\ UNCHANGED listeners

\* StopForwarding answers that there is no session or no forwarding.
StopRefused(r, l) ==
  /\ Holding(r, l, "stop")
  /\ ~connected \/ forwardings[Key(l)] = None
  /\ CallFails(r) /\ UNCHANGED <<sessVars, faults>>

\* The forwarding is gone although the server did not confirm the cancel.
StopFails(r, l) ==
  /\ Holding(r, l, "stop") /\ Session!Remove(Key(l)) /\ Fault("server")
  /\ CallFails(r)

Stopped(r, l) ==
  /\ Holding(r, l, "stop") /\ Session!Remove(Key(l)) /\ UNCHANGED faults
  /\ \/ job[r].task = "set" /\ Begin(r, "connect") /\ UNCHANGED listeners
     \/ /\ job[r].task = "remove" /\ call' = Free
        /\ listeners' = [listeners EXCEPT ![l].route = None]
        /\ job' = [job EXCEPT ![r].task = "finalize"] /\ UNCHANGED due

\* IsConnected, or Connect and IsConnected again.
Connects(r, l) ==
  /\ Holding(r, l, "connect")
  /\ \/ connected /\ UNCHANGED sessVars
     \/ Session!Open
  /\ Begin(r, "start") /\ UNCHANGED <<listeners, faults>>

ConnectFails(r, l) ==
  /\ Holding(r, l, "connect") /\ ~connected /\ Fault("session")
  /\ CallFails(r) /\ UNCHANGED sessVars

\* StartForwarding on a session that has closed since.
StartRefused(r, l) ==
  /\ Holding(r, l, "start") /\ ~connected
  /\ CallFails(r) /\ UNCHANGED <<sessVars, faults>>

\* The server refuses, does not answer, or assigns something else.
StartFails(r, l) ==
  /\ Holding(r, l, "start") /\ connected /\ forwardings[Key(l)] = None
  /\ Fault("server")
  /\ CallFails(r) /\ UNCHANGED sessVars

Started(r, l) ==
  /\ Holding(r, l, "start")
  /\ \/ \E uris \in SUBSET URIs :
          Session!Enter(Fwd(listeners[l].cfg, job[r].backend), uris)
     \* ErrSSHForwardingExists: adopted
     \/ connected /\ forwardings[Key(l)] # None /\ UNCHANGED sessVars
  /\ listeners' = [listeners EXCEPT ![l].route = Wanted(r)]
  /\ call' = Free /\ Finish(r) /\ UNCHANGED faults

-------------------------------------------------------------------------------
\* The Gateway reconciler.

\* ensurePlainSSHSessionConnected; an attempt that fails only schedules the
\* next one.
ReconcileGateway(g) ==
  /\ g \in due /\ job[g] = Idle
  /\ (connected /\ UNCHANGED sessVars) \/ Session!Open
  /\ due' = due \ {g}
  /\ job' = [job EXCEPT ![g] = IF gwObj[g].state = "absent" THEN Idle
                               ELSE [task |-> "read"]]
  /\ UNCHANGED <<objVars, regVars, edits, faults>>

\* Mutant: the finalizer is forgotten.
ensureGatewayFinalizer_Never(g) == UNCHANGED gwObj

ensureGatewayFinalizer(g) == gwObj' = [gwObj EXCEPT ![g].ours = TRUE]

\* The object is read and, unless it is being deleted, the session checked
\* again and the finalizer added.
GatewayReads(g) ==
  /\ job[g].task = "read"
  /\ \/ /\ gwObj[g].state = "absent"
        /\ job' = [job EXCEPT ![g] = Idle] /\ UNCHANGED <<due, gwObj, sessVars>>
     \/ /\ gwObj[g].state = "deleting"
        /\ job' = [job EXCEPT ![g] = [task |-> "delete"]]
        /\ UNCHANGED <<due, gwObj, sessVars>>
     \/ /\ gwObj[g].state = "live"
        /\ (connected /\ UNCHANGED sessVars) \/ Session!Open
        /\ job' = [job EXCEPT ![g] = [task |-> "update", spec |-> gwObj[g].spec]]
        /\ ensureGatewayFinalizer(g) /\ UNCHANGED due
  /\ UNCHANGED <<routeObj, regVars, edits, faults>>

\* StopForwarding on each of keys, errors ignored.
StopAll(keys) ==
  /\ forwardings' = [k \in Keys |-> IF k \in keys THEN None ELSE forwardings[k]]
  /\ assignedAddrs' = [k \in Keys |-> IF k \in keys THEN {} ELSE assignedAddrs[k]]
  /\ UNCHANGED connected

\* Mutant: a listener is made whether or not the Gateway lists it.
NewListener_Always(cfg) == [cfg |-> cfg, route |-> None]

\* createListener
NewListener(cfg) == IF cfg = None THEN None ELSE [cfg |-> cfg, route |-> None]

Routed(g) == {l \in ListenersOf(g) : listeners[l] # None /\ listeners[l].route # None}

\* A listener is kept, with its route, unless its key changes.
Kept(l, spec) ==
  listeners[l] # None /\ spec[l] # None /\ Key(l) = KeyOf(spec[l])

HandleAddOrUpdateGateway(g) ==
  /\ call = Free /\ job[g].task = "update"
  /\ LET spec == job[g].spec IN
     /\ listeners' = [l \in Listeners |->
          IF l \notin ListenersOf(g) \/ (g \in gateways /\ Kept(l, spec))
            THEN listeners[l] ELSE NewListener(spec[l])]
     /\ StopAll({Key(l) : l \in {m \in Routed(g) :
                                   spec[m] # None /\ ~Kept(m, spec)}})
  /\ gateways' = gateways \cup {g}
  /\ Finish(g)
  /\ UNCHANGED <<objVars, call, edits, faults>>

\* Mutant: the forwardings of a deleted Gateway go on.
HandleDeleteGateway_KeepsForwardings(g) ==
  /\ call = Free /\ job[g].task = "delete"
  /\ listeners' = [l \in Listeners |->
                     IF l \in ListenersOf(g) THEN None ELSE listeners[l]]
  /\ gateways' = gateways \ {g}
  /\ job' = [job EXCEPT ![g] = [task |-> "finalize"]]
  /\ UNCHANGED <<objVars, due, call, sessVars, edits, faults>>

HandleDeleteGateway(g) ==
  /\ call = Free /\ job[g].task = "delete"
  /\ StopAll({Key(l) : l \in Routed(g)})
  /\ listeners' = [l \in Listeners |->
                     IF l \in ListenersOf(g) THEN None ELSE listeners[l]]
  /\ gateways' = gateways \ {g}
  /\ job' = [job EXCEPT ![g] = [task |-> "finalize"]]
  /\ UNCHANGED <<objVars, due, call, edits, faults>>

GatewayFinalized(g) ==
  /\ job[g].task = "finalize"
  /\ gwObj' = [gwObj EXCEPT ![g] = NoGateway]
  /\ Finish(g)
  /\ UNCHANGED <<routeObj, regVars, sessVars, edits, faults>>

-------------------------------------------------------------------------------
UserStep ==
  \/ \E r \in Routes, l \in Listeners, b \in Backends : CreateRoute(r, l, b)
  \/ \E r \in Routes, b \in Backends : ChangeBackend(r, b)
  \/ \E r \in Routes, l \in Listeners : MoveRoute(r, l)
  \/ \E r \in Routes : DeleteRoute(r)
  \/ \E g \in Gateways : \E spec \in Specs(g) :
       CreateGateway(g, spec) \/ EditGateway(g, spec)
  \/ \E g \in Gateways : DeleteGateway(g)

FaultStep == SessionCloses \/ Restart

CallStep(r, l) ==
  \/ StopRefused(r, l) \/ StopFails(r, l) \/ Stopped(r, l)
  \/ Connects(r, l) \/ ConnectFails(r, l)
  \/ StartRefused(r, l) \/ StartFails(r, l) \/ Started(r, l)

RouteStep(r) ==
  \/ SkipRoute(r) \/ ReconcileRoute(r) \/ RouteFinalized(r)
  \/ \E l \in Listeners : CallStep(r, l)

LockStep(o) ==
  \/ o \in Routes /\ (SetRoute(o) \/ RemoveRoute(o))
  \/ o \in Gateways /\ (HandleAddOrUpdateGateway(o) \/ HandleDeleteGateway(o))

GatewayStep(g) == ReconcileGateway(g) \/ GatewayReads(g) \/ GatewayFinalized(g)

Next ==
  \/ UserStep \/ FaultStep
  \/ \E r \in Routes : RouteStep(r)
  \/ \E g \in Gateways : GatewayStep(g)
  \/ \E o \in Objects : LockStep(o)

Spec == Init /\ [][Next]_vars

\* The work queues hand out every scheduled object, each worker goes on, a
\* Mutex lets every waiter in (so strong fairness), and calls to the session
\* return.  Sessions that keep failing are excluded by MaxFaults.
Fairness ==
  /\ \A r \in Routes : WF_vars(RouteStep(r))
  /\ \A g \in Gateways : WF_vars(GatewayStep(g))
  /\ \A o \in Objects : SF_vars(LockStep(o))

FairSpec == Spec /\ Fairness
===============================================================================
