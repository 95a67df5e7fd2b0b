------------------------- MODULE RoutesForwardingProofs -------------------------
(***************************************************************************)
(* Theorems about the forwardings of GatewayRoutes: each has a listener,   *)
(* goes where the route of its listener goes, and comes and goes as        *)
(* RouteServing says.                                                      *)
(***************************************************************************)
EXTENDS RoutesAttachedProofs

\* What is registered is in the specifications.

\* A Gateway with a listener is there, and ours.
LEMMA ListenerGateway ==
  ASSUME RegistryOK, NEW l \in Listeners, listeners[l] # None
  PROVE  /\ GatewayOf[l] \in gateways
         /\ gwObj[GatewayOf[l]].state # "absent" /\ gwObj[GatewayOf[l]].ours
BY DEF RegistryOK, RegistryIsOwned

\* A step that leaves the Gateways alone, registers no listener and begins no
\* update.
LEMMA SpecsElsewhere ==
  ASSUME SpecsGrow, UNCHANGED gwObj,
         \A g \in Gateways : job'[g] = job[g] \/ job'[g].task # "update",
         \A l \in Listeners : listeners'[l] # None => listeners[l] # None
  PROVE  SpecsGrow'
BY DEF SpecsGrow, ListenersOf

\* A step that changes one Gateway object, which goes on listing what it listed
\* unless it was not ours.
LEMMA SpecsObject ==
  ASSUME SpecsGrow, RegistryOK, ObjType, UNCHANGED <<job, listeners>>,
         NEW g \in Gateways, NEW o, gwObj' = [gwObj EXCEPT ![g] = o],
         gwObj[g].state # "absent" /\ gwObj[g].ours =>
           \A l \in ListenersOf(g) : gwObj[g].spec[l] # None => o.spec[l] # None
  PROVE  SpecsGrow'
<1>1. gwObj'[g] = o /\ \A h \in Gateways \ {g} : gwObj'[h] = gwObj[h]
  BY DEF ObjType
<1>2. ASSUME NEW h \in Gateways, NEW l \in ListenersOf(h), gwObj[h].spec[l] # None,
             gwObj[h].state # "absent" /\ gwObj[h].ours
      PROVE  gwObj'[h].spec[l] # None
  BY <1>1, <1>2
<1>3. ASSUME NEW h \in Gateways, NEW l \in ListenersOf(h), listeners[l] # None
      PROVE  gwObj'[h].spec[l] # None
  BY <1>2, <1>3, ListenerGateway DEF SpecsGrow, ListenersOf
<1>4. ASSUME NEW h \in Gateways, NEW l \in ListenersOf(h), job[h].task = "update",
             job[h].spec[l] # None
      PROVE  gwObj'[h].spec[l] # None
  BY <1>2, <1>4 DEF SpecsGrow, RegistryOK, RegistryShape
<1> QED BY <1>3, <1>4 DEF SpecsGrow

LEMMA SpecsUsers ==
  ASSUME "unlisten" \notin Edits, TypeOK, RegistryOK, SpecsGrow, UserStep
  PROVE  SpecsGrow'
<1>0. ObjType
  BY TypeParts
<1>1. UNCHANGED <<job, listeners>>
  BY DEF UserStep, CreateRoute, ChangeBackend, MoveRoute, DeleteRoute,
     CreateGateway, EditGateway, DeleteGateway, Edit, regVars
<1>2. CASE UNCHANGED gwObj
  BY <1>1, <1>2, SpecsElsewhere
<1>3. ASSUME NEW g \in Gateways, NEW spec \in Specs(g), CreateGateway(g, spec)
      PROVE  SpecsGrow'
  BY <1>0, <1>1, <1>3, SpecsObject DEF CreateGateway
<1>4. ASSUME NEW g \in Gateways, NEW spec \in Specs(g), EditGateway(g, spec)
      PROVE  SpecsGrow'
  <2>1. gwObj' = [gwObj EXCEPT ![g] = [gwObj[g] EXCEPT !.spec = spec]]
    BY <1>0, <1>4 DEF EditGateway, ObjType
  <2>2. gwObj[g] \in GwObjs /\ gwObj[g].state # "absent"
    BY <1>0, <1>4 DEF EditGateway, ObjType
  <2>3. [gwObj[g] EXCEPT !.spec = spec].spec = spec
    BY <2>2, GwFields
  <2>4. \A l \in ListenersOf(g) : gwObj[g].spec[l] # None => spec[l] # None
    BY <1>4 DEF EditGateway
  <2> QED BY <1>0, <1>1, <2>1, <2>3, <2>4, SpecsObject
<1>5. ASSUME NEW g \in Gateways, DeleteGateway(g) PROVE SpecsGrow'
  <2>1. CASE gwObj[g].ours
    <3>1. gwObj' = [gwObj EXCEPT ![g] = [gwObj[g] EXCEPT !.state = "deleting"]]
      BY <1>5, <2>1 DEF DeleteGateway
    <3>2. gwObj[g] \in GwObjs /\ gwObj[g].state # "absent"
      BY <1>0, <1>5 DEF DeleteGateway, ObjType
    <3>3. [gwObj[g] EXCEPT !.state = "deleting"].spec = gwObj[g].spec
      BY <3>2, GwFields
    <3> QED BY <1>0, <1>1, <3>1, <3>3, SpecsObject
  <2>2. CASE ~gwObj[g].ours
    <3>1. gwObj' = [gwObj EXCEPT ![g] = NoGateway]
      BY <1>5, <2>2 DEF DeleteGateway
    <3> QED BY <1>0, <1>1, <2>2, <3>1, SpecsObject
  <2> QED BY <2>1, <2>2
<1> QED BY <1>2, <1>3, <1>4, <1>5 DEF UserStep, CreateRoute, ChangeBackend,
      MoveRoute, DeleteRoute

LEMMA SpecsGateways ==
  ASSUME TypeOK, RegistryOK, SpecsGrow, NEW g \in Gateways,
         GatewayStep(g) \/ HandleAddOrUpdateGateway(g) \/ HandleDeleteGateway(g)
  PROVE  SpecsGrow'
<1>0. ObjType /\ JobType /\ RegType
  BY TypeParts
<1> USE <1>0
<1>1. ASSUME NEW j, job' = [job EXCEPT ![g] = j]
      PROVE  job'[g] = j /\ \A h \in Gateways \ {g} : job'[h] = job[h]
  BY <1>1 DEF JobType, Objects
<1>2. ASSUME NEW j, job' = [job EXCEPT ![g] = j], j.task \notin {"update"},
             UNCHANGED <<gwObj, listeners>>
      PROVE  SpecsGrow'
  BY <1>1, <1>2, SpecsElsewhere
<1>3. CASE ReconcileGateway(g)
  <2>1. UNCHANGED <<gwObj, listeners>>
    BY <1>3 DEF ReconcileGateway, objVars, regVars
  <2>2. CASE gwObj[g].state = "absent"
    <3>1. job' = [job EXCEPT ![g] = Idle]
      BY <1>3, <2>2 DEF ReconcileGateway
    <3> QED BY <1>2, <2>1, <3>1 DEF Idle
  <2>3. CASE gwObj[g].state # "absent"
    <3>1. job' = [job EXCEPT ![g] = [task |-> "read"]]
      BY <1>3, <2>3 DEF ReconcileGateway
    <3> QED BY <1>2, <2>1, <3>1
  <2> QED BY <2>2, <2>3
<1>4. CASE GatewayReads(g)
  <2>1. UNCHANGED listeners
    BY <1>4 DEF GatewayReads, regVars
  <2>2. CASE gwObj[g].state = "absent"
    <3>1. job' = [job EXCEPT ![g] = Idle] /\ UNCHANGED gwObj
      BY <1>4, <2>2 DEF GatewayReads
    <3> QED BY <1>2, <2>1, <3>1 DEF Idle
  <2>3. CASE gwObj[g].state = "deleting"
    <3>1. job' = [job EXCEPT ![g] = [task |-> "delete"]] /\ UNCHANGED gwObj
      BY <1>4, <2>3 DEF GatewayReads
    <3> QED BY <1>2, <2>1, <3>1
  <2>4. CASE gwObj[g].state = "live"
    <3>1. /\ job' = [job EXCEPT ![g] = [task |-> "update", spec |-> gwObj[g].spec]]
          /\ gwObj' = [gwObj EXCEPT ![g] = [gwObj[g] EXCEPT !.ours = TRUE]]
      BY <1>4, <2>4 DEF GatewayReads, ensureGatewayFinalizer, ObjType
    <3>2. gwObj[g] \in [state : {"live", "deleting"}, ours : BOOLEAN,
                       spec : [Listeners -> Configs \cup {None}]]
      BY <2>4, GwFields DEF ObjType
    <3>3. /\ gwObj'[g].spec = gwObj[g].spec
          /\ \A h \in Gateways \ {g} : gwObj'[h] = gwObj[h]
      BY <3>1, <3>2 DEF ObjType
    <3>4. job'[g].spec = gwObj[g].spec
      BY <1>1, <3>1
    <3> QED BY <1>1, <2>1, <3>1, <3>3, <3>4 DEF SpecsGrow, ListenersOf
  <2> QED BY <1>4, <2>2, <2>3, <2>4 DEF GatewayReads
<1>5. CASE GatewayFinalized(g)
  <2>1. /\ gwObj' = [gwObj EXCEPT ![g] = NoGateway]
        /\ job' = [job EXCEPT ![g] = Idle] /\ UNCHANGED listeners
    BY <1>5 DEF GatewayFinalized, Finish, regVars
  <2>2. \A l \in ListenersOf(g) : listeners[l] = None
    BY <1>5 DEF GatewayFinalized, ListenersOf, RegistryOK, RegistryIsOwned,
       RegistryShape
  <2>3. \A h \in Gateways \ {g} : gwObj'[h] = gwObj[h]
    BY <2>1 DEF ObjType
  <2>4. job'[g].task = "idle"
    BY <1>1, <2>1 DEF Idle
  <2> QED BY <1>1, <2>1, <2>2, <2>3, <2>4 DEF SpecsGrow
<1>6. CASE HandleAddOrUpdateGateway(g)
  <2>1. /\ job' = [job EXCEPT ![g] = Idle] /\ UNCHANGED gwObj
        /\ job[g].task = "update"
        /\ listeners' = [l \in Listeners |->
             IF l \notin ListenersOf(g) \/ (g \in gateways /\ Kept(l, job[g].spec))
               THEN listeners[l] ELSE NewListener(job[g].spec[l])]
    BY <1>6 DEF HandleAddOrUpdateGateway, Finish, objVars
  <2>2. job'[g].task = "idle"
    BY <1>1, <2>1 DEF Idle
  <2>3. \A l \in Listeners : listeners'[l] # None =>
          listeners[l] # None \/ (l \in ListenersOf(g) /\ job[g].spec[l] # None)
    BY <2>1 DEF NewListener
  <2>4. \A l \in Listeners : l \notin ListenersOf(g) => listeners'[l] = listeners[l]
    BY <2>1
  <2>5. \A h \in Gateways \ {g} : \A l \in ListenersOf(h) : listeners'[l] = listeners[l]
    BY <2>4 DEF ListenersOf
  <2>6. \A l \in ListenersOf(g) : listeners'[l] # None => gwObj[g].spec[l] # None
    BY <2>1, <2>3 DEF SpecsGrow, ListenersOf
  <2> QED BY <1>1, <2>1, <2>2, <2>5, <2>6 DEF SpecsGrow
<1>7. CASE HandleDeleteGateway(g)
  <2>1. /\ job' = [job EXCEPT ![g] = [task |-> "finalize"]] /\ UNCHANGED gwObj
        /\ \A l \in Listeners : listeners'[l] # None => listeners[l] # None
    BY <1>7 DEF HandleDeleteGateway, objVars
  <2>2. job'[g].task = "finalize"
    BY <1>1, <2>1
  <2> QED BY <1>1, <2>1, <2>2, SpecsElsewhere
<1> QED BY <1>3, <1>4, <1>5, <1>6, <1>7 DEF GatewayStep

LEMMA SpecsStep ==
  ASSUME "unlisten" \notin Edits, TypeOK, CallShape, RegistryOK, SpecsGrow,
         [Next]_vars
  PROVE  SpecsGrow'
<1>1. CASE UNCHANGED vars \/ SessionCloses
  BY <1>1, SpecsElsewhere DEF vars, SessionCloses, objVars, regVars
<1>2. CASE UserStep
  BY <1>2, SpecsUsers
<1>3. CASE Restart
  BY <1>3, SpecsElsewhere DEF Restart, objVars, NoSpec, Objects, Idle
<1>4. ASSUME NEW r \in Routes, RouteStep(r) \/ SetRoute(r) \/ RemoveRoute(r)
      PROVE  SpecsGrow'
  BY <1>4, RouteFrame, SpecsElsewhere
<1>5. ASSUME NEW g \in Gateways,
             GatewayStep(g) \/ HandleAddOrUpdateGateway(g) \/ HandleDeleteGateway(g)
      PROVE  SpecsGrow'
  BY <1>5, SpecsGateways
<1> QED BY <1>1, <1>2, <1>3, <1>4, <1>5 DEF Next, FaultStep, LockStep

-------------------------------------------------------------------------------
\* The forwardings of the session.
LEMMA ClosedStep ==
  ASSUME TypeOK, ClosedIsEmpty, [Next]_vars
  PROVE  ClosedIsEmpty'
<1>0. SessType
  BY TypeParts
<1>1. CASE UNCHANGED sessVars
  BY <1>1 DEF sessVars, ClosedIsEmpty
<1>2. CASE connected' = TRUE
  BY <1>2 DEF ClosedIsEmpty
<1>3. CASE SessionCloses \/ Restart
  BY <1>3 DEF SessionCloses, Restart, Session!Close, ClosedIsEmpty
<1>4. ASSUME NEW keys, StopAll(keys) PROVE ClosedIsEmpty'
  BY <1>4 DEF StopAll, ClosedIsEmpty, Session!Empty, Session!Keys, Keys
<1>5. ASSUME NEW r \in Routes, RouteStep(r) \/ SetRoute(r) \/ RemoveRoute(r)
      PROVE  UNCHANGED sessVars \/ connected' = TRUE
  BY <1>0, <1>5 DEF RouteStep, SkipRoute, ReconcileRoute, RouteFinalized, CallStep,
     StopRefused, StopFails, Stopped, Connects, ConnectFails, StartRefused,
     StartFails, Started, SetRoute, RemoveRoute, SessType,
     Session!Remove, Session!Open, Session!Enter
<1>6. ASSUME NEW g \in Gateways,
             GatewayStep(g) \/ HandleAddOrUpdateGateway(g) \/ HandleDeleteGateway(g)
      PROVE  \/ UNCHANGED sessVars \/ connected' = TRUE
             \/ \E keys : StopAll(keys)
  BY <1>6 DEF GatewayStep, ReconcileGateway, GatewayReads, GatewayFinalized,
     HandleAddOrUpdateGateway, HandleDeleteGateway, Session!Open
<1>7. CASE UNCHANGED vars \/ UserStep
  BY <1>1, <1>7 DEF vars, UserStep, CreateRoute, ChangeBackend, MoveRoute,
     DeleteRoute, CreateGateway, EditGateway, DeleteGateway, Edit
<1> QED BY <1>1, <1>2, <1>3, <1>4, <1>5, <1>6, <1>7 DEF Next, FaultStep, LockStep

\* Listener l accounts for the forwarding with key k.
Accounts(l, k) ==
  /\ listeners[l] # None /\ Key(l) = k
  /\ listeners[l].route # None
     \/ (call # Free /\ job[call.by].parent = l)

\* A step that adds no forwarding and takes no listener, route or call away.
LEMMA AccountedElsewhere ==
  ASSUME ForwardingIsAccountedFor,
         \A k \in Keys : forwardings'[k] # None => forwardings[k] # None,
         UNCHANGED listeners,
         call # Free => call' # Free /\ UNCHANGED job[call.by].parent
  PROVE  ForwardingIsAccountedFor'
<1> SUFFICES ASSUME NEW k \in Keys, forwardings'[k] # None
             PROVE  \E l \in Listeners : Accounts(l, k)'
  BY DEF ForwardingIsAccountedFor, Accounts, Key
<1>1. PICK l \in Listeners : Accounts(l, k)
  BY DEF ForwardingIsAccountedFor, Accounts
<1>2. Accounts(l, k)'
  BY <1>1 DEF Accounts, Key
<1> QED BY <1>2

\* With the locks free, a forwarding has a listener with a route.
LEMMA FreeAccounts ==
  ASSUME ForwardingIsAccountedFor, call = Free, NEW k \in Keys, forwardings[k] # None
  PROVE  \E l \in Listeners : HasRoute(l) /\ Key(l) = k
BY DEF ForwardingIsAccountedFor, HasRoute

LEMMA AccountedLocks ==
  ASSUME TypeOK, RegistryOK, SpecsGrow, ForwardingIsAccountedFor,
         NEW o \in Objects, LockStep(o)
  PROVE  ForwardingIsAccountedFor'
<1>0. JobType /\ RegType
  BY TypeParts
<1> SUFFICES ASSUME NEW k \in Keys, forwardings'[k] # None
             PROVE  \E l \in Listeners : Accounts(l, k)'
  BY DEF ForwardingIsAccountedFor, Accounts, Key
<1>1. call = Free
  BY DEF LockStep, SetRoute, RemoveRoute, HandleAddOrUpdateGateway, HandleDeleteGateway
<1>2. ASSUME NEW keys, StopAll(keys) PROVE forwardings[k] # None /\ k \notin keys
  BY <1>2 DEF StopAll
<1>3. forwardings[k] # None
  BY <1>2 DEF LockStep, SetRoute, RemoveRoute, HandleAddOrUpdateGateway,
     HandleDeleteGateway, sessVars
<1>4. PICK l \in Listeners : HasRoute(l) /\ Key(l) = k
  BY <1>1, <1>3, FreeAccounts
<1>5. CASE listeners'[l] = listeners[l]
  <2>1. Accounts(l, k)'
    BY <1>4, <1>5 DEF Accounts, HasRoute, Key
  <2> QED BY <2>1
<1>6. CASE o \in Routes /\ RemoveRoute(o)
  BY <1>5, <1>6 DEF RemoveRoute
\* The route of the listener is being set again.
<1>7. CASE o \in Routes /\ SetRoute(o)
  <2>1. CASE UNCHANGED listeners
    BY <1>5, <2>1
  <2> DEFINE p == job[o].parent
  <2>2. CASE Begin(o, "connect") /\ listeners' = [listeners EXCEPT ![p].route = None]
    <3>1. listeners' = [listeners EXCEPT ![p] = [listeners[p] EXCEPT !.route = None]]
      BY <1>0, <2>2 DEF RegType
    <3>2. CASE p # l
      BY <1>0, <1>5, <3>1, <3>2 DEF RegType
    <3>3. CASE p = l
      <4>1. listeners[l] # None /\ listeners[l] \in Listener
        BY <1>0, <1>4, ListenerType DEF HasRoute
      <4>2. /\ listeners'[l] = [listeners[l] EXCEPT !.route = None]
            /\ listeners'[l] \in Listener /\ listeners'[l].cfg = listeners[l].cfg
        BY <1>0, <3>1, <3>3, <4>1, ListenerType DEF RegType, Listener
      <4>3. listeners'[l] # None
        BY <4>2, NoneAssumption
      <4>4. call' # Free /\ call'.by = o /\ job' = job
        BY <2>2 DEF Begin, Free
      <4>5. Accounts(l, k)'
        BY <1>4, <3>3, <4>2, <4>3, <4>4 DEF Accounts, Key
      <4> QED BY <4>5
    <3> QED BY <3>2, <3>3
  <2> QED BY <1>7, <2>1, <2>2 DEF SetRoute
\* A listener is kept, or its forwarding is stopped.
<1>8. CASE o \in Gateways /\ HandleAddOrUpdateGateway(o)
  <2> DEFINE spec == job[o].spec
  <2>1. l \in ListenersOf(o) => spec[l] # None
    BY <1>4, <1>8 DEF HandleAddOrUpdateGateway, HasRoute, SpecsGrow
  <2>2. ~(l \in Routed(o) /\ spec[l] # None /\ ~Kept(l, spec))
    <3>1. k \notin {Key(m) : m \in {n \in Routed(o) : spec[n] # None /\ ~Kept(n, spec)}}
      BY <1>2, <1>8 DEF HandleAddOrUpdateGateway
    <3> QED BY <1>4, <3>1
  <2>3. l \notin ListenersOf(o) \/ (o \in gateways /\ Kept(l, spec))
    BY <1>4, <2>1, <2>2 DEF Routed, HasRoute, ListenersOf, RegistryOK, RegistryIsOwned
  <2> QED BY <1>5, <1>8, <2>3 DEF HandleAddOrUpdateGateway
<1>9. CASE o \in Gateways /\ HandleDeleteGateway(o)
  <2>1. k \notin {Key(m) : m \in Routed(o)}
    BY <1>2, <1>9 DEF HandleDeleteGateway
  <2>2. l \notin ListenersOf(o)
    BY <1>4, <2>1 DEF Routed, HasRoute
  <2> QED BY <1>5, <1>9, <2>2 DEF HandleDeleteGateway
<1> QED BY <1>6, <1>7, <1>8, <1>9 DEF LockStep

LEMMA AccountedCalls ==
  ASSUME TypeOK, CallShape, ClosedIsEmpty, ForwardingIsAccountedFor,
         NEW r \in Routes, NEW l \in Listeners, CallStep(r, l)
  PROVE  ForwardingIsAccountedFor'
<1>0. JobType /\ RegType /\ SessType
  BY TypeParts
<1>1. /\ call # Free /\ call.by = r /\ l = job[r].parent
      /\ StopRefused(r, l) \/ StopFails(r, l) => call.step = "stop"
  BY DEF CallStep, StopRefused, StopFails, Stopped, Connects, ConnectFails,
     StartRefused, StartFails, Started, Holding, Free
<1>2. listeners[l] # None /\ job[r].task \in {"set", "remove"}
  BY <1>1 DEF CallShape
\* Only the listener of the call may be without a route.
<1>3. ASSUME NEW k \in Keys, forwardings[k] # None
      PROVE  k = Key(l) \/ \E m \in Listeners : HasRoute(m) /\ Key(m) = k
  BY <1>1, <1>3 DEF ForwardingIsAccountedFor, HasRoute
<1> SUFFICES ASSUME NEW k \in Keys, forwardings'[k] # None
             PROVE  \E m \in Listeners : Accounts(m, k)'
  BY DEF ForwardingIsAccountedFor, Accounts, Key
<1>4. ASSUME NEW m \in Listeners, HasRoute(m), Key(m) = k, listeners'[m] = listeners[m]
      PROVE  \E n \in Listeners : Accounts(n, k)'
  <2>1. Accounts(m, k)'
    BY <1>4 DEF Accounts, HasRoute, Key
  <2> QED BY <2>1
<1>5. CASE StopRefused(r, l) \/ StopFails(r, l)
  <2>1. HasRoute(l) /\ UNCHANGED listeners
    BY <1>1, <1>2, <1>5 DEF CallShape, HasRoute, StopRefused, StopFails, CallFails
  <2>2. forwardings[k] # None
    BY <1>0, <1>5 DEF StopRefused, StopFails, sessVars, Session!Remove, SessType
  <2> QED BY <1>3, <1>4, <2>1, <2>2
<1>6. CASE ConnectFails(r, l) \/ StartRefused(r, l) \/ StartFails(r, l)
  <2>1. UNCHANGED listeners /\ UNCHANGED forwardings
    BY <1>6 DEF ConnectFails, StartRefused, StartFails, CallFails, sessVars
  <2>2. k # Key(l)
    BY <1>6, <2>1 DEF ConnectFails, StartRefused, StartFails, ClosedIsEmpty,
       Session!Empty, Session!Keys, Keys
  <2> QED BY <1>3, <1>4, <2>1, <2>2
<1>7. CASE Stopped(r, l) \/ Connects(r, l)
  <2>1. CASE (Begin(r, "connect") \/ Begin(r, "start")) /\ UNCHANGED listeners
    <3>1. UNCHANGED <<job, listeners>> /\ call' # Free /\ call'.by = r
      BY <2>1 DEF Begin, Free
    <3>2. \A q \in Keys : forwardings'[q] # None => forwardings[q] # None
      BY <1>0, <1>7 DEF Stopped, Connects, Session!Remove, Session!Open, sessVars,
         SessType
    <3>3. ForwardingIsAccountedFor'
      BY <1>1, <3>1, <3>2, AccountedElsewhere
    <3> QED BY <3>3 DEF ForwardingIsAccountedFor, Accounts, Key
  \* RemoveRoute: the forwarding went with the route.
  <2>2. CASE Stopped(r, l) /\ listeners' = [listeners EXCEPT ![l].route = None]
    <3>1. k # Key(l) /\ forwardings[k] # None
      BY <1>0, <2>2 DEF Stopped, Session!Remove, SessType
    <3>2. \A m \in Listeners \ {l} : listeners'[m] = listeners[m]
      BY <1>0, <2>2 DEF RegType
    <3> QED BY <1>3, <1>4, <3>1, <3>2
  <2> QED BY <1>7, <2>1, <2>2 DEF Stopped, Connects
\* SetRoute: the route comes with the forwarding.
<1>8. CASE Started(r, l)
  <2>1. listeners' = [listeners EXCEPT ![l] = [listeners[l] EXCEPT !.route = Wanted(r)]]
    BY <1>0, <1>8 DEF Started, RegType
  <2>2. job[r].backend \in Backends
    BY <1>0, <1>2, RouteJobFields
  <2>3. Wanted(r) \in Route /\ Wanted(r) # None
    BY <2>2, NoneAssumption DEF Wanted, Route
  <2>4. /\ listeners'[l] \in Listener /\ listeners'[l].cfg = listeners[l].cfg
        /\ listeners'[l].route = Wanted(r)
    BY <1>0, <1>2, <2>1, <2>3, ListenerType DEF RegType, Listener
  <2>5. listeners'[l] # None
    BY <2>4, NoneAssumption
  <2>6. CASE k = Key(l)
    <3>1. Accounts(l, k)'
      BY <2>3, <2>4, <2>5, <2>6 DEF Accounts, Key
    <3> QED BY <3>1
  <2>7. CASE k # Key(l)
    <3>1. KeyOf(Fwd(listeners[l].cfg, job[r].backend)) = Key(l)
      BY DEF KeyOf, Fwd, Key
    <3>2. forwardings[k] # None
      BY <1>0, <1>8, <2>7, <3>1 DEF Started, Session!Enter, SessType, sessVars
    <3>3. \A m \in Listeners \ {l} : listeners'[m] = listeners[m]
      BY <1>0, <2>1 DEF RegType
    <3> QED BY <1>3, <1>4, <2>7, <3>2, <3>3
  <2> QED BY <2>6, <2>7
<1> QED BY <1>5, <1>6, <1>7, <1>8 DEF CallStep

LEMMA AccountedStep ==
  ASSUME TypeOK, CallShape, RegistryOK, SpecsGrow, ClosedIsEmpty,
         ForwardingIsAccountedFor, [Next]_vars
  PROVE  ForwardingIsAccountedFor'
<1>0. JobType /\ RegType /\ SessType
  BY TypeParts
<1>1. CASE UNCHANGED vars \/ UserStep
  <2>1. UNCHANGED <<job, listeners, call, forwardings>>
    BY <1>1 DEF vars, UserStep, CreateRoute, ChangeBackend, MoveRoute, DeleteRoute,
       CreateGateway, EditGateway, DeleteGateway, Edit, regVars, sessVars
  <2> QED BY <2>1, AccountedElsewhere
<1>2. CASE SessionCloses \/ Restart
  <2>1. forwardings' = Session!Empty
    BY <1>2 DEF SessionCloses, Restart, Session!Close
  <2> QED BY <2>1 DEF Session!Empty, Session!Keys, Keys, ForwardingIsAccountedFor
\* A step of another route than the one the call works for, or of a Gateway.
<1>3. ASSUME NEW o \in Objects, NEW j, job' = [job EXCEPT ![o] = j],
             o \in Gateways \/ job[o].task \notin {"set", "remove"},
             UNCHANGED <<listeners, call, forwardings>>
      PROVE  ForwardingIsAccountedFor'
  <2>1. call # Free => call.by \in Routes /\ call.by # o
    BY <1>0, <1>3, ObjectsAssumption DEF RegType, CallShape
  <2>2. call # Free => job'[call.by] = job[call.by]
    BY <1>0, <1>3, <2>1 DEF JobType, Objects
  <2> QED BY <1>3, <2>2, AccountedElsewhere
<1>4. ASSUME NEW r \in Routes, SkipRoute(r) \/ ReconcileRoute(r) \/ RouteFinalized(r)
      PROVE  ForwardingIsAccountedFor'
  <2>1. UNCHANGED <<listeners, call, forwardings>>
    BY <1>4 DEF SkipRoute, ReconcileRoute, RouteFinalized, regVars, sessVars
  <2>2. CASE SkipRoute(r)
    BY <2>1, <2>2, AccountedElsewhere DEF SkipRoute
  <2>3. CASE ReconcileRoute(r) \/ RouteFinalized(r)
    <3>1. PICK j : job' = [job EXCEPT ![r] = j]
      BY <2>3 DEF ReconcileRoute, RouteFinalized, Finish
    <3>2. job[r].task \notin {"set", "remove"}
      BY <2>3 DEF ReconcileRoute, RouteFinalized, Idle
    <3> QED BY <1>3, <2>1, <3>1, <3>2 DEF Objects
  <2> QED BY <1>4, <2>2, <2>3
<1>5. ASSUME NEW g \in Gateways, GatewayStep(g) PROVE ForwardingIsAccountedFor'
  <2>1. UNCHANGED <<listeners, call, forwardings>>
    BY <1>5 DEF GatewayStep, ReconcileGateway, GatewayReads, GatewayFinalized,
       regVars, sessVars, Session!Open
  <2>2. PICK j : job' = [job EXCEPT ![g] = j]
    BY <1>5 DEF GatewayStep, ReconcileGateway, GatewayReads, GatewayFinalized, Finish
  <2> QED BY <1>3, <2>1, <2>2 DEF Objects
<1>6. ASSUME NEW r \in Routes, NEW l \in Listeners, CallStep(r, l)
      PROVE  ForwardingIsAccountedFor'
  BY <1>6, AccountedCalls
<1>7. ASSUME NEW o \in Objects, LockStep(o) PROVE ForwardingIsAccountedFor'
  BY <1>7, AccountedLocks
<1> QED BY <1>1, <1>2, <1>4, <1>5, <1>6, <1>7 DEF Next, FaultStep, RouteStep

(***************************************************************************)
(* While no listener is dropped from its Gateway, no forwarding is left    *)
(* running that no listener accounts for, through every failure of         *)
(* StopForwarding, Connect and StartForwarding in the middle of SetRoute   *)
(* and RemoveRoute, and through the loss of the session.                   *)
(***************************************************************************)
THEOREM ForwardingsStayAccountedFor ==
  ASSUME "unlisten" \notin Edits
  PROVE  Spec => []ForwardingIsAccountedFor
<1> DEFINE Inv == RegistryOK /\ SpecsGrow /\ ClosedIsEmpty /\ ForwardingIsAccountedFor
<1>1. Init => Inv
  <2> SUFFICES ASSUME Init PROVE Inv
    OBVIOUS
  <2>1. RegistryOK
    BY DEF Init, NoSpec, Idle, Objects, RegistryOK, RegistryIsOwned, RegistryShape
  <2>2. SpecsGrow
    BY DEF Init, NoSpec, Idle, Objects, SpecsGrow, ListenersOf
  <2>3. ClosedIsEmpty /\ ForwardingIsAccountedFor
    BY DEF Init, Session!Init, Session!Empty, Session!Keys, Keys, ClosedIsEmpty,
       ForwardingIsAccountedFor
  <2> QED BY <2>1, <2>2, <2>3
<1>2. TypeOK /\ CallShape /\ Inv /\ [Next]_vars => Inv'
  BY RegistryStep, SpecsStep, ClosedStep, AccountedStep
<1>3. Inv => ForwardingIsAccountedFor
  OBVIOUS
<1> HIDE DEF Inv
<1> QED BY <1>1, <1>2, <1>3, RouteTypes, PTL DEF Spec
-------------------------------------------------------------------------------
\* Where the forwardings go.

\* A step that adds no forwarding and gives no listener a route.
Sheds ==
  /\ \A k \in Keys : forwardings'[k] \in {forwardings[k], None}
  /\ \A l \in Listeners : HasRoute(l)' => HasRoute(l) /\ UNCHANGED listeners[l]

LEMMA RoutedKey ==
  ASSUME RegType, NEW l \in Listeners, HasRoute(l)
  PROVE  Key(l) \in Keys
<1>1. listeners[l].route.backend \in Backends
  BY ListenerType DEF HasRoute, Listener, Route
<1> QED BY <1>1, KeyType DEF HasRoute

\* A step that takes the route of one listener.
LEMMA DetachSheds ==
  ASSUME RegType, NEW l \in Listeners, listeners[l] # None,
         listeners' = [listeners EXCEPT ![l].route = None]
  PROVE  \A m \in Listeners : HasRoute(m)' => HasRoute(m) /\ UNCHANGED listeners[m]
<1>1. \A m \in Listeners \ {l} : listeners'[m] = listeners[m]
  BY DEF RegType
<1> QED BY <1>1, Detached

LEMMA LocksShed ==
  ASSUME TypeOK, NEW o \in Objects, LockStep(o)
  PROVE  Sheds
<1>0. JobType /\ RegType /\ SessType
  BY TypeParts
<1>1. \A k \in Keys : forwardings'[k] \in {forwardings[k], None}
  BY DEF LockStep, SetRoute, RemoveRoute, HandleAddOrUpdateGateway,
     HandleDeleteGateway, StopAll, sessVars
<1>2. \A l \in Listeners : HasRoute(l)' => HasRoute(l) /\ UNCHANGED listeners[l]
  <2>1. CASE UNCHANGED listeners
    BY <2>1 DEF HasRoute
  <2>2. CASE o \in Routes /\ SetRoute(o) /\ Found(job[o].parent)
             /\ listeners' = [listeners EXCEPT ![job[o].parent].route = None]
    <3>1. job[o].parent \in Listeners
      BY <1>0, <2>2, RouteJobFields DEF SetRoute
    <3> QED BY <1>0, <2>2, <3>1, DetachSheds DEF Found
  <2>3. CASE HandleAddOrUpdateGateway(o)
    <3>1. \A l \in Listeners :
            listeners'[l] = listeners[l] \/ listeners'[l] = NewListener(job[o].spec[l])
      BY <2>3 DEF HandleAddOrUpdateGateway
    <3>2. \A cfg : NewListener(cfg) = None \/ NewListener(cfg).route = None
      BY DEF NewListener
    <3> QED BY <3>1, <3>2 DEF HasRoute
  <2>4. CASE HandleDeleteGateway(o)
    BY <2>4 DEF HandleDeleteGateway, HasRoute
  <2> QED BY <2>1, <2>2, <2>3, <2>4 DEF LockStep, SetRoute, RemoveRoute
<1> QED BY <1>1, <1>2 DEF Sheds

LEMMA CallsShed ==
  ASSUME TypeOK, CallShape, NEW r \in Routes, NEW l \in Listeners, CallStep(r, l)
  PROVE  Started(r, l) \/ Sheds
<1>0. JobType /\ RegType /\ SessType
  BY TypeParts
<1> SUFFICES ASSUME ~Started(r, l) PROVE Sheds
  OBVIOUS
<1>1. \A k \in Keys : forwardings'[k] \in {forwardings[k], None}
  BY <1>0 DEF CallStep, StopRefused, StopFails, Stopped, Connects, ConnectFails,
     StartRefused, StartFails, Session!Remove, Session!Open, SessType, sessVars
<1>2. \A m \in Listeners : HasRoute(m)' => HasRoute(m) /\ UNCHANGED listeners[m]
  <2>1. CASE UNCHANGED listeners
    BY <2>1 DEF HasRoute
  <2>2. CASE Stopped(r, l) /\ listeners' = [listeners EXCEPT ![l].route = None]
    <3>1. listeners[l] # None
      BY <2>2 DEF Stopped, Holding, Free, CallShape
    <3> QED BY <1>0, <2>2, <3>1, DetachSheds
  <2> QED BY <2>1, <2>2 DEF CallStep, StopRefused, StopFails, Stopped, Connects,
        ConnectFails, StartRefused, StartFails, CallFails
<1> QED BY <1>1, <1>2 DEF Sheds

\* Forwardings and routes of listeners are added in one place only.
LEMMA OnlyStartedAdds ==
  ASSUME TypeOK, CallShape, [Next]_vars
  PROVE  Sheds \/ \E r \in Routes, l \in Listeners : Started(r, l)
<1>0. RegType
  BY TypeParts
<1>1. ASSUME UNCHANGED <<listeners, forwardings>> PROVE Sheds
  BY <1>1 DEF Sheds, HasRoute
<1>2. CASE SessionCloses \/ Restart
  BY <1>2 DEF SessionCloses, Restart, Session!Close, Session!Empty, Session!Keys,
     Keys, regVars, NoSpec, Sheds, HasRoute
<1>3. CASE UNCHANGED vars \/ UserStep
  BY <1>1, <1>3 DEF vars, UserStep, CreateRoute, ChangeBackend, MoveRoute,
     DeleteRoute, CreateGateway, EditGateway, DeleteGateway, Edit, regVars, sessVars
<1>4. ASSUME NEW r \in Routes, SkipRoute(r) \/ ReconcileRoute(r) \/ RouteFinalized(r)
      PROVE  Sheds
  BY <1>1, <1>4 DEF SkipRoute, ReconcileRoute, RouteFinalized, regVars, sessVars
<1>5. ASSUME NEW g \in Gateways, GatewayStep(g) PROVE Sheds
  BY <1>1, <1>5 DEF GatewayStep, ReconcileGateway, GatewayReads, GatewayFinalized,
     regVars, sessVars, Session!Open
<1> QED BY <1>2, <1>3, <1>4, <1>5, LocksShed, CallsShed DEF Next, FaultStep, RouteStep

LEMMA ShedsForwards ==
  ASSUME RegType, RegType', ForwardsToItsRoute, Sheds
  PROVE  ForwardsToItsRoute'
<1> SUFFICES ASSUME NEW l \in Listeners, HasRoute(l)', forwardings'[Key(l)'] # None
             PROVE  forwardings'[Key(l)'].backend = listeners'[l].route.backend
  BY DEF ForwardsToItsRoute, HasRoute
<1>1. HasRoute(l) /\ Key(l)' = Key(l) /\ UNCHANGED listeners[l]
  BY DEF Sheds, Key
<1>2. forwardings'[Key(l)] = forwardings[Key(l)]
  BY <1>1, RoutedKey DEF Sheds
<1> QED BY <1>1, <1>2 DEF ForwardsToItsRoute, HasRoute

\* What StartForwarding leaves in the table, whether it entered it or found it.
LEMMA StartedEffect ==
  ASSUME TypeOK, CallShape, AdoptsItsOwn, NEW r \in Routes, NEW l \in Listeners,
         Started(r, l)
  PROVE  /\ call.by = r /\ call.step = "start" /\ job[r].parent = l
         /\ job[r].task = "set" /\ job[r].backend \in Backends
         /\ listeners[l] # None /\ Key(l) \in Keys
         /\ listeners[l].route = None \/ forwardings[Key(l)] = None
         /\ forwardings'[Key(l)].backend = job[r].backend
         /\ forwardings'[Key(l)] # None
         /\ \A k \in Keys \ {Key(l)} : forwardings'[k] = forwardings[k]
         /\ HasRoute(l)' /\ listeners'[l].route = Wanted(r) /\ Key(l)' = Key(l)
         /\ \A m \in Listeners \ {l} : listeners'[m] = listeners[m]
<1>0. JobType /\ RegType /\ SessType
  BY TypeParts
<1>1. /\ call # Free /\ call.by = r /\ call.step = "start" /\ job[r].parent = l
      /\ listeners[l] # None /\ job[r].task = "set"
  BY DEF Started, Holding, Free, CallShape
<1>2. job[r].backend \in Backends
  BY <1>0, <1>1, RouteJobFields
<1>3. /\ Fwd(listeners[l].cfg, job[r].backend) \in Requests /\ Key(l) \in Keys
      /\ KeyOf(Fwd(listeners[l].cfg, job[r].backend)) = Key(l)
  BY <1>0, <1>1, <1>2, KeyType
<1>4. forwardings[Key(l)] # None =>
        listeners[l].route = None /\ forwardings[Key(l)].backend = job[r].backend
  BY <1>1 DEF AdoptsItsOwn
<1>5. /\ forwardings'[Key(l)].backend = job[r].backend
      /\ forwardings'[Key(l)] # None
      /\ \A k \in Keys \ {Key(l)} : forwardings'[k] = forwardings[k]
  <2>1. ASSUME NEW uris \in SUBSET URIs,
               Session!Enter(Fwd(listeners[l].cfg, job[r].backend), uris)
        PROVE  forwardings' = [forwardings EXCEPT
                                 ![Key(l)] = Fwd(listeners[l].cfg, job[r].backend)]
    BY <1>3, <2>1 DEF Session!Enter
  <2>2. CASE forwardings' = [forwardings EXCEPT
                               ![Key(l)] = Fwd(listeners[l].cfg, job[r].backend)]
    <3>1. forwardings'[Key(l)] = Fwd(listeners[l].cfg, job[r].backend)
      BY <1>0, <1>3, <2>2 DEF SessType
    <3>2. Fwd(listeners[l].cfg, job[r].backend).backend = job[r].backend
      BY DEF Fwd
    <3>3. Fwd(listeners[l].cfg, job[r].backend) # None
      BY <1>3, NoneAssumption
    <3> QED BY <1>0, <2>2, <3>1, <3>2, <3>3 DEF SessType
  <2>3. CASE forwardings[Key(l)] # None /\ UNCHANGED sessVars
    BY <1>4, <2>3 DEF sessVars
  <2> QED BY <2>1, <2>2, <2>3 DEF Started
<1>6. listeners' = [listeners EXCEPT ![l] = [listeners[l] EXCEPT !.route = Wanted(r)]]
  BY <1>0 DEF Started, RegType
<1>7. Wanted(r) \in Route /\ Wanted(r) # None
  BY <1>2, NoneAssumption DEF Wanted, Route
<1>8. /\ listeners'[l] \in Listener /\ listeners'[l].route = Wanted(r)
      /\ listeners'[l].cfg = listeners[l].cfg
  BY <1>0, <1>1, <1>6, <1>7, ListenerType DEF RegType, Listener
<1>9. HasRoute(l)' /\ Key(l)' = Key(l)
  BY <1>7, <1>8, NoneAssumption DEF HasRoute, Key
<1>10. \A m \in Listeners \ {l} : listeners'[m] = listeners[m]
  BY <1>0, <1>6 DEF RegType
<1>11. listeners[l].route = None \/ forwardings[Key(l)] = None
  BY <1>4
<1> QED BY <1>1, <1>2, <1>3, <1>5, <1>8, <1>9, <1>10, <1>11

LEMMA StartedForwards ==
  ASSUME TypeOK, CallShape, DistinctKeys, ForwardsToItsRoute, AdoptsItsOwn,
         NEW r \in Routes, NEW l \in Listeners, Started(r, l)
  PROVE  ForwardsToItsRoute'
<1>0. RegType
  BY TypeParts
<1> SUFFICES ASSUME NEW m \in Listeners, HasRoute(m)', forwardings'[Key(m)'] # None
             PROVE  forwardings'[Key(m)'].backend = listeners'[m].route.backend
  BY DEF ForwardsToItsRoute, HasRoute
<1>1. CASE m = l
  <2>1. /\ forwardings'[Key(l)].backend = job[r].backend /\ Key(l)' = Key(l)
        /\ listeners'[l].route = Wanted(r)
    BY StartedEffect
  <2> QED BY <1>1, <2>1 DEF Wanted, Key
\* No other listener has that key.
<1>2. CASE m # l
  <2>1. UNCHANGED listeners[m] /\ listeners[l] # None
    BY <1>2, StartedEffect
  <2>2. HasRoute(m) /\ Key(m)' = Key(m)
    BY <2>1 DEF HasRoute, Key
  <2>3. Key(m) # Key(l) /\ Key(m) \in Keys
    BY <1>0, <1>2, <2>1, <2>2, RoutedKey DEF DistinctKeys, HasRoute
  <2>4. forwardings'[Key(m)] = forwardings[Key(m)]
    BY <2>3, StartedEffect
  <2> QED BY <2>1, <2>2, <2>4 DEF ForwardsToItsRoute, HasRoute
<1> QED BY <1>1, <1>2

-------------------------------------------------------------------------------
\* What a call may adopt.

\* A step that leaves the call where it is, with its job.
LEMMA AdoptsElsewhere ==
  ASSUME TypeOK, CallShape, AdoptsItsOwn, UNCHANGED listeners,
         \A k \in Keys : forwardings'[k] \in {forwardings[k], None},
         call' # Free => call # Free /\ call'.by = call.by /\ job'[call.by] = job[call.by]
                         /\ (call'.step # "stop" => call.step # "stop")
  PROVE  AdoptsItsOwn'
<1>0. JobType /\ RegType
  BY TypeParts
<1> SUFFICES ASSUME call' # Free, call'.step # "stop"
             PROVE  LET l == job'[call'.by].parent
                        k == KeyOf(listeners'[l].cfg)
                    IN  forwardings'[k] # None =>
                          /\ listeners'[l].route = None
                          /\ forwardings'[k].backend = job'[call'.by].backend
  BY DEF AdoptsItsOwn, Key
<1> DEFINE r == call.by
           l == job[r].parent
<1>1. /\ r \in Routes /\ job[r].task \in {"set", "remove"} /\ listeners[l] # None
      /\ job'[call'.by] = job[r] /\ call # Free /\ call.step # "stop"
  BY <1>0 DEF CallShape, RegType
<1>2. l \in Listeners /\ job[r].backend \in Backends
  BY <1>0, <1>1, RouteJobFields
<1>3. Key(l) \in Keys
  BY <1>0, <1>1, <1>2, KeyType
<1>4. forwardings'[Key(l)] # None =>
        forwardings'[Key(l)] = forwardings[Key(l)] /\ forwardings[Key(l)] # None
  BY <1>3
<1>5. forwardings[Key(l)] # None =>
        listeners[l].route = None /\ forwardings[Key(l)].backend = job[r].backend
  BY <1>1 DEF AdoptsItsOwn
<1> QED BY <1>1, <1>4, <1>5 DEF Key

LEMMA AdoptsLocks ==
  ASSUME TypeOK, RegistryOK, DistinctKeys, ForwardingIsAccountedFor,
         ForwardsToItsRoute, NEW o \in Objects, LockStep(o)
  PROVE  AdoptsItsOwn'
<1>0. JobType /\ RegType
  BY TypeParts
<1>1. call = Free
  BY DEF LockStep, SetRoute, RemoveRoute, HandleAddOrUpdateGateway, HandleDeleteGateway
<1>2. CASE call' = Free \/ call'.step = "stop"
  BY <1>2 DEF AdoptsItsOwn
<1>3. CASE o \in Routes /\ SetRoute(o) /\ Begin(o, "connect")
  <2> DEFINE l == job[o].parent
  <2>0. l \in Listeners /\ job[o].backend \in Backends
    BY <1>0, <1>3, RouteJobFields DEF SetRoute
  <2>1. Found(l) /\ listeners[l] # None /\ Key(l) \in Keys
    BY <1>0, <1>1, <1>3, <2>0, KeyType DEF SetRoute, Begin, Free, Found
  <2>2. UNCHANGED <<job, forwardings>> /\ call'.by = o
    BY <1>3 DEF SetRoute, Begin, sessVars
  <2>3. ASSUME listeners' = [listeners EXCEPT ![l].route = None]
        PROVE  listeners'[l].cfg = listeners[l].cfg /\ listeners'[l].route = None
    <3>1. listeners' = [listeners EXCEPT ![l] = [listeners[l] EXCEPT !.route = None]]
      BY <1>0, <2>3 DEF RegType
    <3> QED BY <1>0, <2>0, <2>1, <3>1, ListenerType DEF RegType, Listener
  <2>4. KeyOf(listeners'[l].cfg) = Key(l)
    BY <1>3, <2>3 DEF SetRoute, Begin, Key
  <2>5. ASSUME forwardings[Key(l)] # None
        PROVE  /\ listeners'[l].route = None
               /\ forwardings[Key(l)].backend = job[o].backend
    \* The listener of the forwarding is this one, so it has a route.
    <3>1. HasRoute(l)
      <4>1. PICK m \in Listeners : HasRoute(m) /\ Key(m) = Key(l)
        BY <1>1, <2>1, <2>5, FreeAccounts
      <4>2. m = l
        BY <2>0, <2>1, <4>1 DEF DistinctKeys, HasRoute
      <4> QED BY <4>1, <4>2
    <3>2. Attached(o, l) /\ listeners' = [listeners EXCEPT ![l].route = None]
      BY <1>1, <1>3, <3>1 DEF SetRoute, Begin, FirstStep, HasRoute, Free
    <3>3. forwardings[Key(l)].backend = listeners[l].route.backend
      BY <2>0, <2>5, <3>1 DEF ForwardsToItsRoute, HasRoute
    <3> QED BY <2>3, <3>2, <3>3 DEF Attached, Wanted
  <2> QED BY <2>2, <2>4, <2>5 DEF AdoptsItsOwn, Key
<1> QED BY <1>1, <1>2, <1>3 DEF LockStep, SetRoute, RemoveRoute, Begin, FirstStep,
      NotHere, HandleAddOrUpdateGateway, HandleDeleteGateway

LEMMA AdoptsCalls ==
  ASSUME TypeOK, CallShape, AdoptsItsOwn, NEW r \in Routes, NEW l \in Listeners,
         CallStep(r, l)
  PROVE  AdoptsItsOwn'
<1>0. JobType /\ RegType /\ SessType
  BY TypeParts
<1>1. CASE call' = Free
  BY <1>1 DEF AdoptsItsOwn
\* The forwarding has just been stopped.
<1>2. CASE Stopped(r, l) /\ Begin(r, "connect") /\ UNCHANGED listeners
  <2>1. listeners[l] # None /\ job[r].task \in {"set", "remove"} /\ l = job[r].parent
    BY <1>2 DEF Stopped, Holding, Free, CallShape
  <2>2. Key(l) \in Keys
    BY <1>0, <2>1, KeyType, RouteJobFields
  <2>3. /\ forwardings'[Key(l)] = None /\ call'.by = r /\ job'[r].parent = l
        /\ UNCHANGED listeners
    BY <1>0, <1>2, <2>1, <2>2 DEF Stopped, Begin, Session!Remove, SessType
  <2> QED BY <2>3 DEF AdoptsItsOwn, Key
<1>3. CASE Connects(r, l)
  <2>1. /\ call # Free /\ call.by = r /\ call.step # "stop"
        /\ call'.by = r /\ UNCHANGED <<job, listeners, forwardings>>
    BY <1>3 DEF Connects, Holding, Begin, Free, Session!Open, sessVars
  <2> QED BY <2>1, AdoptsElsewhere
<1> QED BY <1>1, <1>2, <1>3 DEF CallStep, StopRefused, StopFails, Stopped, Connects,
      ConnectFails, StartRefused, StartFails, Started, CallFails

LEMMA AdoptsStep ==
  ASSUME TypeOK, CallShape, RegistryOK, DistinctKeys, ForwardingIsAccountedFor,
         ForwardsToItsRoute, AdoptsItsOwn, [Next]_vars
  PROVE  AdoptsItsOwn'
<1>0. JobType /\ RegType
  BY TypeParts
<1>1. CASE UNCHANGED vars \/ UserStep
  <2>1. UNCHANGED <<job, listeners, call, forwardings>>
    BY <1>1 DEF vars, UserStep, CreateRoute, ChangeBackend, MoveRoute, DeleteRoute,
       CreateGateway, EditGateway, DeleteGateway, Edit, regVars, sessVars
  <2> QED BY <2>1, AdoptsElsewhere
<1>2. CASE SessionCloses
  <2>1. UNCHANGED <<job, listeners, call>>
    BY <1>2 DEF SessionCloses, regVars
  <2>2. \A k \in Keys : forwardings'[k] = None
    BY <1>2 DEF SessionCloses, Session!Close, Session!Empty, Session!Keys, Keys
  <2> QED BY <2>1, <2>2, AdoptsElsewhere
<1>3. CASE Restart
  BY <1>3 DEF Restart, AdoptsItsOwn
\* A step of another route than the one the call works for, or of a Gateway.
<1>4. ASSUME NEW o \in Objects, NEW j, job' = [job EXCEPT ![o] = j],
             o \in Gateways \/ job[o].task \notin {"set", "remove"},
             UNCHANGED <<listeners, call, forwardings>>
      PROVE  AdoptsItsOwn'
  <2>1. call # Free => call.by \in Routes /\ call.by # o
    BY <1>0, <1>4, ObjectsAssumption DEF RegType, CallShape
  <2>2. call # Free => job'[call.by] = job[call.by]
    BY <1>0, <1>4, <2>1 DEF JobType, Objects
  <2> QED BY <1>4, <2>2, AdoptsElsewhere
<1>5. ASSUME NEW r \in Routes, SkipRoute(r) \/ ReconcileRoute(r) \/ RouteFinalized(r)
      PROVE  AdoptsItsOwn'
  <2>1. UNCHANGED <<listeners, call, forwardings>>
    BY <1>5 DEF SkipRoute, ReconcileRoute, RouteFinalized, regVars, sessVars
  <2>2. CASE SkipRoute(r)
    BY <2>1, <2>2, AdoptsElsewhere DEF SkipRoute
  <2>3. CASE ReconcileRoute(r) \/ RouteFinalized(r)
    <3>1. PICK j : job' = [job EXCEPT ![r] = j]
      BY <2>3 DEF ReconcileRoute, RouteFinalized, Finish
    <3>2. job[r].task \notin {"set", "remove"}
      BY <2>3 DEF ReconcileRoute, RouteFinalized, Idle
    <3> QED BY <1>4, <2>1, <3>1, <3>2 DEF Objects
  <2> QED BY <1>5, <2>2, <2>3
<1>6. ASSUME NEW g \in Gateways, GatewayStep(g) PROVE AdoptsItsOwn'
  <2>1. UNCHANGED <<listeners, call, forwardings>>
    BY <1>6 DEF GatewayStep, ReconcileGateway, GatewayReads, GatewayFinalized,
       regVars, sessVars, Session!Open
  <2>2. PICK j : job' = [job EXCEPT ![g] = j]
    BY <1>6 DEF GatewayStep, ReconcileGateway, GatewayReads, GatewayFinalized, Finish
  <2> QED BY <1>4, <2>1, <2>2 DEF Objects
<1>7. ASSUME NEW r \in Routes, NEW l \in Listeners, CallStep(r, l) PROVE AdoptsItsOwn'
  BY <1>7, AdoptsCalls
<1>8. ASSUME NEW o \in Objects, LockStep(o) PROVE AdoptsItsOwn'
  BY <1>8, AdoptsLocks
<1> QED BY <1>1, <1>2, <1>3, <1>5, <1>6, <1>7, <1>8 DEF Next, FaultStep, RouteStep

LEMMA ForwardsInit == Init => ForwardsToItsRoute /\ AdoptsItsOwn
BY DEF Init, NoSpec, ForwardsToItsRoute, AdoptsItsOwn

\* All that is known of the listeners and their forwardings.
ForwardingsOK ==
  /\ RegistryOK /\ SpecsGrow /\ ClosedIsEmpty /\ ForwardingIsAccountedFor
  /\ ForwardsToItsRoute /\ AdoptsItsOwn

LEMMA ForwardingsHold ==
  ASSUME "unlisten" \notin Edits
  PROVE  Spec /\ []DistinctKeys => []ForwardingsOK
<1>1. Init => ForwardingsOK
  <2>1. Init => RegistryOK
    BY DEF Init, NoSpec, Idle, Objects, RegistryOK, RegistryIsOwned, RegistryShape
  <2>2. Init => SpecsGrow
    BY DEF Init, NoSpec, Idle, Objects, SpecsGrow, ListenersOf
  <2>3. Init => ClosedIsEmpty /\ ForwardingIsAccountedFor
    BY DEF Init, Session!Init, Session!Empty, Session!Keys, Keys, ClosedIsEmpty,
       ForwardingIsAccountedFor
  <2> QED BY <2>1, <2>2, <2>3, ForwardsInit DEF ForwardingsOK
<1>2. ASSUME TypeOK, TypeOK', CallShape, DistinctKeys, ForwardingsOK, [Next]_vars
      PROVE  ForwardingsOK'
  <2>1. RegistryOK' /\ SpecsGrow' /\ ClosedIsEmpty' /\ ForwardingIsAccountedFor'
    BY <1>2, RegistryStep, SpecsStep, ClosedStep, AccountedStep DEF ForwardingsOK
  <2>2. ForwardsToItsRoute'
    <3>1. RegType /\ RegType'
      BY <1>2, TypeParts, TypePartsNext
    <3>2. CASE Sheds
      BY <1>2, <3>1, <3>2, ShedsForwards DEF ForwardingsOK
    <3>3. ASSUME NEW r \in Routes, NEW l \in Listeners, Started(r, l)
          PROVE  ForwardsToItsRoute'
      BY <1>2, <3>3, StartedForwards DEF ForwardingsOK
    <3> QED BY <1>2, <3>2, <3>3, OnlyStartedAdds
  <2>3. AdoptsItsOwn'
    BY <1>2, AdoptsStep DEF ForwardingsOK
  <2> QED BY <2>1, <2>2, <2>3 DEF ForwardingsOK
<1> QED BY <1>1, <1>2, RouteTypes, PTL DEF Spec

(***************************************************************************)
(* As long as no two registered listeners have the same host and port, and *)
(* none is dropped from its Gateway, what a listener with a route forwards *)
(* goes to the backend of that route.  The forwarding that                 *)
(* handleForwardingError adopts is then one of the same route: the lock    *)
(* keeps every other SetRoute out, whatever happens to the session between *)
(* stop, connect and start.                                                *)
(***************************************************************************)
THEOREM ForwardsWhereItShould ==
  ASSUME "unlisten" \notin Edits
  PROVE  Spec /\ []DistinctKeys => []ForwardsToItsRoute
<1>1. ForwardingsOK => ForwardsToItsRoute
  BY DEF ForwardingsOK
<1> QED BY <1>1, ForwardingsHold, PTL

-------------------------------------------------------------------------------
\* Listeners that are never given the same host and port.
KeysApart ==
  \A l, m \in Listeners : l # m =>
    \A c \in ConfigsOf[l], d \in ConfigsOf[m] : KeyOf(c) # KeyOf(d)

Offered(spec) == \A l \in Listeners : spec[l] # None => spec[l] \in ConfigsOf[l]

\* A listener's configuration is one that users gave it.
ConfigsFollow ==
  /\ \A g \in Gateways : /\ Offered(gwObj[g].spec)
                         /\ job[g].task = "update" => Offered(job[g].spec)
  /\ \A l \in Listeners : listeners[l] # None => listeners[l].cfg \in ConfigsOf[l]

LEMMA SpecsOffered ==
  /\ \A g \in Gateways : \A spec \in Specs(g) : Offered(spec)
  /\ Offered(NoGateway.spec)
BY DEF Specs, Offered, NoGateway, NoSpec

LEMMA ConfigsInit == Init => ConfigsFollow
<1> SUFFICES ASSUME Init PROVE ConfigsFollow
  OBVIOUS
<1>1. \A g \in Gateways : Offered(gwObj[g].spec)
  BY SpecsOffered DEF Init
<1>2. \A g \in Gateways : job[g].task # "update"
  BY DEF Init, Objects, Idle
<1>3. \A l \in Listeners : listeners[l] = None
  BY DEF Init, NoSpec
<1> QED BY <1>1, <1>2, <1>3 DEF ConfigsFollow

\* A step that changes one Gateway object, or none.
LEMMA ConfigsObject ==
  ASSUME ObjType, ConfigsFollow, UNCHANGED <<job, listeners>>,
         NEW g \in Gateways, NEW o, gwObj' = [gwObj EXCEPT ![g] = o], Offered(o.spec)
  PROVE  ConfigsFollow'
<1>1. \A h \in Gateways : Offered(gwObj'[h].spec)
  BY DEF ObjType, ConfigsFollow
<1> QED BY <1>1 DEF ConfigsFollow

LEMMA ConfigsUsers ==
  ASSUME TypeOK, ConfigsFollow, UserStep
  PROVE  ConfigsFollow'
<1>0. ObjType
  BY TypeParts
<1>1. UNCHANGED <<job, listeners>>
  BY DEF UserStep, CreateRoute, ChangeBackend, MoveRoute, DeleteRoute,
     CreateGateway, EditGateway, DeleteGateway, Edit, regVars
<1>2. CASE UNCHANGED gwObj
  BY <1>1, <1>2 DEF ConfigsFollow
<1>3. ASSUME NEW g \in Gateways, NEW spec \in Specs(g), CreateGateway(g, spec)
      PROVE  ConfigsFollow'
  <2> DEFINE o == [state |-> "live", ours |-> FALSE, spec |-> spec]
  <2>1. gwObj' = [gwObj EXCEPT ![g] = o] /\ Offered(o.spec)
    BY <1>3, SpecsOffered DEF CreateGateway
  <2> HIDE DEF o
  <2> QED BY <1>0, <1>1, <2>1, ConfigsObject
<1>4. ASSUME NEW g \in Gateways, NEW spec \in Specs(g), EditGateway(g, spec)
      PROVE  ConfigsFollow'
  <2>1. gwObj' = [gwObj EXCEPT ![g] = [gwObj[g] EXCEPT !.spec = spec]]
    BY <1>0, <1>4 DEF EditGateway, ObjType
  <2>2. gwObj[g] \in GwObjs /\ gwObj[g].state # "absent"
    BY <1>0, <1>4 DEF EditGateway, ObjType
  <2>3. [gwObj[g] EXCEPT !.spec = spec].spec = spec
    BY <2>2, GwFields
  <2> QED BY <1>0, <1>1, <2>1, <2>3, SpecsOffered, ConfigsObject
<1>5. ASSUME NEW g \in Gateways, DeleteGateway(g) PROVE ConfigsFollow'
  <2>1. CASE gwObj[g].ours
    <3>1. gwObj' = [gwObj EXCEPT ![g] = [gwObj[g] EXCEPT !.state = "deleting"]]
      BY <1>5, <2>1 DEF DeleteGateway
    <3>2. gwObj[g] \in GwObjs /\ gwObj[g].state # "absent"
      BY <1>0, <1>5 DEF DeleteGateway, ObjType
    <3>3. [gwObj[g] EXCEPT !.state = "deleting"].spec = gwObj[g].spec
      BY <3>2, GwFields
    <3>4. Offered(gwObj[g].spec)
      BY DEF ConfigsFollow
    <3> QED BY <1>0, <1>1, <3>1, <3>3, <3>4, ConfigsObject
  <2>2. CASE ~gwObj[g].ours
    BY <1>0, <1>1, <1>5, <2>2, SpecsOffered, ConfigsObject DEF DeleteGateway
  <2> QED BY <2>1, <2>2
<1> QED BY <1>2, <1>3, <1>4, <1>5 DEF UserStep, CreateRoute, ChangeBackend, MoveRoute,
      DeleteRoute

\* Setting the route of a listener leaves its configuration alone.
LEMMA ConfigsKept ==
  ASSUME RegType, NEW l \in Listeners, listeners[l] # None,
         NEW route \in Route \cup {None},
         listeners' = [listeners EXCEPT ![l].route = route]
  PROVE  \A m \in Listeners : listeners'[m] # None =>
           listeners[m] # None /\ listeners'[m].cfg = listeners[m].cfg
<1>1. listeners' = [listeners EXCEPT ![l] = [listeners[l] EXCEPT !.route = route]]
  BY DEF RegType
<1>2. listeners'[l].cfg = listeners[l].cfg
  BY <1>1, ListenerType DEF RegType, Listener
<1> QED BY <1>1, <1>2 DEF RegType

LEMMA ConfigsRoutes ==
  ASSUME TypeOK, CallShape, ConfigsFollow, NEW r \in Routes,
         RouteStep(r) \/ SetRoute(r) \/ RemoveRoute(r)
  PROVE  ConfigsFollow'
<1>0. JobType /\ RegType
  BY TypeParts
<1>1. UNCHANGED gwObj /\ \A g \in Gateways : job'[g] = job[g]
  BY RouteFrame
<1>2. \A m \in Listeners : listeners'[m] # None =>
        listeners[m] # None /\ listeners'[m].cfg = listeners[m].cfg
  <2>1. CASE UNCHANGED listeners
    BY <2>1
  <2>2. ASSUME NEW l \in Listeners, CallStep(r, l), ~UNCHANGED listeners
        PROVE  /\ listeners[l] # None
               /\ \E route \in Route \cup {None} :
                    listeners' = [listeners EXCEPT ![l].route = route]
    <3>1. listeners[l] # None /\ job[r].task \in {"set", "remove"}
      BY <2>2 DEF CallStep, Stopped, Started, StopRefused, StopFails, Connects,
         ConnectFails, StartRefused, StartFails, Holding, Free, CallShape
    <3>2. Wanted(r) \in Route
      BY <1>0, <3>1, RouteJobFields DEF Wanted, Route
    <3> QED BY <2>2, <3>1, <3>2 DEF CallStep, Stopped, Started, StopRefused, StopFails,
          Connects, ConnectFails, StartRefused, StartFails, CallFails
  <2>3. CASE /\ SetRoute(r) /\ Found(job[r].parent)
             /\ listeners' = [listeners EXCEPT ![job[r].parent].route = None]
    <3>1. job[r].parent \in Listeners
      BY <1>0, <2>3, RouteJobFields DEF SetRoute
    <3> QED BY <1>0, <2>3, <3>1, ConfigsKept DEF Found
  <2> QED BY <1>0, <2>1, <2>2, <2>3, ConfigsKept DEF RouteStep, SkipRoute,
        ReconcileRoute, RouteFinalized, regVars, SetRoute, RemoveRoute
<1> QED BY <1>1, <1>2 DEF ConfigsFollow

LEMMA ConfigsGateways ==
  ASSUME TypeOK, ConfigsFollow, NEW g \in Gateways,
         GatewayStep(g) \/ HandleAddOrUpdateGateway(g) \/ HandleDeleteGateway(g)
  PROVE  ConfigsFollow'
<1>0. ObjType /\ JobType /\ RegType
  BY TypeParts
<1>1. PICK j : job' = [job EXCEPT ![g] = j]
  BY DEF GatewayStep, ReconcileGateway, GatewayReads, GatewayFinalized,
     HandleAddOrUpdateGateway, HandleDeleteGateway, Finish
<1>2. job'[g] = j /\ \A h \in Gateways \ {g} : job'[h] = job[h]
  BY <1>0, <1>1, ObjectsAssumption DEF JobType, Objects
<1>3. j.task = "update" => Offered(j.spec)
  <2>1. CASE j = Idle \/ j = [task |-> "read"] \/ j = [task |-> "delete"]
             \/ j = [task |-> "finalize"]
    BY <2>1 DEF Idle
  <2>2. CASE j = [task |-> "update", spec |-> gwObj[g].spec]
    BY <2>2 DEF ConfigsFollow
  <2>3. \/ job' = [job EXCEPT ![g] = Idle] \/ job' = [job EXCEPT ![g] = [task |-> "read"]]
        \/ job' = [job EXCEPT ![g] = [task |-> "delete"]]
        \/ job' = [job EXCEPT ![g] = [task |-> "finalize"]]
        \/ job' = [job EXCEPT ![g] = [task |-> "update", spec |-> gwObj[g].spec]]
    BY DEF GatewayStep, ReconcileGateway, GatewayReads, GatewayFinalized,
       HandleAddOrUpdateGateway, HandleDeleteGateway, Finish
  <2>4. \/ j = Idle \/ j = [task |-> "read"] \/ j = [task |-> "delete"]
        \/ j = [task |-> "finalize"] \/ j = [task |-> "update", spec |-> gwObj[g].spec]
    BY <1>0, <1>2, <2>3 DEF JobType, Objects
  <2> QED BY <2>1, <2>2, <2>4
<1>4. \A h \in Gateways : Offered(gwObj'[h].spec)
  <2>1. CASE UNCHANGED gwObj
    BY <2>1 DEF ConfigsFollow
  <2>2. CASE gwObj' = [gwObj EXCEPT ![g] = NoGateway]
    BY <1>0, <2>2, SpecsOffered DEF ObjType, ConfigsFollow
  <2>3. CASE GatewayReads(g) /\ gwObj[g].state = "live"
    <3>1. gwObj' = [gwObj EXCEPT ![g] = [gwObj[g] EXCEPT !.ours = TRUE]]
      BY <1>0, <2>3 DEF GatewayReads, ensureGatewayFinalizer, ObjType
    <3>2. [gwObj[g] EXCEPT !.ours = TRUE].spec = gwObj[g].spec
      BY <1>0, <2>3, GwFields DEF ObjType
    <3> QED BY <1>0, <3>1, <3>2 DEF ObjType, ConfigsFollow
  <2> QED BY <2>1, <2>2, <2>3 DEF GatewayStep, ReconcileGateway, GatewayReads,
        GatewayFinalized, HandleAddOrUpdateGateway, HandleDeleteGateway, objVars
<1>5. \A l \in Listeners : listeners'[l] # None => listeners'[l].cfg \in ConfigsOf[l]
  <2>1. CASE UNCHANGED listeners \/ HandleDeleteGateway(g)
    BY <2>1 DEF ConfigsFollow, HandleDeleteGateway
  <2>2. CASE HandleAddOrUpdateGateway(g)
    <3>1. Offered(job[g].spec)
      BY <2>2 DEF HandleAddOrUpdateGateway, ConfigsFollow
    <3>2. \A l \in Listeners :
            \/ listeners'[l] = listeners[l]
            \/ listeners'[l] = NewListener(job[g].spec[l])
      BY <2>2 DEF HandleAddOrUpdateGateway
    <3>3. \A cfg : NewListener(cfg) # None => cfg # None /\ NewListener(cfg).cfg = cfg
      BY DEF NewListener
    <3> QED BY <3>1, <3>2, <3>3 DEF ConfigsFollow, Offered
  <2> QED BY <2>1, <2>2 DEF GatewayStep, ReconcileGateway, GatewayReads,
        GatewayFinalized, regVars
<1>6. \A h \in Gateways : job'[h].task = "update" => Offered(job'[h].spec)
  BY <1>2, <1>3 DEF ConfigsFollow
<1> QED BY <1>4, <1>5, <1>6 DEF ConfigsFollow

LEMMA ConfigsStep ==
  ASSUME TypeOK, CallShape, ConfigsFollow, [Next]_vars
  PROVE  ConfigsFollow'
<1>1. CASE UNCHANGED vars \/ SessionCloses
  BY <1>1 DEF vars, SessionCloses, objVars, regVars, ConfigsFollow
<1>2. CASE UserStep
  BY <1>2, ConfigsUsers
<1>3. CASE Restart
  BY <1>3 DEF Restart, objVars, NoSpec, Objects, Idle, ConfigsFollow
<1>4. ASSUME NEW r \in Routes, RouteStep(r) \/ SetRoute(r) \/ RemoveRoute(r)
      PROVE  ConfigsFollow'
  BY <1>4, ConfigsRoutes
<1>5. ASSUME NEW g \in Gateways,
             GatewayStep(g) \/ HandleAddOrUpdateGateway(g) \/ HandleDeleteGateway(g)
      PROVE  ConfigsFollow'
  BY <1>5, ConfigsGateways
<1> QED BY <1>1, <1>2, <1>3, <1>4, <1>5 DEF Next, FaultStep, LockStep

LEMMA KeysStayApart ==
  ASSUME KeysApart
  PROVE  Spec => []DistinctKeys
<1>1. TypeOK /\ CallShape /\ ConfigsFollow /\ [Next]_vars => ConfigsFollow'
  BY ConfigsStep
<1>2. ConfigsFollow => DistinctKeys
  BY DEF ConfigsFollow, DistinctKeys, KeysApart, Key
<1> QED BY <1>1, <1>2, ConfigsInit, RouteTypes, PTL DEF Spec

(***************************************************************************)
(* The same from what users do: listeners that are never configured with   *)
(* the same host and port, and none is dropped from its Gateway.           *)
(***************************************************************************)
THEOREM ForwardsWhenConfiguredApart ==
  ASSUME "unlisten" \notin Edits, KeysApart
  PROVE  Spec => []ForwardsToItsRoute
BY ForwardsWhereItShould, KeysStayApart, PTL

-------------------------------------------------------------------------------
\* GatewayRoutes implements RouteServing.

LEMMA ServingInit == Init => Traffic!Init
<1> SUFFICES ASSUME Init PROVE Traffic!Init
  OBVIOUS
<1>1. Homes = [r \in Routes |-> None]
  BY DEF Init, Homes, NoObject
<1>2. Served = [l \in Listeners |-> None]
  BY DEF Init, Served, HasRoute, NoSpec
<1> QED BY <1>1, <1>2 DEF Traffic!Init

LEMMA ServedUnchanged ==
  ASSUME UNCHANGED <<listeners, forwardings>>
  PROVE  UNCHANGED Served
BY DEF Served, HasRoute, Key

\* A step that adds no forwarding and gives no listener a route stops some.
LEMMA ShedsStops ==
  ASSUME RegType, RegType', Sheds, UNCHANGED routeObj
  PROVE  Traffic!Next
<1> DEFINE stopped == {l \in Listeners : Served'[l] = None}
<1>1. ASSUME NEW l \in Listeners, Served'[l] # None PROVE Served'[l] = Served[l]
  <2>1. HasRoute(l)' /\ forwardings'[Key(l)'] # None
    BY <1>1 DEF Served
  <2>2. HasRoute(l) /\ Key(l)' = Key(l) /\ UNCHANGED listeners[l]
    BY <2>1 DEF Sheds, Key
  <2>3. forwardings'[Key(l)] = forwardings[Key(l)]
    BY <2>1, <2>2, RoutedKey DEF Sheds
  <2> QED BY <2>1, <2>2, <2>3 DEF Served
<1>2. Served' = [l \in Listeners |-> IF l \in stopped THEN None ELSE Served[l]]
  <2>1. Served' = [l \in Listeners |-> Served'[l]]
    BY DEF Served
  <2> QED BY <1>1, <2>1
<1>3. UNCHANGED Homes
  BY DEF Homes
<1>4. Traffic!Stop(stopped)
  BY <1>2, <1>3 DEF Traffic!Stop
<1> QED BY <1>4 DEF Traffic!Next

LEMMA StartedServes ==
  ASSUME TypeOK, CallShape, AttachedOK, DistinctKeys, AdoptsItsOwn,
         NEW r \in Routes, NEW l \in Listeners, Started(r, l)
  PROVE  Traffic!Next
<1>0. RegType
  BY TypeParts
<1>1. Served[l] = None
  <2>1. listeners[l].route = None \/ forwardings[Key(l)] = None
    BY StartedEffect
  <2> QED BY <2>1 DEF Served, HasRoute
<1>2. Homes[r] = l
  <2>1. job[r] # Idle /\ job[r].parent = l
    BY StartedEffect DEF Idle
  <2> QED BY <2>1 DEF AttachedOK, AttachedShape, Homes
<1>3. UNCHANGED Homes
  BY DEF Started, Holding, objVars, Homes
<1>4. Served'[l] = [name |-> r, backend |-> job[r].backend]
  <2>1. /\ HasRoute(l)' /\ listeners'[l].route = Wanted(r) /\ Key(l)' = Key(l)
        /\ forwardings'[Key(l)].backend = job[r].backend
        /\ forwardings'[Key(l)] # None
    BY StartedEffect
  <2> QED BY <2>1 DEF Served, Wanted
<1>5. ASSUME NEW m \in Listeners \ {l} PROVE Served'[m] = Served[m]
  <2>1. UNCHANGED listeners[m] /\ listeners[l] # None
    BY StartedEffect
  <2>2. (HasRoute(m)' <=> HasRoute(m)) /\ Key(m)' = Key(m)
    BY <2>1 DEF HasRoute, Key
  <2>3. CASE HasRoute(m)
    <3>1. Key(m) # Key(l) /\ Key(m) \in Keys
      BY <1>0, <2>1, <2>3, RoutedKey DEF DistinctKeys, HasRoute
    <3>2. forwardings'[Key(m)] = forwardings[Key(m)]
      BY <3>1, StartedEffect
    <3> QED BY <2>1, <2>2, <3>2 DEF Served
  <2>4. CASE ~HasRoute(m)
    BY <2>2, <2>4 DEF Served
  <2> QED BY <2>3, <2>4
<1>6. Served' = [Served EXCEPT ![l] = [name |-> r, backend |-> job[r].backend]]
  <2>1. Served' = [m \in Listeners |-> Served'[m]] /\ Served = [m \in Listeners |-> Served[m]]
    BY DEF Served
  <2> QED BY <1>4, <1>5, <2>1
<1>7. job[r].backend \in Backends
  BY StartedEffect
<1>8. Traffic!Serve(l, r, job[r].backend)
  BY <1>1, <1>2, <1>3, <1>6 DEF Traffic!Serve
<1> QED BY <1>7, <1>8 DEF Traffic!Next

\* Reconcile, up to the call of SetRoute or RemoveRoute, adds the finalizer.
LEMMA ReconcileTakesOn ==
  ASSUME TypeOK, NEW r \in Routes, ReconcileRoute(r)
  PROVE  [Traffic!Next]_Traffic!svars
<1>0. ObjType
  BY TypeParts
<1>1. UNCHANGED Served
  BY ServedUnchanged DEF ReconcileRoute, regVars, sessVars
<1>2. routeObj' = [routeObj EXCEPT ![r] = [routeObj[r] EXCEPT !.ours = TRUE]]
  BY <1>0 DEF ReconcileRoute, ObjType
<1>3. routeObj[r] \in [state : {"live", "deleting"}, ours : BOOLEAN,
                       parent : Listeners, backend : Backends]
  BY <1>0, RouteFields DEF ReconcileRoute, ObjType
<1>4. routeObj'[r].ours /\ routeObj'[r].parent = routeObj[r].parent
  BY <1>0, <1>2, <1>3 DEF ObjType
<1>5. Homes' = [Homes EXCEPT ![r] = routeObj[r].parent]
  BY <1>0, <1>2, <1>4 DEF Homes, ObjType
<1>6. CASE routeObj[r].ours
  BY <1>1, <1>5, <1>6 DEF Homes, Traffic!svars
<1>7. CASE ~routeObj[r].ours
  <2>1. Traffic!TakeOn(r, routeObj[r].parent)
    BY <1>1, <1>5, <1>7 DEF Homes, Traffic!TakeOn
  <2> QED BY <1>3, <2>1 DEF Traffic!Next
<1> QED BY <1>6, <1>7

\* The finalizer is removed from a route that is attached nowhere.
LEMMA FinalizedLetsGo ==
  ASSUME TypeOK, AttachedOK, NEW r \in Routes, RouteFinalized(r)
  PROVE  [Traffic!Next]_Traffic!svars
<1>0. ObjType /\ RegType
  BY TypeParts
<1>1. UNCHANGED Served
  BY ServedUnchanged DEF RouteFinalized, regVars, sessVars
<1>2. Homes' = [Homes EXCEPT ![r] = None]
  BY <1>0 DEF RouteFinalized, Homes, ObjType, NoObject
<1>3. \A l \in Listeners : Served[l] # None => Served[l].name # r
  BY DEF Served, RouteFinalized, AttachedOK, AttachedShape
<1>4. CASE Homes[r] = None
  BY <1>1, <1>2, <1>4 DEF Homes, Traffic!svars
<1>5. CASE Homes[r] # None
  BY <1>1, <1>2, <1>3, <1>5 DEF Traffic!LetGo, Traffic!Next
<1> QED BY <1>4, <1>5

\* What users do to an object leaves its finalizer and its parent alone.
LEMMA UsersKeepHomes ==
  ASSUME "move" \notin Edits, TypeOK, UserStep
  PROVE  UNCHANGED Traffic!svars
<1>0. ObjType
  BY TypeParts
<1>1. UNCHANGED Served
  BY ServedUnchanged DEF UserStep, CreateRoute, ChangeBackend, MoveRoute, DeleteRoute,
     CreateGateway, EditGateway, DeleteGateway, Edit, regVars, sessVars
<1>2. ASSUME NEW r \in Routes, NEW o, routeObj' = [routeObj EXCEPT ![r] = o],
             o.ours = routeObj[r].ours, o.ours => o.parent = routeObj[r].parent
      PROVE  UNCHANGED Homes
  BY <1>0, <1>2 DEF Homes, ObjType
<1>3. ASSUME NEW r \in Routes, routeObj[r].state = "live"
      PROVE  routeObj[r] \in [state : {"live", "deleting"}, ours : BOOLEAN,
                              parent : Listeners, backend : Backends]
  BY <1>0, <1>3, RouteFields DEF ObjType
<1>4. ASSUME NEW r \in Routes, NEW l \in Listeners, NEW b \in Backends,
             CreateRoute(r, l, b)
      PROVE  UNCHANGED Homes
  <2>1. ~routeObj[r].ours
    BY <1>0, <1>4 DEF CreateRoute, ObjType, RouteObjs, NoObject
  <2> QED BY <1>0, <1>4, <2>1 DEF CreateRoute, Homes, ObjType
<1>5. ASSUME NEW r \in Routes, NEW b \in Backends, ChangeBackend(r, b)
      PROVE  UNCHANGED Homes
  <2>1. routeObj' = [routeObj EXCEPT ![r] = [routeObj[r] EXCEPT !.backend = b]]
    BY <1>0, <1>5 DEF ChangeBackend, ObjType
  <2>2. /\ [routeObj[r] EXCEPT !.backend = b].ours = routeObj[r].ours
        /\ [routeObj[r] EXCEPT !.backend = b].parent = routeObj[r].parent
    BY <1>3, <1>5 DEF ChangeBackend
  <2> QED BY <1>2, <2>1, <2>2
<1>6. ASSUME NEW r \in Routes, DeleteRoute(r) PROVE UNCHANGED Homes
  <2>1. CASE routeObj[r].ours
    <3>1. routeObj' = [routeObj EXCEPT ![r] = [routeObj[r] EXCEPT !.state = "deleting"]]
      BY <1>6, <2>1 DEF DeleteRoute
    <3>2. /\ [routeObj[r] EXCEPT !.state = "deleting"].ours = routeObj[r].ours
          /\ [routeObj[r] EXCEPT !.state = "deleting"].parent = routeObj[r].parent
      BY <1>3, <1>6 DEF DeleteRoute
    <3> QED BY <1>2, <3>1, <3>2
  <2>2. CASE ~routeObj[r].ours
    BY <1>0, <1>6, <2>2 DEF DeleteRoute, Homes, ObjType, NoObject
  <2> QED BY <2>1, <2>2
<1>7. UNCHANGED Homes
  BY <1>4, <1>5, <1>6 DEF UserStep, MoveRoute, CreateGateway, EditGateway, DeleteGateway,
     Edit, Homes
<1> QED BY <1>1, <1>7 DEF Traffic!svars

LEMMA ServingStep ==
  ASSUME "move" \notin Edits, TypeOK, TypeOK', CallShape, AttachedOK, DistinctKeys,
         AdoptsItsOwn, [Next]_vars
  PROVE  [Traffic!Next]_Traffic!svars
<1>0. RegType /\ RegType'
  BY TypeParts, TypePartsNext
<1>1. CASE UserStep
  BY <1>1, UsersKeepHomes
<1>2. ASSUME NEW r \in Routes, ReconcileRoute(r) \/ RouteFinalized(r)
      PROVE  [Traffic!Next]_Traffic!svars
  BY <1>2, ReconcileTakesOn, FinalizedLetsGo
<1>3. CASE UNCHANGED routeObj
  BY <1>0, <1>3, OnlyStartedAdds, ShedsStops, StartedServes
<1>4. CASE UNCHANGED vars \/ FaultStep
  BY <1>3, <1>4 DEF vars, objVars, FaultStep, SessionCloses, Restart
<1>5. ASSUME NEW r \in Routes, RouteStep(r)
      PROVE  UNCHANGED routeObj \/ ReconcileRoute(r) \/ RouteFinalized(r)
  BY <1>5 DEF RouteStep, SkipRoute, CallStep, StopRefused, StopFails, Stopped, Connects,
     ConnectFails, StartRefused, StartFails, Started, Holding, objVars
<1>6. ASSUME NEW g \in Gateways, GatewayStep(g) PROVE UNCHANGED routeObj
  BY <1>6 DEF GatewayStep, ReconcileGateway, GatewayReads, GatewayFinalized, objVars
<1>7. ASSUME NEW o \in Objects, LockStep(o) PROVE UNCHANGED routeObj
  BY <1>7 DEF LockStep, SetRoute, RemoveRoute, HandleAddOrUpdateGateway,
     HandleDeleteGateway, objVars
<1> QED BY <1>1, <1>2, <1>3, <1>4, <1>5, <1>6, <1>7 DEF Next

(***************************************************************************)
(* The controllers keep what RouteServing promises, as long as no two      *)
(* registered listeners have the same host and port, no listener is        *)
(* dropped from its Gateway and no route is moved to another listener: a   *)
(* route is served by its own listener only, is let go only when it is     *)
(* served no more, and nothing that is served is replaced in place.        *)
(***************************************************************************)
THEOREM ImplementsRouteServing ==
  ASSUME "unlisten" \notin Edits, "move" \notin Edits
  PROVE  Spec /\ []DistinctKeys => ImplementsServing
<1>1. TypeOK /\ TypeOK' /\ CallShape /\ AttachedOK /\ DistinctKeys /\ ForwardingsOK
        /\ [Next]_vars => [Traffic!Next]_Traffic!svars
  BY ServingStep DEF ForwardingsOK
<1>2. Spec => []AttachedOK
  BY AttachedHolds
<1> QED BY <1>1, <1>2, ServingInit, ForwardingsHold, RouteTypes, PTL
      DEF Spec, ImplementsServing, Traffic!Spec
===============================================================================
