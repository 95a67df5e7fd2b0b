-------------------------- MODULE GatewayRoutesProofs --------------------------
(***************************************************************************)
(* Theorems about GatewayRoutes, for every set of routes, Gateways,        *)
(* listeners and configurations.                                           *)
(***************************************************************************)
EXTENDS GatewayRoutesProps, TLAPS

RouteObjs ==
  [state : {"live", "deleting"}, ours : BOOLEAN, parent : Listeners,
   backend : Backends] \cup {NoObject}

GwObjs ==
  [state : {"live", "deleting"}, ours : BOOLEAN,
   spec : [Listeners -> Configs \cup {None}]] \cup {NoGateway}

ObjType == routeObj \in [Routes -> RouteObjs] /\ gwObj \in [Gateways -> GwObjs]

JobType ==
  /\ job \in [Objects -> RouteJob \cup GatewayJob]
  /\ \A r \in Routes : job[r] \in RouteJob
  /\ \A g \in Gateways : job[g] \in GatewayJob

RegType ==
  /\ gateways \subseteq Gateways
  /\ listeners \in [Listeners -> Listener \cup {None}]
  /\ call \in {Free} \cup [by : Routes, step : {"stop", "connect", "start"}]

SessType ==
  /\ connected \in BOOLEAN
  /\ forwardings \in [Keys -> Requests \cup {None}]
  /\ assignedAddrs \in [Keys -> SUBSET URIs]

LEMMA TypeParts ==
  TypeOK <=> ObjType /\ due \subseteq Objects /\ JobType /\ RegType /\ SessType
BY DEF TypeOK, ObjType, JobType, RegType, SessType, RouteObjs, GwObjs

LEMMA TypePartsNext ==
  TypeOK' <=> /\ ObjType' /\ (due \subseteq Objects)' /\ JobType' /\ RegType'
              /\ SessType'
BY DEF TypeOK, ObjType, JobType, RegType, SessType, RouteObjs, GwObjs

LEMMA SpecType ==
  ASSUME NEW g \in Gateways, NEW spec \in Specs(g)
  PROVE  spec \in [Listeners -> Configs \cup {None}]
BY DEF Specs

\* An object that exists keeps its type when a field of it is changed.
LEMMA RouteFields ==
  ASSUME NEW o \in RouteObjs, o.state # "absent"
  PROVE  /\ o \in [state : {"live", "deleting"}, ours : BOOLEAN,
                   parent : Listeners, backend : Backends]
         /\ \A l \in Listeners : [o EXCEPT !.parent = l] \in RouteObjs
         /\ \A b \in Backends : [o EXCEPT !.backend = b] \in RouteObjs
         /\ [o EXCEPT !.state = "deleting"] \in RouteObjs
         /\ [o EXCEPT !.ours = TRUE] \in RouteObjs
<1>1. o \in [state : {"live", "deleting"}, ours : BOOLEAN, parent : Listeners,
            backend : Backends]
  BY DEF RouteObjs, NoObject
<1> QED BY <1>1 DEF RouteObjs

LEMMA GwFields ==
  ASSUME NEW o \in GwObjs, o.state # "absent"
  PROVE  /\ o \in [state : {"live", "deleting"}, ours : BOOLEAN,
                   spec : [Listeners -> Configs \cup {None}]]
         /\ \A spec \in [Listeners -> Configs \cup {None}] :
              [o EXCEPT !.spec = spec] \in GwObjs
         /\ [o EXCEPT !.state = "deleting"] \in GwObjs
         /\ [o EXCEPT !.ours = TRUE] \in GwObjs
<1>1. o \in [state : {"live", "deleting"}, ours : BOOLEAN,
            spec : [Listeners -> Configs \cup {None}]]
  BY DEF GwObjs, NoGateway
<1> QED BY <1>1 DEF GwObjs

LEMMA InitType == Init => TypeOK
<1> SUFFICES ASSUME Init PROVE TypeOK OBVIOUS
<1>1. routeObj \in [Routes -> RouteObjs]
  BY DEF Init, RouteObjs
<1>2. gwObj \in [Gateways -> GwObjs]
  <2>1. \A spec : \A g \in Gateways :
          spec \in [state : {"live"}, ours : {FALSE}, spec : Specs(g)] => spec \in GwObjs
    BY SpecType DEF GwObjs
  <2>2. \A o \in {NoGateway} \cup
          UNION {[state : {"live"}, ours : {FALSE}, spec : Specs(g)] : g \in Gateways} :
            o \in GwObjs
    BY <2>1 DEF GwObjs
  <2> QED BY <2>2 DEF Init
<1>3. JobType
  BY DEF Init, JobType, RouteJob, GatewayJob, Objects
<1>4. RegType
  BY DEF Init, RegType, NoSpec
<1>5. SessType
  BY DEF Init, SessType, Session!Init, Session!Empty, Session!NoAddr, Session!Keys, Keys
<1> QED BY <1>1, <1>2, <1>3, <1>4, <1>5, TypeParts DEF Init, ObjType, Objects

-------------------------------------------------------------------------------
\* Users and failures.
LEMMA WorldTypes == ASSUME TypeOK, UserStep \/ FaultStep PROVE TypeOK'
<1>0. ObjType /\ due \subseteq Objects /\ JobType /\ RegType /\ SessType
  BY TypeParts
<1> USE <1>0
<1>1. ASSUME UserStep PROVE TypeOK'
  <2>1. JobType' /\ RegType' /\ SessType'
    BY <1>1 DEF UserStep, CreateRoute, ChangeBackend, MoveRoute, DeleteRoute,
       CreateGateway, EditGateway, DeleteGateway, Edit, regVars, sessVars,
       JobType, RegType, SessType
  <2>2. (due \subseteq Objects)'
    BY <1>1 DEF UserStep, CreateRoute, ChangeBackend, MoveRoute, DeleteRoute,
       CreateGateway, EditGateway, DeleteGateway, Objects
  <2>3. ASSUME NEW r \in Routes, NEW o \in RouteObjs, UNCHANGED gwObj,
               routeObj' = [routeObj EXCEPT ![r] = o]
        PROVE  ObjType'
    BY <2>3 DEF ObjType
  <2>4. ASSUME NEW g \in Gateways, NEW o \in GwObjs, UNCHANGED routeObj,
               gwObj' = [gwObj EXCEPT ![g] = o]
        PROVE  ObjType'
    BY <2>4 DEF ObjType
  <2>5. ASSUME NEW r \in Routes, NEW l \in Listeners, NEW b \in Backends,
               CreateRoute(r, l, b)
        PROVE  ObjType'
    <3>1. [state |-> "live", ours |-> FALSE, parent |-> l, backend |-> b] \in RouteObjs
      BY DEF RouteObjs
    <3> QED BY <2>3, <2>5, <3>1 DEF CreateRoute
  <2>6. ASSUME NEW r \in Routes, NEW b \in Backends, ChangeBackend(r, b)
        PROVE  ObjType'
    <3>1. [routeObj[r] EXCEPT !.backend = b] \in RouteObjs
      BY <2>6, RouteFields DEF ChangeBackend, ObjType
    <3>2. routeObj' = [routeObj EXCEPT ![r] = [routeObj[r] EXCEPT !.backend = b]]
      BY <2>6 DEF ChangeBackend, ObjType
    <3> QED BY <2>3, <2>6, <3>1, <3>2 DEF ChangeBackend
  <2>7. ASSUME NEW r \in Routes, NEW l \in Listeners, MoveRoute(r, l)
        PROVE  ObjType'
    <3>1. [routeObj[r] EXCEPT !.parent = l] \in RouteObjs
      BY <2>7, RouteFields DEF MoveRoute, ObjType
    <3>2. routeObj' = [routeObj EXCEPT ![r] = [routeObj[r] EXCEPT !.parent = l]]
      BY <2>7 DEF MoveRoute, ObjType
    <3> QED BY <2>3, <2>7, <3>1, <3>2 DEF MoveRoute
  <2>8. ASSUME NEW r \in Routes, DeleteRoute(r) PROVE ObjType'
    <3>1. NoObject \in RouteObjs /\ [routeObj[r] EXCEPT !.state = "deleting"] \in RouteObjs
      BY <2>8, RouteFields DEF DeleteRoute, ObjType, RouteObjs
    <3> QED BY <2>3, <2>8, <3>1 DEF DeleteRoute
  <2>9. ASSUME NEW g \in Gateways, NEW spec \in Specs(g), CreateGateway(g, spec)
        PROVE  ObjType'
    <3>1. [state |-> "live", ours |-> FALSE, spec |-> spec] \in GwObjs
      BY SpecType DEF GwObjs
    <3> QED BY <2>4, <2>9, <3>1 DEF CreateGateway
  <2>10. ASSUME NEW g \in Gateways, NEW spec \in Specs(g), EditGateway(g, spec)
         PROVE  ObjType'
    <3>1. [gwObj[g] EXCEPT !.spec = spec] \in GwObjs
      BY <2>10, SpecType, GwFields DEF EditGateway, ObjType
    <3>2. gwObj' = [gwObj EXCEPT ![g] = [gwObj[g] EXCEPT !.spec = spec]]
      BY <2>10 DEF EditGateway, ObjType
    <3> QED BY <2>4, <2>10, <3>1, <3>2 DEF EditGateway
  <2>11. ASSUME NEW g \in Gateways, DeleteGateway(g) PROVE ObjType'
    <3>1. NoGateway \in GwObjs /\ [gwObj[g] EXCEPT !.state = "deleting"] \in GwObjs
      BY <2>11, GwFields DEF DeleteGateway, ObjType, GwObjs
    <3> QED BY <2>4, <2>11, <3>1 DEF DeleteGateway
  <2>12. ObjType'
    BY <1>1, <2>5, <2>6, <2>7, <2>8, <2>9, <2>10, <2>11 DEF UserStep
  <2> QED BY <2>1, <2>2, <2>12, TypePartsNext
<1>2. ASSUME SessionCloses PROVE TypeOK'
  <2>1. ObjType' /\ (due \subseteq Objects)' /\ JobType' /\ RegType'
    BY <1>2 DEF SessionCloses, objVars, regVars, ObjType, JobType, RegType
  <2>2. SessType'
    BY <1>2 DEF SessionCloses, SessType, Session!Close, Session!Empty,
       Session!NoAddr, Session!Keys, Keys
  <2> QED BY <2>1, <2>2, TypePartsNext
<1>3. ASSUME Restart PROVE TypeOK'
  <2>1. ObjType' /\ (due \subseteq Objects)'
    BY <1>3 DEF Restart, objVars, ObjType, Objects
  <2>2. JobType'
    BY <1>3 DEF Restart, JobType, RouteJob, GatewayJob, Objects
  <2>3. RegType'
    BY <1>3 DEF Restart, RegType, NoSpec
  <2>4. SessType'
    BY <1>3 DEF Restart, SessType, Session!Empty, Session!NoAddr, Session!Keys, Keys
  <2> QED BY <2>1, <2>2, <2>3, <2>4, TypePartsNext
<1> QED BY <1>1, <1>2, <1>3 DEF FaultStep

-------------------------------------------------------------------------------
\* Reconciliations.
LEMMA RouteJobType ==
  ASSUME JobType, NEW r \in Routes, NEW j \in RouteJob,
         job' = [job EXCEPT ![r] = j]
  PROVE  JobType'
BY ObjectsAssumption DEF JobType, Objects

LEMMA GatewayJobType ==
  ASSUME JobType, NEW g \in Gateways, NEW j \in GatewayJob,
         job' = [job EXCEPT ![g] = j]
  PROVE  JobType'
BY ObjectsAssumption DEF JobType, Objects

LEMMA FinishType ==
  ASSUME JobType, due \subseteq Objects, NEW o \in Objects, Finish(o)
  PROVE  JobType' /\ (due \subseteq Objects)'
<1>1. Idle \in RouteJob /\ Idle \in GatewayJob
  BY DEF RouteJob, GatewayJob
<1> QED BY <1>1, RouteJobType, GatewayJobType DEF Finish, Objects

LEMMA RouteJobFields ==
  ASSUME JobType, NEW r \in Routes, job[r].task # "idle"
  PROVE  /\ job[r] \in [task : {"set", "remove", "finalize"}, parent : Listeners,
                        backend : Backends]
         /\ [job[r] EXCEPT !.task = "finalize"] \in RouteJob
<1>1. job[r] \in [task : {"set", "remove", "finalize"}, parent : Listeners,
                 backend : Backends]
  BY DEF JobType, RouteJob, Idle
<1> QED BY <1>1 DEF RouteJob

LEMMA RouteReconcileTypes ==
  ASSUME TypeOK, NEW r \in Routes,
         SkipRoute(r) \/ ReconcileRoute(r) \/ RouteFinalized(r)
  PROVE  TypeOK'
<1>0. ObjType /\ due \subseteq Objects /\ JobType /\ RegType /\ SessType
  BY TypeParts
<1> USE <1>0
<1>1. RegType' /\ SessType'
  BY DEF SkipRoute, ReconcileRoute, RouteFinalized, regVars, sessVars, RegType,
     SessType
<1>2. CASE SkipRoute(r)
  BY <1>1, <1>2, TypePartsNext DEF SkipRoute, objVars, ObjType, JobType
<1>3. CASE ReconcileRoute(r)
  <2>1. routeObj[r].state # "absent" /\ routeObj[r] \in RouteObjs
    BY <1>3 DEF ReconcileRoute, ObjType
  <2>2. [routeObj[r] EXCEPT !.ours = TRUE] \in RouteObjs
        /\ routeObj[r].parent \in Listeners /\ routeObj[r].backend \in Backends
    BY <2>1, RouteFields
  <2>3. routeObj' = [routeObj EXCEPT ![r] = [routeObj[r] EXCEPT !.ours = TRUE]]
    BY <1>3 DEF ReconcileRoute, ObjType
  <2>4. ObjType'
    BY <1>3, <2>2, <2>3 DEF ReconcileRoute, ObjType
  <2>5. JobType'
    <3>1. [task |-> IF routeObj[r].state = "live" THEN "set" ELSE "remove",
           parent |-> routeObj[r].parent, backend |-> routeObj[r].backend] \in RouteJob
      BY <2>2 DEF RouteJob
    <3> QED BY <1>3, <3>1, RouteJobType DEF ReconcileRoute
  <2> QED BY <1>1, <1>3, <2>4, <2>5, TypePartsNext DEF ReconcileRoute, Objects
<1>4. CASE RouteFinalized(r)
  <2>1. ObjType'
    BY <1>4 DEF RouteFinalized, ObjType, RouteObjs
  <2> QED BY <1>1, <1>4, <2>1, FinishType, TypePartsNext DEF RouteFinalized, Objects
<1> QED BY <1>2, <1>3, <1>4

LEMMA GatewayStepTypes ==
  ASSUME TypeOK, NEW g \in Gateways, GatewayStep(g)
  PROVE  TypeOK'
<1>0. ObjType /\ due \subseteq Objects /\ JobType /\ RegType /\ SessType
  BY TypeParts
<1> USE <1>0
<1>1. RegType' /\ SessType'
  BY DEF GatewayStep, ReconcileGateway, GatewayReads, GatewayFinalized, regVars,
     sessVars, Session!Open, RegType, SessType
<1>2. CASE ReconcileGateway(g)
  <2>1. (IF gwObj[g].state = "absent" THEN Idle ELSE [task |-> "read"]) \in GatewayJob
    BY DEF GatewayJob
  <2>2. JobType'
    BY <1>2, <2>1, GatewayJobType DEF ReconcileGateway
  <2> QED BY <1>1, <1>2, <2>2, TypePartsNext DEF ReconcileGateway, objVars, ObjType, Objects
<1>3. CASE GatewayReads(g)
  <2>1. ASSUME gwObj[g].state = "absent" PROVE TypeOK'
    <3>1. UNCHANGED <<gwObj, due, routeObj>> /\ job' = [job EXCEPT ![g] = Idle]
      BY <1>3, <2>1 DEF GatewayReads
    <3>2. Idle \in GatewayJob
      BY DEF GatewayJob
    <3> QED BY <1>1, <3>1, <3>2, GatewayJobType, TypePartsNext DEF ObjType, Objects
  <2>2. ASSUME gwObj[g].state = "deleting" PROVE TypeOK'
    <3>1. UNCHANGED <<gwObj, due, routeObj>> /\ job' = [job EXCEPT ![g] = [task |-> "delete"]]
      BY <1>3, <2>2 DEF GatewayReads
    <3>2. [task |-> "delete"] \in GatewayJob
      BY DEF GatewayJob
    <3> QED BY <1>1, <3>1, <3>2, GatewayJobType, TypePartsNext DEF ObjType, Objects
  <2>3. ASSUME gwObj[g].state = "live" PROVE TypeOK'
    <3>1. /\ UNCHANGED <<due, routeObj>>
          /\ gwObj' = [gwObj EXCEPT ![g] = [gwObj[g] EXCEPT !.ours = TRUE]]
          /\ job' = [job EXCEPT ![g] = [task |-> "update", spec |-> gwObj[g].spec]]
      BY <1>3, <2>3 DEF GatewayReads, ensureGatewayFinalizer, ObjType
    <3>2. /\ [gwObj[g] EXCEPT !.ours = TRUE] \in GwObjs
          /\ gwObj[g].spec \in [Listeners -> Configs \cup {None}]
      <4>1. gwObj[g] \in GwObjs /\ gwObj[g].state # "absent"
        BY <2>3 DEF ObjType
      <4>2. gwObj[g] \in [state : {"live", "deleting"}, ours : BOOLEAN,
                         spec : [Listeners -> Configs \cup {None}]]
        BY <4>1, GwFields
      <4>3. [gwObj[g] EXCEPT !.ours = TRUE] \in GwObjs
        BY <4>1, GwFields
      <4> QED BY <4>2, <4>3
    <3>3. [task |-> "update", spec |-> gwObj[g].spec] \in GatewayJob
      BY <3>2 DEF GatewayJob
    <3>4. ObjType'
      BY <3>1, <3>2 DEF ObjType
    <3> QED BY <1>1, <3>1, <3>3, <3>4, GatewayJobType, TypePartsNext DEF Objects
  <2> QED BY <1>3, <2>1, <2>2, <2>3 DEF GatewayReads
<1>4. CASE GatewayFinalized(g)
  <2>1. ObjType'
    BY <1>4 DEF GatewayFinalized, ObjType, GwObjs
  <2> QED BY <1>1, <1>4, <2>1, FinishType, TypePartsNext DEF GatewayFinalized, Objects
<1> QED BY <1>2, <1>3, <1>4 DEF GatewayStep

-------------------------------------------------------------------------------
\* The registry, under its locks.
LEMMA ListenerType ==
  ASSUME RegType, NEW l \in Listeners, listeners[l] # None
  PROVE  /\ listeners[l] \in Listener
         /\ \A r \in Route \cup {None} : [listeners[l] EXCEPT !.route = r] \in Listener
<1>1. listeners[l] \in Listener
  BY DEF RegType
<1> QED BY <1>1 DEF Listener

\* A listener that is set to another route.
LEMMA SetListener ==
  ASSUME RegType, NEW l \in Listeners, NEW route \in Route \cup {None},
         listeners[l] # None, listeners' = [listeners EXCEPT ![l].route = route]
  PROVE  listeners' \in [Listeners -> Listener \cup {None}]
<1>1. listeners' = [listeners EXCEPT ![l] = [listeners[l] EXCEPT !.route = route]]
  BY DEF RegType
<1> QED BY <1>1, ListenerType DEF RegType

LEMMA StopAllType ==
  ASSUME SessType, NEW keys, StopAll(keys)
  PROVE  SessType'
BY DEF StopAll, SessType

LEMMA LockStepTypes ==
  ASSUME TypeOK, NEW o \in Objects, LockStep(o)
  PROVE  TypeOK'
<1>0. ObjType /\ due \subseteq Objects /\ JobType /\ RegType /\ SessType
  BY TypeParts
<1> USE <1>0
<1>1. ASSUME o \in Routes, SetRoute(o) PROVE TypeOK'
  <2> DEFINE l == job[o].parent
  <2>1. l \in Listeners
    BY <1>1, RouteJobFields DEF SetRoute
  <2>2. ObjType' /\ SessType'
    BY <1>1 DEF SetRoute, objVars, sessVars, ObjType, SessType
  <2>3. JobType' /\ (due \subseteq Objects)'
    <3>1. CASE Finish(o)
      BY <1>1, <3>1, FinishType
    <3>2. CASE UNCHANGED <<job, due>>
      BY <3>2 DEF JobType, Objects
    <3> QED BY <1>1, <3>1, <3>2 DEF SetRoute, Begin
  <2>4. RegType'
    <3>1. (call \in {Free} \cup [by : Routes, step : {"stop", "connect", "start"}])'
      BY <1>1 DEF SetRoute, Begin, FirstStep, RegType
    <3>2. (listeners \in [Listeners -> Listener \cup {None}])'
      <4>1. CASE UNCHANGED listeners
        BY <4>1 DEF RegType
      <4>2. CASE Found(l) /\ listeners' = [listeners EXCEPT ![l].route = None]
        BY <2>1, <4>2, SetListener DEF Found
      <4> QED BY <1>1, <4>1, <4>2 DEF SetRoute
    <3> QED BY <1>1, <3>1, <3>2 DEF SetRoute, RegType
  <2> QED BY <2>2, <2>3, <2>4, TypePartsNext
<1>2. ASSUME o \in Routes, RemoveRoute(o) PROVE TypeOK'
  <2>1. ObjType' /\ SessType'
    BY <1>2 DEF RemoveRoute, objVars, sessVars, ObjType, SessType
  <2>2. JobType' /\ (due \subseteq Objects)'
    <3>1. CASE UNCHANGED <<job, due>>
      BY <3>1 DEF JobType, Objects
    <3>2. CASE NotHere(o)
      <4>1. [job[o] EXCEPT !.task = "finalize"] \in RouteJob
        BY <1>2, RouteJobFields DEF RemoveRoute
      <4>2. job' = [job EXCEPT ![o] = [job[o] EXCEPT !.task = "finalize"]]
        BY <3>2 DEF NotHere, JobType
      <4> QED BY <1>2, <3>2, <4>1, <4>2, RouteJobType DEF NotHere, Objects
    <3> QED BY <1>2, <3>1, <3>2 DEF RemoveRoute, Begin
  <2>3. RegType'
    BY <1>2 DEF RemoveRoute, Begin, NotHere, RegType
  <2> QED BY <2>1, <2>2, <2>3, TypePartsNext
<1>3. ASSUME o \in Gateways, HandleAddOrUpdateGateway(o) PROVE TypeOK'
  <2> DEFINE spec == job[o].spec
  <2>1. spec \in [Listeners -> Configs \cup {None}]
    <3>1. job[o] \in GatewayJob /\ job[o].task = "update"
      BY <1>3 DEF HandleAddOrUpdateGateway, JobType
    <3> QED BY <3>1 DEF GatewayJob, Idle
  <2>2. ObjType' /\ JobType' /\ (due \subseteq Objects)'
    BY <1>3, FinishType DEF HandleAddOrUpdateGateway, objVars, ObjType
  <2>3. SessType'
    BY <1>3, StopAllType DEF HandleAddOrUpdateGateway
  <2>4. \A l \in Listeners : NewListener(spec[l]) \in Listener \cup {None}
    BY <2>1 DEF NewListener, Listener
  <2>5. RegType'
    BY <1>3, <2>4 DEF HandleAddOrUpdateGateway, RegType
  <2> QED BY <2>2, <2>3, <2>5, TypePartsNext
<1>4. ASSUME o \in Gateways, HandleDeleteGateway(o) PROVE TypeOK'
  <2>1. [task |-> "finalize"] \in GatewayJob
    BY DEF GatewayJob
  <2>2. ObjType' /\ JobType' /\ (due \subseteq Objects)'
    BY <1>4, <2>1, GatewayJobType DEF HandleDeleteGateway, objVars, ObjType, Objects
  <2>3. SessType'
    BY <1>4, StopAllType DEF HandleDeleteGateway
  <2>4. RegType'
    BY <1>4 DEF HandleDeleteGateway, RegType
  <2> QED BY <2>2, <2>3, <2>4, TypePartsNext
<1> QED BY <1>1, <1>2, <1>3, <1>4 DEF LockStep

-------------------------------------------------------------------------------
\* The calls to the session.

\* The call that holds the locks works for a route that exists, with a job.
\* A key of a listener is a key of the session, as long as there is a backend
\* to forward to.
LEMMA KeyType ==
  ASSUME RegType, NEW l \in Listeners, listeners[l] # None, NEW b \in Backends
  PROVE  /\ Fwd(listeners[l].cfg, b) \in Requests
         /\ KeyOf(Fwd(listeners[l].cfg, b)) = Key(l)
         /\ Key(l) \in Keys
<1>1. listeners[l].cfg \in Configs
  BY ListenerType DEF Listener
<1>2. Fwd(listeners[l].cfg, b) \in Requests
  BY <1>1 DEF Requests
<1>3. KeyOf(Fwd(listeners[l].cfg, b)) = Key(l)
  BY DEF Fwd, KeyOf, Key
<1> QED BY <1>2, <1>3 DEF Keys

LEMMA EnterType ==
  ASSUME SessType, NEW fwd \in Requests, NEW uris \in SUBSET URIs,
         Session!Enter(fwd, uris)
  PROVE  SessType'
BY DEF SessType, Session!Enter

LEMMA RemoveType ==
  ASSUME SessType, NEW k, Session!Remove(k)
  PROVE  SessType'
BY DEF SessType, Session!Remove

LEMMA CallStepTypes ==
  ASSUME TypeOK, CallShape, NEW r \in Routes, NEW l \in Listeners, CallStep(r, l)
  PROVE  TypeOK'
<1>0. ObjType /\ due \subseteq Objects /\ JobType /\ RegType /\ SessType
  BY TypeParts
<1> USE <1>0
<1>1. PICK step \in {"stop", "connect", "start"} : Holding(r, l, step)
  BY DEF CallStep, StopRefused, StopFails, Stopped, Connects, ConnectFails,
     StartRefused, StartFails, Started
<1>2. call # Free /\ call.by = r /\ l = job[r].parent
  BY <1>1 DEF Holding, Free
<1>3. listeners[l] # None /\ job[r].task \in {"set", "remove"}
  BY <1>2 DEF CallShape
<1>4. job[r].backend \in Backends
  BY <1>3, RouteJobFields
<1>5. ObjType'
  BY <1>1 DEF Holding, objVars, ObjType
<1>6. ASSUME CallFails(r), UNCHANGED sessVars PROVE TypeOK'
  <2>1. JobType' /\ (due \subseteq Objects)'
    BY <1>6, FinishType DEF CallFails, Objects
  <2>2. RegType' /\ SessType'
    BY <1>1, <1>6 DEF CallFails, Holding, sessVars, RegType, SessType
  <2> QED BY <1>5, <2>1, <2>2, TypePartsNext
<1>7. CASE StopFails(r, l)
  <2>1. JobType' /\ (due \subseteq Objects)' /\ SessType'
    BY <1>7, FinishType, RemoveType DEF StopFails, CallFails, Objects
  <2>2. RegType'
    BY <1>1, <1>7 DEF StopFails, CallFails, Holding, RegType
  <2> QED BY <1>5, <2>1, <2>2, TypePartsNext
<1>8. CASE Stopped(r, l)
  <2>1. SessType'
    BY <1>8, RemoveType DEF Stopped
  <2>2. ASSUME Begin(r, "connect"), UNCHANGED listeners
        PROVE  JobType' /\ (due \subseteq Objects)' /\ RegType'
    BY <1>1, <2>2 DEF Begin, Holding, RegType, JobType, Objects
  <2>3. ASSUME call' = Free, listeners' = [listeners EXCEPT ![l].route = None],
               job' = [job EXCEPT ![r].task = "finalize"], UNCHANGED due
        PROVE  JobType' /\ (due \subseteq Objects)' /\ RegType'
    <3>1. [job[r] EXCEPT !.task = "finalize"] \in RouteJob
      BY <1>3, RouteJobFields
    <3>2. job' = [job EXCEPT ![r] = [job[r] EXCEPT !.task = "finalize"]]
      BY <2>3 DEF JobType
    <3>3. JobType' /\ (due \subseteq Objects)'
      BY <2>3, <3>1, <3>2, RouteJobType DEF Objects
    <3>4. listeners' \in [Listeners -> Listener \cup {None}]
      BY <1>3, <2>3, SetListener
    <3> QED BY <1>1, <2>3, <3>3, <3>4 DEF Holding, RegType
  <2> QED BY <1>5, <1>8, <2>1, <2>2, <2>3, TypePartsNext DEF Stopped
<1>9. CASE Connects(r, l)
  <2>1. SessType'
    BY <1>9 DEF Connects, Session!Open, sessVars, SessType
  <2>2. JobType' /\ (due \subseteq Objects)' /\ RegType'
    BY <1>1, <1>9 DEF Connects, Begin, Holding, RegType, JobType, Objects
  <2> QED BY <1>5, <2>1, <2>2, TypePartsNext
<1>10. CASE Started(r, l)
  <2>1. SessType'
    <3>1. CASE UNCHANGED sessVars
      BY <3>1 DEF sessVars, SessType
    <3>2. ASSUME NEW uris \in SUBSET URIs,
                 Session!Enter(Fwd(listeners[l].cfg, job[r].backend), uris)
          PROVE  SessType'
      BY <1>3, <1>4, <3>2, KeyType, EnterType
    <3> QED BY <1>10, <3>1, <3>2 DEF Started
  <2>2. JobType' /\ (due \subseteq Objects)'
    BY <1>10, FinishType DEF Started, Objects
  <2>3. Wanted(r) \in Route
    BY <1>4 DEF Wanted, Route
  <2>4. listeners' \in [Listeners -> Listener \cup {None}]
    BY <1>3, <1>10, <2>3, SetListener DEF Started
  <2>5. RegType'
    BY <1>1, <1>10, <2>4 DEF Started, Holding, RegType
  <2> QED BY <1>5, <2>1, <2>2, <2>5, TypePartsNext
<1> QED BY <1>6, <1>7, <1>8, <1>9, <1>10 DEF CallStep, StopRefused, ConnectFails,
      StartRefused, StartFails

-------------------------------------------------------------------------------
\* Nothing but its own steps disturbs the call that holds the locks.
LEMMA CallShapeElsewhere ==
  ASSUME CallShape, JobType, RegType, NEW o \in Objects, NEW j,
         job' = [job EXCEPT ![o] = j],
         o \in Gateways \/ job[o].task \notin {"set", "remove"},
         UNCHANGED <<listeners, call>>
  PROVE  CallShape'
<1> SUFFICES ASSUME call # Free PROVE CallShape'
  BY DEF CallShape
<1>1. call.by \in Routes
  BY DEF RegType
<1>2. call.by # o
  BY <1>1, ObjectsAssumption DEF CallShape
<1>3. job'[call.by] = job[call.by]
  BY <1>1, <1>2 DEF JobType, Objects
<1> QED BY <1>3 DEF CallShape

LEMMA CallShapeLocks ==
  ASSUME TypeOK, CallShape, NEW o \in Objects, LockStep(o)
  PROVE  CallShape'
<1>0. JobType /\ RegType
  BY TypeParts
<1>1. CASE o \in Gateways /\ (HandleAddOrUpdateGateway(o) \/ HandleDeleteGateway(o))
  BY <1>1 DEF HandleAddOrUpdateGateway, HandleDeleteGateway, CallShape
<1>2. CASE o \in Routes /\ RemoveRoute(o)
  <2>1. CASE IsHere(o, job[o].parent) /\ Begin(o, "stop")
    BY <1>2, <2>1 DEF RemoveRoute, IsHere, Found, Begin, CallShape
  <2>2. CASE NotHere(o)
    BY <1>2, <2>2 DEF RemoveRoute, NotHere, CallShape
  <2> QED BY <1>2, <2>1, <2>2 DEF RemoveRoute
<1>3. CASE o \in Routes /\ SetRoute(o)
  <2> DEFINE l == job[o].parent
  <2>1. l \in Listeners
    BY <1>0, <1>3, RouteJobFields DEF SetRoute
  <2>2. CASE UNCHANGED call
    BY <1>3, <2>2 DEF SetRoute, CallShape
  <2>3. CASE Found(l) /\ Begin(o, FirstStep(l)) /\ UNCHANGED listeners
    <3>1. /\ call' = [by |-> o, step |-> FirstStep(l)]
          /\ job' = job /\ listeners' = listeners
      BY <2>3 DEF Begin
    <3>2. job[o].task = "set" /\ listeners[l] # None
      BY <1>3, <2>3 DEF SetRoute, Found
    <3>3. FirstStep(l) = "stop" => listeners[l].route # None
      BY DEF FirstStep
    <3> QED BY <3>1, <3>2, <3>3 DEF CallShape
  <2>4. CASE Found(l) /\ Begin(o, "connect")
             /\ listeners' = [listeners EXCEPT ![l].route = None]
    <3>1. call' = [by |-> o, step |-> "connect"] /\ job' = job
      BY <2>4 DEF Begin
    <3>2. listeners' = [listeners EXCEPT ![l] = [listeners[l] EXCEPT !.route = None]]
      BY <1>0, <2>4 DEF RegType
    <3>3. listeners'[l] \in Listener
      BY <1>0, <2>1, <2>4, <3>2, ListenerType DEF Found, RegType
    <3>4. listeners'[l] # None
      BY <3>3, NoneAssumption
    <3>5. job[o].task = "set"
      BY <1>3 DEF SetRoute
    <3> QED BY <3>1, <3>4, <3>5 DEF CallShape
  <2> QED BY <1>3, <2>2, <2>3, <2>4 DEF SetRoute
<1> QED BY <1>1, <1>2, <1>3 DEF LockStep

LEMMA CallShapeStep ==
  ASSUME TypeOK, CallShape, [Next]_vars
  PROVE  CallShape'
<1>0. JobType /\ RegType
  BY TypeParts
<1>1. CASE UNCHANGED vars
  BY <1>1 DEF vars, regVars, CallShape
<1>2. CASE UserStep
  <2>1. UNCHANGED <<job, listeners, call>>
    BY <1>2 DEF UserStep, CreateRoute, ChangeBackend, MoveRoute, DeleteRoute,
       CreateGateway, EditGateway, DeleteGateway, Edit, regVars
  <2> QED BY <2>1 DEF CallShape
<1>3. CASE FaultStep
  BY <1>3 DEF FaultStep, SessionCloses, Restart, regVars, CallShape
<1>4. ASSUME NEW r \in Routes, RouteStep(r) PROVE CallShape'
  <2>1. CASE SkipRoute(r)
    BY <2>1 DEF SkipRoute, regVars, CallShape
  <2>2. CASE ReconcileRoute(r)
    <3>1. PICK j : job' = [job EXCEPT ![r] = j]
      BY <2>2 DEF ReconcileRoute
    <3>2. job[r].task = "idle" /\ UNCHANGED <<listeners, call>>
      BY <2>2 DEF ReconcileRoute, Idle, regVars
    <3> QED BY <1>0, <3>1, <3>2, CallShapeElsewhere DEF Objects
  <2>3. CASE RouteFinalized(r)
    BY <1>0, <2>3, CallShapeElsewhere DEF RouteFinalized, Finish, regVars, Objects
  <2>4. ASSUME NEW l \in Listeners, CallStep(r, l) PROVE CallShape'
    <3>1. call # Free /\ call.by = r /\ l = job[r].parent
      BY <2>4 DEF CallStep, StopRefused, StopFails, Stopped, Connects, ConnectFails,
         StartRefused, StartFails, Started, Holding, Free
    <3>2. ASSUME NEW step \in {"connect", "start"}, Begin(r, step),
                 UNCHANGED listeners, job[r].task = "set"
          PROVE  CallShape'
      BY <3>1, <3>2 DEF Begin, CallShape
    <3>3. CASE Connects(r, l)
      BY <3>1, <3>2, <3>3 DEF Connects, Holding, CallShape
    <3>4. CASE Stopped(r, l)
      BY <3>2, <3>4 DEF Stopped, CallShape
    <3> QED BY <2>4, <3>3, <3>4 DEF CallStep, StopRefused, StopFails, ConnectFails,
              StartRefused, StartFails, Started, CallFails, CallShape
  <2> QED BY <1>4, <2>1, <2>2, <2>3, <2>4 DEF RouteStep
<1>5. ASSUME NEW g \in Gateways, GatewayStep(g) PROVE CallShape'
  <2>1. PICK j : job' = [job EXCEPT ![g] = j]
    BY <1>5 DEF GatewayStep, ReconcileGateway, GatewayReads, GatewayFinalized, Finish
  <2>2. UNCHANGED <<listeners, call>>
    BY <1>5 DEF GatewayStep, ReconcileGateway, GatewayReads, GatewayFinalized, regVars
  <2> QED BY <1>0, <2>1, <2>2, CallShapeElsewhere DEF Objects
<1>6. ASSUME NEW o \in Objects, LockStep(o) PROVE CallShape'
  BY <1>6, CallShapeLocks
<1> QED BY <1>1, <1>2, <1>3, <1>4, <1>5, <1>6 DEF Next

LEMMA TypeStep ==
  ASSUME TypeOK, CallShape, [Next]_vars
  PROVE  TypeOK'
<1>1. CASE UNCHANGED vars
  BY <1>1 DEF vars, objVars, regVars, sessVars, TypeOK
<1>2. CASE UserStep \/ FaultStep
  BY <1>2, WorldTypes
<1>3. ASSUME NEW r \in Routes, RouteStep(r) PROVE TypeOK'
  BY <1>3, RouteReconcileTypes, CallStepTypes DEF RouteStep
<1>4. ASSUME NEW g \in Gateways, GatewayStep(g) PROVE TypeOK'
  BY <1>4, GatewayStepTypes
<1>5. ASSUME NEW o \in Objects, LockStep(o) PROVE TypeOK'
  BY <1>5, LockStepTypes
<1> QED BY <1>1, <1>2, <1>3, <1>4, <1>5 DEF Next

(***************************************************************************)
(* The variables keep their types, and the call that holds gatewaysMu and  *)
(* listenersMu over its calls to the session works, until it lets go, for  *)
(* the job it began with, on a listener that stays registered.             *)
(***************************************************************************)
THEOREM RouteTypes == Spec => [](TypeOK /\ CallShape)
<1>1. Init => TypeOK /\ CallShape
  BY InitType DEF Init, CallShape
<1>2. TypeOK /\ CallShape /\ [Next]_vars => (TypeOK /\ CallShape)'
  BY TypeStep, CallShapeStep
<1> QED BY <1>1, <1>2, PTL DEF Spec

-------------------------------------------------------------------------------
\* The registry and the finalizers of Gateways.
RegistryOK == RegistryIsOwned /\ RegistryShape

\* A step that leaves the Gateways alone and registers no listener.
LEMMA RegistryElsewhere ==
  ASSUME RegistryOK, UNCHANGED <<gwObj, gateways>>,
         \A g \in Gateways : job'[g] = job[g],
         \A l \in Listeners : listeners'[l] # None => listeners[l] # None
  PROVE  RegistryOK'
BY DEF RegistryOK, RegistryIsOwned, RegistryShape

\* A step that changes one Gateway object, which stays ours if it was.
LEMMA RegistryObject ==
  ASSUME RegistryOK, ObjType, RegType, UNCHANGED <<job, regVars>>,
         NEW g \in Gateways, NEW o, gwObj' = [gwObj EXCEPT ![g] = o],
         gwObj[g].state # "absent" /\ gwObj[g].ours => o.state # "absent" /\ o.ours
  PROVE  RegistryOK'
<1>1. \A h \in Gateways : gwObj[h].state # "absent" /\ gwObj[h].ours =>
        gwObj'[h].state # "absent" /\ gwObj'[h].ours
  BY DEF ObjType
<1>2. UNCHANGED <<job, gateways, listeners>>
  BY DEF regVars
<1>3. RegistryIsOwned'
  BY <1>1, <1>2 DEF RegistryOK, RegistryIsOwned, RegType
<1>4. RegistryShape'
  BY <1>1, <1>2 DEF RegistryOK, RegistryShape
<1> QED BY <1>3, <1>4 DEF RegistryOK

LEMMA RegistryUsers ==
  ASSUME TypeOK, RegistryOK, UserStep
  PROVE  RegistryOK'
<1>0. ObjType /\ RegType
  BY TypeParts
<1>1. UNCHANGED <<job, regVars>>
  BY DEF UserStep, CreateRoute, ChangeBackend, MoveRoute, DeleteRoute,
     CreateGateway, EditGateway, DeleteGateway, Edit
<1>2. CASE UNCHANGED gwObj
  BY <1>1, <1>2, RegistryElsewhere DEF regVars
<1>3. ASSUME NEW g \in Gateways, NEW spec \in Specs(g), CreateGateway(g, spec)
      PROVE  RegistryOK'
  BY <1>0, <1>1, <1>3, RegistryObject DEF CreateGateway
<1>4. ASSUME NEW g \in Gateways, NEW spec \in Specs(g), EditGateway(g, spec)
      PROVE  RegistryOK'
  <2>1. gwObj' = [gwObj EXCEPT ![g] = [gwObj[g] EXCEPT !.spec = spec]]
        /\ gwObj[g].state = "live"
    BY <1>0, <1>4 DEF EditGateway, ObjType
  <2>2. gwObj[g] \in [state : {"live", "deleting"}, ours : BOOLEAN,
                     spec : [Listeners -> Configs \cup {None}]]
    BY <1>0, <2>1, GwFields DEF ObjType
  <2>3. /\ [gwObj[g] EXCEPT !.spec = spec].state = gwObj[g].state
        /\ [gwObj[g] EXCEPT !.spec = spec].ours = gwObj[g].ours
    BY <2>2
  <2> QED BY <1>0, <1>1, <2>1, <2>3, RegistryObject
<1>5. ASSUME NEW g \in Gateways, DeleteGateway(g) PROVE RegistryOK'
  <2>1. gwObj[g] \in [state : {"live", "deleting"}, ours : BOOLEAN,
                     spec : [Listeners -> Configs \cup {None}]]
    BY <1>0, <1>5, GwFields DEF DeleteGateway, ObjType
  <2>2. CASE gwObj[g].ours
    <3>1. gwObj' = [gwObj EXCEPT ![g] = [gwObj[g] EXCEPT !.state = "deleting"]]
      BY <1>5, <2>2 DEF DeleteGateway
    <3>2. /\ [gwObj[g] EXCEPT !.state = "deleting"].state = "deleting"
          /\ [gwObj[g] EXCEPT !.state = "deleting"].ours = gwObj[g].ours
      BY <2>1
    <3> QED BY <1>0, <1>1, <2>2, <3>1, <3>2, RegistryObject
  <2>3. CASE ~gwObj[g].ours
    <3>1. gwObj' = [gwObj EXCEPT ![g] = NoGateway]
      BY <1>5, <2>3 DEF DeleteGateway
    <3> QED BY <1>0, <1>1, <2>3, <3>1, RegistryObject
  <2> QED BY <2>2, <2>3
<1> QED BY <1>2, <1>3, <1>4, <1>5 DEF UserStep, CreateRoute, ChangeBackend,
      MoveRoute, DeleteRoute

\* A step of a route leaves the Gateways and their jobs alone, and registers no
\* listener.
LEMMA RouteFrame ==
  ASSUME TypeOK, CallShape, NEW r \in Routes,
         RouteStep(r) \/ SetRoute(r) \/ RemoveRoute(r)
  PROVE  /\ UNCHANGED <<gwObj, gateways>>
         /\ \A g \in Gateways : job'[g] = job[g]
         /\ \A l \in Listeners : listeners'[l] # None => listeners[l] # None
<1>0. JobType /\ RegType
  BY TypeParts
<1>1. UNCHANGED <<gwObj, gateways>>
  BY DEF RouteStep, SkipRoute, ReconcileRoute, RouteFinalized, CallStep, StopRefused,
     StopFails, Stopped, Connects, ConnectFails, StartRefused, StartFails, Started,
     Holding, SetRoute, RemoveRoute, objVars, regVars
<1>2. \A g \in Gateways : job'[g] = job[g]
  <2>1. ASSUME NEW j, job' = [job EXCEPT ![r] = j] PROVE \A g \in Gateways : job'[g] = job[g]
    BY <1>0, <2>1, ObjectsAssumption DEF JobType, Objects
  <2>2. UNCHANGED job \/ \E j : job' = [job EXCEPT ![r] = j]
    <3>1. ASSUME NEW v, job' = [job EXCEPT ![r].task = v]
          PROVE  job' = [job EXCEPT ![r] = [job[r] EXCEPT !.task = v]]
      BY <1>0, <3>1 DEF JobType
    <3> QED BY <3>1 DEF RouteStep, SkipRoute, ReconcileRoute, RouteFinalized,
          CallStep, StopRefused, StopFails, Stopped, Connects, ConnectFails,
          StartRefused, StartFails, Started, SetRoute, RemoveRoute, NotHere, Begin,
          CallFails, Finish
  <2> QED BY <2>1, <2>2
<1>3. \A l \in Listeners : listeners'[l] # None => listeners[l] # None
  <2>1. ASSUME NEW l, NEW v, listeners[l] # None,
               listeners' = [listeners EXCEPT ![l].route = v]
        PROVE  \A m \in Listeners : listeners'[m] # None => listeners[m] # None
    BY <1>0, <2>1 DEF RegType
  <2>2. CASE UNCHANGED listeners
    BY <2>2
  <2>3. CASE SetRoute(r)
    BY <2>1, <2>3 DEF SetRoute, Found
  <2>4. ASSUME NEW l \in Listeners, Stopped(r, l) \/ Started(r, l)
        PROVE  \A m \in Listeners : listeners'[m] # None => listeners[m] # None
    <3>1. listeners[l] # None
      <4>1. call # Free /\ call.by = r /\ l = job[r].parent
        BY <2>4 DEF Stopped, Started, Holding, Free
      <4> QED BY <4>1 DEF CallShape
    <3> QED BY <2>1, <2>4, <3>1 DEF Stopped, Started
  <2> QED BY <2>2, <2>3, <2>4 DEF RouteStep, SkipRoute, ReconcileRoute,
        RouteFinalized, CallStep, StopRefused, StopFails, Connects, ConnectFails,
        StartRefused, StartFails, CallFails, RemoveRoute, regVars
<1> QED BY <1>1, <1>2, <1>3

LEMMA RegistryRoutes ==
  ASSUME TypeOK, CallShape, RegistryOK, NEW r \in Routes,
         RouteStep(r) \/ SetRoute(r) \/ RemoveRoute(r)
  PROVE  RegistryOK'
BY RouteFrame, RegistryElsewhere

LEMMA RegistryGateways ==
  ASSUME TypeOK, RegistryOK, NEW g \in Gateways,
         GatewayStep(g) \/ HandleAddOrUpdateGateway(g) \/ HandleDeleteGateway(g)
  PROVE  RegistryOK'
<1>0. ObjType /\ JobType /\ RegType
  BY TypeParts
<1> USE <1>0
<1>1. ASSUME NEW j, job' = [job EXCEPT ![g] = j]
      PROVE  job'[g] = j /\ \A h \in Gateways \ {g} : job'[h] = job[h]
  BY <1>1 DEF JobType, Objects
\* The task that begins or ends is not one RegistryShape speaks of.
<1>2. ASSUME NEW j, job' = [job EXCEPT ![g] = j], j.task \notin {"update", "finalize"},
             UNCHANGED <<gwObj, gateways, listeners>>
      PROVE  RegistryOK'
  BY <1>1, <1>2 DEF RegistryOK, RegistryIsOwned, RegistryShape
<1>3. CASE ReconcileGateway(g)
  <2>1. UNCHANGED <<gwObj, gateways, listeners>>
    BY <1>3 DEF ReconcileGateway, objVars, regVars
  <2>2. CASE gwObj[g].state = "absent"
    <3>1. job' = [job EXCEPT ![g] = Idle]
      BY <1>3, <2>2 DEF ReconcileGateway
    <3> QED BY <1>2, <2>1, <3>1 DEF Idle
  <2>3. CASE gwObj[g].state # "absent"
    <3>1. job' = [job EXCEPT ![g] = [task |-> "read"]]
      BY <1>3, <2>3 DEF ReconcileGateway
    <3> QED BY <1>2, <2>1, <3>1
  <2> QED BY <2>2, <2>3
<1>4. CASE GatewayReads(g)
  <2>1. UNCHANGED <<gateways, listeners>>
    BY <1>4 DEF GatewayReads, regVars
  <2>2. CASE gwObj[g].state = "absent"
    <3>1. job' = [job EXCEPT ![g] = Idle] /\ UNCHANGED gwObj
      BY <1>4, <2>2 DEF GatewayReads
    <3> QED BY <1>2, <2>1, <3>1 DEF Idle
  <2>3. CASE gwObj[g].state = "deleting"
    <3>1. job' = [job EXCEPT ![g] = [task |-> "delete"]] /\ UNCHANGED gwObj
      BY <1>4, <2>3 DEF GatewayReads
    <3> QED BY <1>2, <2>1, <3>1
  <2>4. CASE gwObj[g].state = "live"
    <3>1. /\ job' = [job EXCEPT ![g] = [task |-> "update", spec |-> gwObj[g].spec]]
          /\ gwObj' = [gwObj EXCEPT ![g] = [gwObj[g] EXCEPT !.ours = TRUE]]
      BY <1>4, <2>4 DEF GatewayReads, ensureGatewayFinalizer, ObjType
    <3>2. gwObj[g] \in [state : {"live", "deleting"}, ours : BOOLEAN,
                       spec : [Listeners -> Configs \cup {None}]]
      BY <2>4, GwFields DEF ObjType
    <3>3. gwObj'[g].state = "live" /\ gwObj'[g].ours
      BY <2>4, <3>1, <3>2 DEF ObjType
    <3>4. \A h \in Gateways \ {g} : gwObj'[h] = gwObj[h]
      BY <3>1 DEF ObjType
    <3>5. job'[g].task = "update"
      BY <1>1, <3>1
    <3> QED BY <1>1, <2>1, <3>1, <3>3, <3>4, <3>5
          DEF RegistryOK, RegistryIsOwned, RegistryShape, RegType
  <2> QED BY <1>4, <2>2, <2>3, <2>4 DEF GatewayReads
\* Its finalizer goes, and it has left the registry.
<1>5. CASE GatewayFinalized(g)
  <2>1. g \notin gateways
    BY <1>5 DEF GatewayFinalized, RegistryOK, RegistryShape
  <2>2. \A h \in Gateways \ {g} : gwObj'[h] = gwObj[h]
    BY <1>5 DEF GatewayFinalized, ObjType
  <2>3. job' = [job EXCEPT ![g] = Idle] /\ UNCHANGED <<gateways, listeners>>
    BY <1>5 DEF GatewayFinalized, Finish, regVars
  <2>4. job'[g].task = "idle"
    BY <1>1, <2>3 DEF Idle
  <2> QED BY <1>1, <2>1, <2>2, <2>3, <2>4
        DEF RegistryOK, RegistryIsOwned, RegistryShape, RegType
\* What is registered was read when it had its finalizer.
<1>6. CASE HandleAddOrUpdateGateway(g)
  <2>1. /\ job' = [job EXCEPT ![g] = Idle] /\ UNCHANGED gwObj
        /\ gateways' = gateways \cup {g} /\ job[g].task = "update"
        /\ listeners' = [l \in Listeners |->
             IF l \notin ListenersOf(g) \/ (g \in gateways /\ Kept(l, job[g].spec))
               THEN listeners[l] ELSE NewListener(job[g].spec[l])]
    BY <1>6 DEF HandleAddOrUpdateGateway, Finish, objVars
  <2>2. job'[g].task = "idle"
    BY <1>1, <2>1 DEF Idle
  <2>3. \A l \in Listeners : listeners'[l] # None => GatewayOf[l] \in gateways'
    BY <2>1 DEF ListenersOf, RegistryOK, RegistryIsOwned
  <2> QED BY <1>1, <2>1, <2>2, <2>3 DEF RegistryOK, RegistryIsOwned, RegistryShape
<1>7. CASE HandleDeleteGateway(g)
  <2>1. /\ job' = [job EXCEPT ![g] = [task |-> "finalize"]] /\ UNCHANGED gwObj
        /\ gateways' = gateways \ {g}
        /\ listeners' = [l \in Listeners |->
                           IF l \in ListenersOf(g) THEN None ELSE listeners[l]]
    BY <1>7 DEF HandleDeleteGateway, objVars
  <2>2. job'[g].task = "finalize"
    BY <1>1, <2>1
  <2>3. \A l \in Listeners : listeners'[l] # None => GatewayOf[l] \in gateways'
    BY <2>1 DEF ListenersOf, RegistryOK, RegistryIsOwned
  <2> QED BY <1>1, <2>1, <2>2, <2>3 DEF RegistryOK, RegistryIsOwned, RegistryShape
<1> QED BY <1>3, <1>4, <1>5, <1>6, <1>7 DEF GatewayStep

LEMMA RegistryStep ==
  ASSUME TypeOK, CallShape, RegistryOK, [Next]_vars
  PROVE  RegistryOK'
<1>1. CASE UNCHANGED vars
  BY <1>1 DEF vars, objVars, regVars, RegistryOK, RegistryIsOwned, RegistryShape
<1>2. CASE UserStep
  BY <1>2, RegistryUsers
<1>3. CASE SessionCloses
  BY <1>3, RegistryElsewhere DEF SessionCloses, objVars, regVars
<1>4. CASE Restart
  BY <1>4 DEF Restart, objVars, NoSpec, Idle, Objects, RegistryOK, RegistryIsOwned,
     RegistryShape
<1>5. ASSUME NEW r \in Routes, RouteStep(r) PROVE RegistryOK'
  BY <1>5, RegistryRoutes
<1>6. ASSUME NEW g \in Gateways, GatewayStep(g) PROVE RegistryOK'
  BY <1>6, RegistryGateways
<1>7. ASSUME NEW o \in Objects, LockStep(o) PROVE RegistryOK'
  BY <1>7, RegistryRoutes, RegistryGateways DEF LockStep
<1> QED BY <1>1, <1>2, <1>3, <1>4, <1>5, <1>6, <1>7 DEF Next, FaultStep

(***************************************************************************)
(* A Gateway is registered only while its finalizer is on it: of the many  *)
(* reconciliations in flight, each acting on what it read before it waited *)
(* for gatewaysMu, none registers a Gateway that has been let go.          *)
(***************************************************************************)
THEOREM RegistryStaysOwned == Spec => []RegistryIsOwned
<1>1. Init => RegistryOK
  BY DEF Init, NoSpec, Idle, Objects, RegistryOK, RegistryIsOwned, RegistryShape
<1>2. TypeOK /\ CallShape /\ RegistryOK /\ [Next]_vars => RegistryOK'
  BY RegistryStep
<1>3. RegistryOK => RegistryIsOwned
  BY DEF RegistryOK
<1> QED BY <1>1, <1>2, <1>3, RouteTypes, PTL DEF Spec

===============================================================================
