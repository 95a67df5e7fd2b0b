-------------------------- MODULE RoutesAttachedProofs --------------------------
(***************************************************************************)
(* Theorem about the routes that the listeners of GatewayRoutes hold.      *)
(***************************************************************************)
EXTENDS GatewayRoutesProofs

\* The listeners and the finalizers of routes.
AttachedOK == AttachedIsOwned /\ AttachedShape

LEMMA AttachedName ==
  ASSUME RegType, NEW l \in Listeners, HasRoute(l)
  PROVE  listeners[l].route.name \in Routes
BY ListenerType DEF HasRoute, Listener, Route

\* A step that leaves the routes alone, attaches none and begins no job.
LEMMA AttachedElsewhere ==
  ASSUME AttachedOK, UNCHANGED routeObj,
         \A r \in Routes : job'[r] \in {job[r], Idle},
         \A l \in Listeners : HasRoute(l)' => HasRoute(l) /\ UNCHANGED listeners[l].route
  PROVE  AttachedOK'
<1>1. AttachedIsOwned'
  BY DEF AttachedOK, AttachedIsOwned, HasRoute
<1>2. \A l \in Listeners : HasRoute(l)' => routeObj'[listeners'[l].route.name].parent = l
  BY DEF AttachedOK, AttachedShape
<1>3. ASSUME NEW r \in Routes
      PROVE  /\ job'[r] # Idle =>
                  /\ routeObj'[r].state # "absent" /\ routeObj'[r].ours
                  /\ job'[r].parent = routeObj'[r].parent
             /\ job'[r].task = "finalize" =>
                  \A l \in Listeners : HasRoute(l)' => listeners'[l].route.name # r
  BY DEF AttachedOK, AttachedShape, Idle
<1> QED BY <1>1, <1>2, <1>3 DEF AttachedOK, AttachedShape

\* A step that changes one route object, which keeps its parent and its
\* finalizer if it has one.
LEMMA AttachedObject ==
  ASSUME AttachedOK, ObjType, RegType, UNCHANGED <<job, listeners>>,
         NEW r \in Routes, NEW o, routeObj' = [routeObj EXCEPT ![r] = o],
         routeObj[r].state # "absent" /\ routeObj[r].ours =>
           o.state # "absent" /\ o.ours /\ o.parent = routeObj[r].parent
  PROVE  AttachedOK'
<1>1. routeObj'[r] = o /\ \A q \in Routes \ {r} : routeObj'[q] = routeObj[q]
  BY DEF ObjType
<1>2. \A l \in Listeners : HasRoute(l)' <=> HasRoute(l)
  BY DEF HasRoute
<1>3. AttachedIsOwned'
  BY <1>1, AttachedName DEF AttachedOK, AttachedIsOwned, HasRoute
<1>4. \A l \in Listeners : HasRoute(l)' => routeObj'[listeners'[l].route.name].parent = l
  BY <1>1, <1>2, AttachedName DEF AttachedOK, AttachedIsOwned, AttachedShape, HasRoute
<1>5. ASSUME NEW q \in Routes
      PROVE  /\ job'[q] # Idle =>
                  /\ routeObj'[q].state # "absent" /\ routeObj'[q].ours
                  /\ job'[q].parent = routeObj'[q].parent
             /\ job'[q].task = "finalize" =>
                  \A l \in Listeners : HasRoute(l)' => listeners'[l].route.name # q
  BY <1>1, <1>2 DEF AttachedOK, AttachedShape
<1> QED BY <1>3, <1>4, <1>5 DEF AttachedOK, AttachedShape

LEMMA AttachedUsers ==
  ASSUME "move" \notin Edits, TypeOK, AttachedOK, UserStep
  PROVE  AttachedOK'
<1>0. ObjType /\ RegType
  BY TypeParts
<1>1. UNCHANGED <<job, listeners>>
  BY DEF UserStep, CreateRoute, ChangeBackend, MoveRoute, DeleteRoute,
     CreateGateway, EditGateway, DeleteGateway, Edit, regVars
<1>2. CASE UNCHANGED routeObj
  BY <1>1, <1>2, AttachedElsewhere DEF HasRoute
<1>3. ASSUME NEW r \in Routes, NEW l \in Listeners, NEW b \in Backends,
             CreateRoute(r, l, b)
      PROVE  AttachedOK'
  BY <1>0, <1>1, <1>3, AttachedObject DEF CreateRoute
<1>4. ASSUME NEW r \in Routes, routeObj[r].state = "live"
      PROVE  routeObj[r] \in [state : {"live", "deleting"}, ours : BOOLEAN,
                              parent : Listeners, backend : Backends]
  BY <1>0, <1>4, RouteFields DEF ObjType
<1>5. ASSUME NEW r \in Routes, NEW b \in Backends, ChangeBackend(r, b)
      PROVE  AttachedOK'
  <2>1. routeObj' = [routeObj EXCEPT ![r] = [routeObj[r] EXCEPT !.backend = b]]
    BY <1>0, <1>5 DEF ChangeBackend, ObjType
  <2>2. /\ [routeObj[r] EXCEPT !.backend = b].state = routeObj[r].state
        /\ [routeObj[r] EXCEPT !.backend = b].ours = routeObj[r].ours
        /\ [routeObj[r] EXCEPT !.backend = b].parent = routeObj[r].parent
    BY <1>4, <1>5 DEF ChangeBackend
  <2> QED BY <1>0, <1>1, <2>1, <2>2, AttachedObject
<1>6. ASSUME NEW r \in Routes, DeleteRoute(r) PROVE AttachedOK'
  <2>1. CASE routeObj[r].ours
    <3>1. routeObj' = [routeObj EXCEPT ![r] = [routeObj[r] EXCEPT !.state = "deleting"]]
      BY <1>6, <2>1 DEF DeleteRoute
    <3>2. /\ [routeObj[r] EXCEPT !.state = "deleting"].state = "deleting"
          /\ [routeObj[r] EXCEPT !.state = "deleting"].ours = routeObj[r].ours
          /\ [routeObj[r] EXCEPT !.state = "deleting"].parent = routeObj[r].parent
      BY <1>4, <1>6 DEF DeleteRoute
    <3> QED BY <1>0, <1>1, <3>1, <3>2, AttachedObject
  <2>2. CASE ~routeObj[r].ours
    <3>1. routeObj' = [routeObj EXCEPT ![r] = NoObject]
      BY <1>6, <2>2 DEF DeleteRoute
    <3> QED BY <1>0, <1>1, <2>2, <3>1, AttachedObject
  <2> QED BY <2>1, <2>2
<1> QED BY <1>2, <1>3, <1>5, <1>6 DEF UserStep, MoveRoute, CreateGateway, EditGateway,
      DeleteGateway, Edit

\* A job that begins, goes on or ends, with what it read of its route.
LEMMA AttachedJob ==
  ASSUME AttachedOK, JobType, UNCHANGED <<routeObj, listeners>>,
         NEW r \in Routes, NEW j, job' = [job EXCEPT ![r] = j],
         routeObj[r].state # "absent" /\ routeObj[r].ours,
         j.parent = routeObj[r].parent,
         j.task = "finalize" =>
           \A l \in Listeners : HasRoute(l) => listeners[l].route.name # r
  PROVE  AttachedOK'
<1>1. job'[r] = j /\ \A q \in Routes \ {r} : job'[q] = job[q]
  BY DEF JobType, Objects
<1>2. \A l \in Listeners : HasRoute(l)' <=> HasRoute(l)
  BY DEF HasRoute
<1> QED BY <1>1, <1>2 DEF AttachedOK, AttachedIsOwned, AttachedShape, HasRoute

LEMMA AttachedReconciles ==
  ASSUME TypeOK, AttachedOK, NEW r \in Routes,
         SkipRoute(r) \/ ReconcileRoute(r) \/ RouteFinalized(r)
  PROVE  AttachedOK'
<1>0. ObjType /\ JobType /\ RegType
  BY TypeParts
<1>1. CASE SkipRoute(r)
  BY <1>1, AttachedElsewhere DEF SkipRoute, objVars, regVars, HasRoute
<1>2. CASE ReconcileRoute(r)
  <2>1. /\ routeObj' = [routeObj EXCEPT ![r] = [routeObj[r] EXCEPT !.ours = TRUE]]
        /\ routeObj[r].state # "absent" /\ UNCHANGED listeners
    BY <1>0, <1>2 DEF ReconcileRoute, ObjType, regVars
  <2>2. routeObj[r] \in [state : {"live", "deleting"}, ours : BOOLEAN,
                        parent : Listeners, backend : Backends]
    BY <1>0, <2>1, RouteFields DEF ObjType
  <2>3. /\ routeObj'[r].state # "absent" /\ routeObj'[r].ours
        /\ routeObj'[r].parent = routeObj[r].parent
        /\ \A q \in Routes \ {r} : routeObj'[q] = routeObj[q]
    BY <1>0, <2>1, <2>2 DEF ObjType
  <2>4. PICK t \in {"set", "remove"} :
          job' = [job EXCEPT ![r] = [task |-> t, parent |-> routeObj[r].parent,
                                     backend |-> routeObj[r].backend]]
    BY <1>2 DEF ReconcileRoute
  <2>5. /\ job'[r].task # "finalize" /\ job'[r].parent = routeObj[r].parent
        /\ \A q \in Routes \ {r} : job'[q] = job[q]
    BY <1>0, <2>4 DEF JobType, Objects
  <2>6. \A l \in Listeners : HasRoute(l)' <=> HasRoute(l)
    BY <2>1 DEF HasRoute
  <2>7. AttachedIsOwned'
    BY <1>0, <2>1, <2>3, <2>6, AttachedName DEF AttachedOK, AttachedIsOwned, HasRoute
  <2>8. \A l \in Listeners : HasRoute(l)' => routeObj'[listeners'[l].route.name].parent = l
    BY <1>0, <2>1, <2>3, <2>6, AttachedName DEF AttachedOK, AttachedShape
  <2> QED BY <2>1, <2>3, <2>5, <2>6, <2>7, <2>8 DEF AttachedOK, AttachedShape
\* Its finalizer goes, and it is attached nowhere.
<1>3. CASE RouteFinalized(r)
  <2>1. /\ routeObj' = [routeObj EXCEPT ![r] = NoObject]
        /\ job' = [job EXCEPT ![r] = Idle] /\ UNCHANGED listeners
    BY <1>3 DEF RouteFinalized, Finish, regVars
  <2>2. \A l \in Listeners : HasRoute(l) => listeners[l].route.name \in Routes \ {r}
    BY <1>0, <1>3, AttachedName DEF RouteFinalized, AttachedOK, AttachedShape
  <2>3. \A q \in Routes \ {r} : routeObj'[q] = routeObj[q] /\ job'[q] = job[q]
    BY <1>0, <2>1 DEF ObjType, JobType, Objects
  <2>4. job'[r] = Idle
    BY <1>0, <2>1 DEF JobType, Objects
  <2>5. \A l \in Listeners : HasRoute(l)' <=> HasRoute(l)
    BY <2>1 DEF HasRoute
  <2>6. AttachedIsOwned'
    BY <2>1, <2>2, <2>3, <2>5 DEF AttachedOK, AttachedIsOwned, HasRoute
  <2>7. \A l \in Listeners : HasRoute(l)' => routeObj'[listeners'[l].route.name].parent = l
    BY <2>1, <2>2, <2>3, <2>5 DEF AttachedOK, AttachedShape
  <2>8. job'[r].task # "finalize"
    BY <2>4 DEF Idle
  <2> QED BY <2>1, <2>3, <2>4, <2>5, <2>6, <2>7, <2>8 DEF AttachedOK, AttachedShape
<1> QED BY <1>1, <1>2, <1>3

\* What a listener forwards is set only while the locks are held.
LEMMA Detached ==
  ASSUME RegType, NEW l \in Listeners, listeners[l] # None,
         listeners' = [listeners EXCEPT ![l].route = None]
  PROVE  \A m \in Listeners : HasRoute(m)' =>
           m # l /\ HasRoute(m) /\ UNCHANGED listeners[m].route
<1>1. listeners' = [listeners EXCEPT ![l] = [listeners[l] EXCEPT !.route = None]]
  BY DEF RegType
<1>2. [listeners[l] EXCEPT !.route = None].route = None
  BY ListenerType DEF Listener
<1> QED BY <1>1, <1>2 DEF RegType, HasRoute

LEMMA AttachedLocks ==
  ASSUME TypeOK, AttachedOK, RegistryOK, NEW o \in Objects, LockStep(o)
  PROVE  AttachedOK'
<1>0. ObjType /\ JobType /\ RegType
  BY TypeParts
<1>1. CASE o \in Gateways /\ (HandleAddOrUpdateGateway(o) \/ HandleDeleteGateway(o))
  <2>1. PICK j : job' = [job EXCEPT ![o] = j]
    BY <1>1 DEF HandleAddOrUpdateGateway, HandleDeleteGateway, Finish
  <2>2. \A r \in Routes : job'[r] = job[r]
    BY <1>0, <1>1, <2>1, ObjectsAssumption DEF JobType, Objects
  <2>3. \A l \in Listeners : listeners'[l] = listeners[l] \/ ~HasRoute(l)'
    <3>1. CASE HandleAddOrUpdateGateway(o)
      <4>1. \A l \in Listeners :
              listeners'[l] = listeners[l] \/ listeners'[l] = NewListener(job[o].spec[l])
        BY <3>1 DEF HandleAddOrUpdateGateway
      <4>2. \A cfg : NewListener(cfg) = None \/ NewListener(cfg).route = None
        BY DEF NewListener
      <4> QED BY <4>1, <4>2 DEF HasRoute
    <3>2. CASE HandleDeleteGateway(o)
      BY <3>2 DEF HandleDeleteGateway, HasRoute
    <3> QED BY <1>1, <3>1, <3>2
  <2>4. UNCHANGED routeObj
    BY <1>1 DEF HandleAddOrUpdateGateway, HandleDeleteGateway, objVars
  <2> QED BY <2>2, <2>3, <2>4, AttachedElsewhere DEF HasRoute
<1>2. CASE o \in Routes /\ SetRoute(o)
  <2>1. job[o].parent \in Listeners
    BY <1>0, <1>2, RouteJobFields DEF SetRoute
  <2>2. \A r \in Routes : job'[r] \in {job[r], Idle}
    BY <1>0, <1>2 DEF SetRoute, Begin, Finish, JobType, Objects
  <2>3. \A l \in Listeners : HasRoute(l)' => HasRoute(l) /\ UNCHANGED listeners[l].route
    <3>1. CASE UNCHANGED listeners
      BY <3>1 DEF HasRoute
    <3>2. CASE /\ Found(job[o].parent)
               /\ listeners' = [listeners EXCEPT ![job[o].parent].route = None]
      BY <1>0, <2>1, <3>2, Detached DEF Found
    <3> QED BY <1>2, <3>1, <3>2 DEF SetRoute
  <2> QED BY <1>2, <2>2, <2>3, AttachedElsewhere DEF SetRoute, objVars
<1>3. CASE o \in Routes /\ RemoveRoute(o)
  <2> DEFINE l == job[o].parent
  <2>1. CASE Begin(o, "stop")
    BY <1>3, <2>1, AttachedElsewhere DEF RemoveRoute, Begin, HasRoute, objVars
  <2>2. CASE ~IsHere(o, l) /\ NotHere(o)
    <3>1. job' = [job EXCEPT ![o] = [job[o] EXCEPT !.task = "finalize"]]
      BY <1>0, <2>2 DEF NotHere, JobType
    <3>2. job[o] # Idle
      BY <1>3 DEF RemoveRoute, Idle
    <3>3. /\ routeObj[o].state # "absent" /\ routeObj[o].ours
          /\ l = routeObj[o].parent
      BY <1>3, <3>2 DEF AttachedOK, AttachedShape
    <3>4. [job[o] EXCEPT !.task = "finalize"].parent = routeObj[o].parent
      BY <1>0, <1>3, <3>3, RouteJobFields DEF RemoveRoute
    <3>5. \A m \in Listeners : HasRoute(m) => listeners[m].route.name # o
      <4> SUFFICES ASSUME NEW m \in Listeners, HasRoute(m), listeners[m].route.name = o
                   PROVE  IsHere(o, l)
        BY <2>2
      <4>1. m = l
        BY <3>3 DEF AttachedOK, AttachedShape
      <4> QED BY <4>1 DEF HasRoute, IsHere, Found, RegistryOK, RegistryIsOwned
    <3> QED BY <1>0, <1>3, <3>1, <3>3, <3>4, <3>5, AttachedJob DEF RemoveRoute, objVars
  <2> QED BY <1>3, <2>1, <2>2 DEF RemoveRoute
<1> QED BY <1>1, <1>2, <1>3 DEF LockStep

LEMMA AttachedCalls ==
  ASSUME TypeOK, CallShape, AttachedOK, NEW r \in Routes, NEW l \in Listeners,
         CallStep(r, l)
  PROVE  AttachedOK'
<1>0. ObjType /\ JobType /\ RegType
  BY TypeParts
<1>1. UNCHANGED routeObj /\ call # Free /\ call.by = r /\ l = job[r].parent
  BY DEF CallStep, StopRefused, StopFails, Stopped, Connects, ConnectFails,
     StartRefused, StartFails, Started, Holding, Free, objVars
<1>2. listeners[l] # None /\ job[r].task \in {"set", "remove"}
  BY <1>1 DEF CallShape
<1>3. /\ routeObj[r].state # "absent" /\ routeObj[r].ours
      /\ l = routeObj[r].parent
  <2>1. job[r] # Idle
    BY <1>2 DEF Idle
  <2> QED BY <1>1, <2>1 DEF AttachedOK, AttachedShape
<1>4. CASE UNCHANGED listeners
           /\ (job' = [job EXCEPT ![r] = Idle] \/ UNCHANGED job)
  <2>1. \A q \in Routes : job'[q] \in {job[q], Idle}
    BY <1>0, <1>4 DEF JobType, Objects
  <2> QED BY <1>1, <1>4, <2>1, AttachedElsewhere DEF HasRoute
\* RemoveRoute: the route is attached to its parent only, and no more there.
<1>5. CASE /\ listeners' = [listeners EXCEPT ![l].route = None]
           /\ job' = [job EXCEPT ![r].task = "finalize"]
  <2>1. \A m \in Listeners :
          HasRoute(m)' => m # l /\ HasRoute(m) /\ UNCHANGED listeners[m].route
    BY <1>0, <1>2, <1>5, Detached
  <2>2. job' = [job EXCEPT ![r] = [job[r] EXCEPT !.task = "finalize"]]
    BY <1>0, <1>5 DEF JobType
  <2>3. job[r] \in [task : {"set", "remove", "finalize"}, parent : Listeners,
                   backend : Backends]
    BY <1>0, <1>2, RouteJobFields
  <2>4. job'[r].parent = l /\ \A q \in Routes \ {r} : job'[q] = job[q]
    BY <1>0, <1>1, <2>2, <2>3 DEF JobType, Objects
  <2>5. \A m \in Listeners : HasRoute(m)' => listeners'[m].route.name # r
    BY <1>3, <2>1 DEF AttachedOK, AttachedShape
  <2>6. AttachedIsOwned'
    BY <1>1, <2>1 DEF AttachedOK, AttachedIsOwned, HasRoute
  <2>7. \A m \in Listeners : HasRoute(m)' => routeObj'[listeners'[m].route.name].parent = m
    BY <1>1, <2>1 DEF AttachedOK, AttachedShape
  <2>8. ASSUME NEW q \in Routes \ {r}
        PROVE  /\ job'[q] # Idle =>
                    /\ routeObj'[q].state # "absent" /\ routeObj'[q].ours
                    /\ job'[q].parent = routeObj'[q].parent
               /\ job'[q].task = "finalize" =>
                    \A m \in Listeners : HasRoute(m)' => listeners'[m].route.name # q
    BY <1>1, <2>1, <2>4 DEF AttachedOK, AttachedShape
  <2> QED BY <1>1, <1>3, <2>4, <2>5, <2>6, <2>7, <2>8 DEF AttachedOK, AttachedShape
\* SetRoute: the route is attached to its parent.
<1>6. CASE /\ listeners' = [listeners EXCEPT ![l].route = Wanted(r)]
           /\ job' = [job EXCEPT ![r] = Idle]
  <2>1. listeners' = [listeners EXCEPT ![l] = [listeners[l] EXCEPT !.route = Wanted(r)]]
    BY <1>0, <1>6 DEF RegType
  <2>2. [listeners[l] EXCEPT !.route = Wanted(r)].route = Wanted(r)
    BY <1>0, <1>2, ListenerType DEF Listener
  <2>3. listeners'[l].route.name = r /\ \A m \in Listeners \ {l} : listeners'[m] = listeners[m]
    BY <1>0, <2>1, <2>2 DEF RegType, Wanted
  <2>4. \A q \in Routes : job'[q] = Idle \/ (q # r /\ job'[q] = job[q])
    BY <1>0, <1>6 DEF JobType, Objects
  <2>5. AttachedIsOwned'
    BY <1>1, <1>3, <2>3 DEF AttachedOK, AttachedIsOwned
  <2>6. \A m \in Listeners : HasRoute(m)' => routeObj'[listeners'[m].route.name].parent = m
    BY <1>1, <1>3, <2>3 DEF AttachedOK, AttachedShape, HasRoute
  <2>7. ASSUME NEW q \in Routes
        PROVE  /\ job'[q] # Idle =>
                    /\ routeObj'[q].state # "absent" /\ routeObj'[q].ours
                    /\ job'[q].parent = routeObj'[q].parent
               /\ job'[q].task = "finalize" =>
                    \A m \in Listeners : HasRoute(m)' => listeners'[m].route.name # q
    BY <1>1, <2>3, <2>4 DEF AttachedOK, AttachedShape, HasRoute, Idle
  <2> QED BY <2>5, <2>6, <2>7 DEF AttachedOK, AttachedShape
<1> QED BY <1>4, <1>5, <1>6 DEF CallStep, StopRefused, StopFails, Stopped, Connects,
      ConnectFails, StartRefused, StartFails, Started, CallFails, Begin, Finish

LEMMA AttachedStep ==
  ASSUME "move" \notin Edits, TypeOK, CallShape, RegistryOK, AttachedOK, [Next]_vars
  PROVE  AttachedOK'
<1>0. ObjType /\ JobType /\ RegType
  BY TypeParts
<1>1. CASE UNCHANGED vars
  BY <1>1, AttachedElsewhere DEF vars, objVars, regVars, HasRoute
<1>2. CASE UserStep
  BY <1>2, AttachedUsers
<1>3. CASE SessionCloses
  BY <1>3, AttachedElsewhere DEF SessionCloses, objVars, regVars, HasRoute
<1>4. CASE Restart
  BY <1>4, AttachedElsewhere DEF Restart, objVars, NoSpec, Objects, HasRoute
<1>5. ASSUME NEW r \in Routes, RouteStep(r) PROVE AttachedOK'
  BY <1>5, AttachedReconciles, AttachedCalls DEF RouteStep
<1>6. ASSUME NEW g \in Gateways, GatewayStep(g) PROVE AttachedOK'
  <2>1. PICK j : job' = [job EXCEPT ![g] = j]
    BY <1>6 DEF GatewayStep, ReconcileGateway, GatewayReads, GatewayFinalized, Finish
  <2>2. \A r \in Routes : job'[r] = job[r]
    BY <1>0, <2>1, ObjectsAssumption DEF JobType, Objects
  <2>3. UNCHANGED <<routeObj, listeners>>
    BY <1>6 DEF GatewayStep, ReconcileGateway, GatewayReads, GatewayFinalized,
       objVars, regVars
  <2> QED BY <2>2, <2>3, AttachedElsewhere DEF HasRoute
<1>7. ASSUME NEW o \in Objects, LockStep(o) PROVE AttachedOK'
  BY <1>7, AttachedLocks
<1> QED BY <1>1, <1>2, <1>3, <1>4, <1>5, <1>6, <1>7 DEF Next, FaultStep

LEMMA AttachedHolds ==
  ASSUME "move" \notin Edits
  PROVE  Spec => []AttachedOK
<1>1. Init => RegistryOK /\ AttachedOK
  BY DEF Init, NoSpec, Idle, Objects, RegistryOK, RegistryIsOwned, RegistryShape,
     AttachedOK, AttachedIsOwned, AttachedShape, HasRoute
<1>2. TypeOK /\ CallShape /\ RegistryOK /\ AttachedOK /\ [Next]_vars
        => RegistryOK' /\ AttachedOK'
  BY RegistryStep, AttachedStep
<1> QED BY <1>1, <1>2, RouteTypes, PTL DEF Spec

(***************************************************************************)
(* While no route is moved to another listener, the finalizer of a route   *)
(* is removed only when no listener keeps it any more, whatever happens    *)
(* between the reading of the route and RemoveRoute: "Add a finalizer so   *)
(* we can correctly clean up the route when it's deleted".                 *)
(***************************************************************************)
THEOREM AttachedStaysOwned ==
  ASSUME "move" \notin Edits
  PROVE  Spec => []AttachedIsOwned
<1>1. AttachedOK => AttachedIsOwned
  BY DEF AttachedOK
<1> QED BY <1>1, AttachedHolds, PTL
===============================================================================
