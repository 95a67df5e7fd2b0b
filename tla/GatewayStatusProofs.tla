-------------------------- MODULE GatewayStatusProofs --------------------------
(***************************************************************************)
(* Theorems about GatewayStatus, for any listeners, classes and bounds.    *)
(***************************************************************************)
EXTENDS GatewayStatus, TLAPS

\* A forwarding is one of a listener that has a route: what handleAddOrUpdateGateway
\* looks at to decide whether there is something to stop.
ForwardingHasRoute ==
  \A f \in forwardings : listeners # None /\ listeners[f[2]].route # None

(***************************************************************************)
(* The inductive invariant.                                                *)
(***************************************************************************)
ServingInv == TypeOK /\ NeverDowngraded /\ ForwardingHasRoute

-------------------------------------------------------------------------------
\* Types of what the operators return.

LEMMA CreatedTypes ==
  ASSUME NEW cfg \in Configs PROVE createListener(cfg) \in Listener
BY DEF createListener, Derive, Listener, Rejected, Kinds

LEMMA ConfigTypes ==
  ASSUME NEW s \in Specs, NEW l \in Listeners PROVE s[l] \in Configs
BY DEF Specs

LEMMA ReasonTypes ==
  ASSUME TypeOK, listeners # None, NEW l \in Listeners, NEW c
  PROVE  Reason(l, c) \in Reasons
<1>1. listeners[l].reason \in Rejected \cup {None}
  BY DEF TypeOK, Listener
<1> QED BY <1>1 DEF Reason, Reasons

LEMMA StatusTypes ==
  ASSUME TypeOK, NEW st \in Status, NEW c \in Classes
  PROVE  /\ populateListenerStatuses(st, c) \in Status
         /\ updateGatewayAddresses(st) \in Status
         /\ AllProgrammed(c) \in BOOLEAN
         /\ \A b \in BOOLEAN : [st EXCEPT !.programmed = b] \in Status
BY ReasonTypes DEF populateListenerStatuses, updateGatewayAddresses, AllProgrammed, Status

LEMMA InitTypes == Init => TypeOK
<1> SUFFICES ASSUME Init PROVE TypeOK OBVIOUS
<1>1. PICK d \in Deployed : spec = d[1] /\ class = d[2] /\ wanted = d[3]
  BY DEF Init
<1>2. spec \in Specs /\ class \in Classes /\ wanted \in [Routes -> Wish \cup {None}]
  BY <1>1, DeployedAssumption
<1>3. status \in Status
  BY DEF Init, NoStatus, Status
<1>4. gwJob \in GatewayJobs /\ routeJob \in [Workers -> RouteJobs]
  BY DEF Init, AllIdle, GatewayJobs, RouteJobs
<1> QED BY <1>2, <1>3, <1>4, StatusAssumption DEF Init, TypeOK, Kinds

\* A job keeps its type when its copy is out of date.
LEMMA OutdatedTypes ==
  /\ \A j \in GatewayJobs : Outdated(j) \in GatewayJobs
  /\ \A j \in RouteJobs : Outdated(j) \in RouteJobs
<1>1. ASSUME NEW j \in GatewayJobs PROVE Outdated(j) \in GatewayJobs
  BY DEF Outdated, GatewayJobs, Idle
<1>2. ASSUME NEW j \in RouteJobs PROVE Outdated(j) \in RouteJobs
  BY DEF Outdated, RouteJobs, Idle
<1> QED BY <1>1, <1>2

LEMMA AllOutdatedTypes == TypeOK => AllOutdated \in [Workers -> RouteJobs]
BY OutdatedTypes DEF TypeOK, AllOutdated

\* One worker goes on with another job.
LEMMA JobTypes ==
  ASSUME TypeOK, NEW w \in Workers, NEW j \in RouteJobs
  PROVE  [routeJob EXCEPT ![w] = j] \in [Workers -> RouteJobs]
BY DEF TypeOK

LEMMA CountTypes ==
  ASSUME TypeOK
  PROVE  /\ Fault => faults' \in 0..MaxFaults
         /\ Edit => edits' \in 0..MaxEdits
BY StatusAssumption DEF TypeOK, Fault, Edit

LEMMA ConnectTypes ==
  ASSUME TypeOK, Connect
  PROVE  connected' \subseteq enabled /\ faults' \in 0..MaxFaults /\ connected \subseteq connected'
BY CountTypes DEF Connect, SomeConnect, TypeOK, Fault

LEMMA EditRouteTypes ==
  ASSUME TypeOK, NEW r \in Routes, NEW wish, EditRoute(r, wish)
  PROVE  TypeOK'
<1>1. wish \in Wish \cup {None}
  BY StatusAssumption DEF EditRoute
<1>2. wanted' \in [Routes -> Wish \cup {None}]
  BY <1>1 DEF EditRoute, TypeOK
<1> QED BY <1>2, CountTypes DEF EditRoute, Edit, TypeOK, poolVars

\* What users and the world do.
WorldStep ==
  \/ \E s \in Specs : EditGateway(s)
  \/ \E c \in Classes : EditClass(c)
  \/ \E r \in Routes, wish \in Wish : CreateRoute(r, wish) \/ ChangeBackend(r, wish)
  \/ \E r \in Routes : DeleteRoute(r)
  \/ \E k \in Kinds : SessionCloses(k)
  \/ Restart

LEMMA WorldTypes == TypeOK /\ WorldStep => TypeOK'
<1> SUFFICES ASSUME TypeOK, WorldStep PROVE TypeOK' OBVIOUS
<1>1. ASSUME NEW s \in Specs, EditGateway(s) PROVE TypeOK'
  BY <1>1, CountTypes, OutdatedTypes, AllOutdatedTypes DEF EditGateway, Edit, TypeOK, poolVars
<1>2. ASSUME NEW c \in Classes, EditClass(c) PROVE TypeOK'
  BY <1>2, CountTypes DEF EditClass, Edit, TypeOK, poolVars
<1>3. ASSUME NEW r \in Routes, NEW wish \in Wish,
             CreateRoute(r, wish) \/ ChangeBackend(r, wish)
      PROVE  TypeOK'
  BY <1>3, EditRouteTypes DEF CreateRoute, ChangeBackend
<1>4. ASSUME NEW r \in Routes, DeleteRoute(r) PROVE TypeOK'
  BY <1>4, EditRouteTypes DEF DeleteRoute
<1>5. ASSUME NEW k \in Kinds, SessionCloses(k) PROVE TypeOK'
  BY <1>5, CountTypes DEF SessionCloses, Drop, TypeOK, objVars
<1>6. CASE Restart
  BY <1>6, CountTypes, StatusAssumption
     DEF Restart, TypeOK, objVars, AllIdle, GatewayJobs, RouteJobs, Kinds
<1> QED BY <1>1, <1>2, <1>3, <1>4, <1>5, <1>6 DEF WorldStep

LEMMA IdleTypes == Idle \in GatewayJobs /\ Idle \in RouteJobs
BY DEF GatewayJobs, RouteJobs

LEMMA KindTypes == \A c : requiredSessionKinds(c) \subseteq Kinds
BY DEF requiredSessionKinds, Kinds

\* What handleAddOrUpdateGateway leaves in the registry.
LEMMA HandleTypes ==
  ASSUME TypeOK, handleAddOrUpdateGateway
  PROVE  listeners' \in [Listeners -> Listener]
<1>1. gwJob.spec \in Specs
  BY DEF handleAddOrUpdateGateway, TypeOK, GatewayJobs, Idle
<1>2. ASSUME NEW l \in Listeners
      PROVE  (IF Kept(l) THEN listeners[l] ELSE createListener(gwJob.spec[l])) \in Listener
  BY <1>1, CreatedTypes, ConfigTypes DEF Kept, TypeOK
<1> QED BY <1>2 DEF handleAddOrUpdateGateway

LEMMA GatewayStepTypes == TypeOK /\ GatewayStep => TypeOK'
<1> SUFFICES ASSUME TypeOK, GatewayStep PROVE TypeOK' OBVIOUS
<1> USE IdleTypes
<1>1. CASE ReconcileGateway
  <2>1. connected' \subseteq enabled /\ faults' \in 0..MaxFaults
    BY <1>1, ConnectTypes DEF ReconcileGateway, ensurePlainSSHSessionConnected, TypeOK
  <2>2. gwJob' \in GatewayJobs
    BY <1>1 DEF ReconcileGateway, TypeOK, GatewayJobs
  <2> QED BY <1>1, <2>1, <2>2 DEF ReconcileGateway, GatewayWorker, TypeOK
<1>2. CASE ConfigureSessions
  <2>1. gwJob' \in GatewayJobs
    BY <1>2 DEF ConfigureSessions, TypeOK, GatewayJobs, Idle
  <2>2. enabled' \subseteq Kinds /\ connected' \subseteq enabled' /\ faults' \in 0..MaxFaults
        /\ forwardings' \subseteq Kinds \X Listeners
    BY <1>2, KindTypes, CountTypes DEF ConfigureSessions, Drop, TypeOK
  <2> QED BY <1>2, <2>1, <2>2 DEF ConfigureSessions, GatewayWorker, TypeOK
<1>3. CASE reconnectRequiredSessions
  <2>1. connected' \subseteq enabled /\ faults' \in 0..MaxFaults
    BY <1>3, ConnectTypes DEF reconnectRequiredSessions, TypeOK
  <2>2. gwJob' \in GatewayJobs
    BY <1>3 DEF reconnectRequiredSessions, TypeOK, GatewayJobs, Idle
  <2> QED BY <1>3, <2>1, <2>2 DEF reconnectRequiredSessions, GatewayWorker, TypeOK
<1>4. CASE handleAddOrUpdateGateway
  <2>1. gwJob.spec \in Specs /\ gwJob.class \in Classes /\ gwJob.copy \in Status
        /\ gwJob.fresh \in BOOLEAN
    BY <1>4 DEF handleAddOrUpdateGateway, TypeOK, GatewayJobs, Idle
  <2>2. gwJob' \in GatewayJobs
    BY <1>4, <2>1 DEF handleAddOrUpdateGateway, GatewayJobs
  <2> QED BY <1>4, <2>2, HandleTypes DEF handleAddOrUpdateGateway, GatewayWorker, TypeOK
<1>5. CASE SetConditions
  <2>1. gwJob.class \in Classes /\ gwJob.copy \in Status /\ gwJob.fresh \in BOOLEAN
    BY <1>5 DEF SetConditions, TypeOK, GatewayJobs, Idle
  <2>2. gwJob' \in GatewayJobs
    <3> DEFINE all == AllProgrammed(gwJob.class)
               st  == populateListenerStatuses(gwJob.copy, gwJob.class)
    <3>1. all \in BOOLEAN /\ [st EXCEPT !.programmed = all] \in Status
      BY <2>1, StatusTypes
    <3>2. gwJob' = [pc |-> "addresses", changed |-> gwJob.copy.programmed # all,
                    copy |-> [st EXCEPT !.programmed = all], fresh |-> gwJob.fresh]
      BY <1>5 DEF SetConditions
    <3> HIDE DEF all, st
    <3> QED BY <2>1, <3>1, <3>2 DEF GatewayJobs
  <2> QED BY <1>5, <2>2 DEF SetConditions, GatewayWorker, TypeOK, poolVars
<1>6. CASE SetAddresses
  <2>1. gwJob.copy \in Status /\ gwJob.fresh \in BOOLEAN
    BY <1>6 DEF SetAddresses, TypeOK, GatewayJobs, Idle
  <2>2. updateGatewayAddresses(gwJob.copy) \in Status
    BY <2>1 DEF updateGatewayAddresses, Status
  <2>3. gwJob' \in GatewayJobs
    BY <1>6, <2>1, <2>2 DEF SetAddresses, GatewayJobs
  <2> QED BY <1>6, <2>3 DEF SetAddresses, GatewayWorker, TypeOK, poolVars
<1>7. CASE WriteGatewayStatus
  <2>1. gwJob.copy \in Status
    BY <1>7 DEF WriteGatewayStatus, TypeOK, GatewayJobs, Idle
  <2>2. /\ status' \in Status /\ routeJob' \in [Workers -> RouteJobs]
        /\ faults' \in 0..MaxFaults
    BY <1>7, <2>1, AllOutdatedTypes, CountTypes
       DEF WriteGatewayStatus, Saves, NotSaved, TypeOK
  <2> QED BY <1>7, <2>2 DEF WriteGatewayStatus, GatewayWorker, TypeOK, poolVars
<1> QED BY <1>1, <1>2, <1>3, <1>4, <1>5, <1>6, <1>7 DEF GatewayStep

\* A listener whose route is set or cleared.
LEMMA ListenerRouteTypes ==
  ASSUME TypeOK, listeners # None, NEW l \in Listeners, NEW route \in Route \cup {None},
         SetListenerRoute(l, route)
  PROVE  listeners' \in [Listeners -> Listener]
<1>1. [listeners[l] EXCEPT !.route = route] \in Listener
  BY DEF TypeOK, Listener
<1> QED BY <1>1 DEF TypeOK, SetListenerRoute

LEMMA RouteOfTypes ==
  ASSUME TypeOK, NEW r \in Routes, wanted[r] # None
  PROVE  RouteOf(r) \in Route /\ wanted[r].parent \in Listeners
BY DEF TypeOK, RouteOf, Route, Wish

LEMMA SucceedsTypes ==
  ASSUME TypeOK, NEW r \in Routes
  PROVE  /\ Succeeds(r) => routeJob' \in [Workers -> RouteJobs]
         /\ WorkerOf[r] \in Workers
<1>1. WorkerOf[r] \in Workers /\ [pc |-> "get"] \in RouteJobs
  BY StatusAssumption DEF RouteJobs
<1> QED BY <1>1, JobTypes DEF Succeeds

LEMMA SomeConnectTypes ==
  ASSUME TypeOK, SomeConnect
  PROVE  connected' \subseteq enabled /\ connected \subseteq connected'
BY DEF SomeConnect

LEMMA AttachTypes ==
  ASSUME TypeOK, listeners # None, NEW r \in Routes, wanted[r] # None,
         Attach(r, wanted[r].parent)
  PROVE  /\ listeners' \in [Listeners -> Listener]
         /\ connected' \subseteq enabled /\ connected \subseteq connected'
         /\ forwardings' \subseteq Kinds \X Listeners
         /\ routeJob' \in [Workers -> RouteJobs] /\ faults' \in 0..MaxFaults
<1> DEFINE l == wanted[r].parent
           k == listeners[l].kind
<1>1. l \in Listeners /\ RouteOf(r) \in Route /\ k \in Kinds
  <2>1. l \in Listeners /\ RouteOf(r) \in Route
    BY RouteOfTypes
  <2> QED BY <2>1 DEF TypeOK, Listener
<1>2. \/ /\ Connects(k) /\ SetListenerRoute(l, RouteOf(r)) /\ Succeeds(r)
         /\ forwardings' = forwardings \cup {<<k, l>>}
      \/ /\ \/ Connects(k)
            \/ Fault /\ (UNCHANGED connected \/ SomeConnect)
         /\ SetListenerRoute(l, None) /\ UNCHANGED <<forwardings, routeJob>>
  BY DEF Attach
<1>3. /\ connected' \subseteq enabled /\ connected \subseteq connected'
      /\ faults' \in 0..MaxFaults
  BY <1>2, ConnectTypes, SomeConnectTypes, CountTypes DEF Connects, TypeOK
<1>4. listeners' \in [Listeners -> Listener]
  BY <1>1, <1>2, ListenerRouteTypes
<1>5. forwardings' \subseteq Kinds \X Listeners
  BY <1>1, <1>2 DEF TypeOK
<1>6. routeJob' \in [Workers -> RouteJobs]
  BY <1>2, SucceedsTypes DEF TypeOK
<1> QED BY <1>3, <1>4, <1>5, <1>6

LEMMA ReplaceTypes ==
  ASSUME TypeOK, listeners # None, NEW r \in Routes, wanted[r] # None,
         Replace(r, wanted[r].parent)
  PROVE  /\ listeners' \in [Listeners -> Listener] /\ connected' = connected
         /\ forwardings' \subseteq forwardings
         /\ routeJob' \in [Workers -> RouteJobs] /\ faults' \in 0..MaxFaults
<1> DEFINE l == wanted[r].parent
<1>1. l \in Listeners /\ RouteOf(r) \in Route
  BY RouteOfTypes
<1>2. \/ SetListenerRoute(l, RouteOf(r)) /\ Succeeds(r) /\ UNCHANGED <<forwardings, faults>>
      \/ /\ Fault /\ forwardings' \subseteq forwardings
         /\ UNCHANGED <<listeners, routeJob>>
  BY DEF Replace
<1>3. listeners' \in [Listeners -> Listener]
  BY <1>1, <1>2, ListenerRouteTypes DEF TypeOK
<1>4. routeJob' \in [Workers -> RouteJobs] /\ faults' \in 0..MaxFaults
  BY <1>2, SucceedsTypes, CountTypes DEF TypeOK
<1> QED BY <1>2, <1>3, <1>4 DEF Replace

LEMMA RouteStepTypes ==
  ASSUME TypeOK, NEW w \in Workers, RouteStep(w) PROVE TypeOK'
<1> USE IdleTypes
<1>1. ASSUME NEW r \in Routes, SetRoute(r) PROVE TypeOK'
  <2>1. listeners # None /\ wanted[r] # None
        /\ (Attach(r, wanted[r].parent) \/ Replace(r, wanted[r].parent))
    BY <1>1 DEF SetRoute
  <2>2. /\ listeners' \in [Listeners -> Listener] /\ connected' \subseteq enabled
        /\ forwardings' \subseteq Kinds \X Listeners
        /\ routeJob' \in [Workers -> RouteJobs] /\ faults' \in 0..MaxFaults
    BY <2>1, AttachTypes, ReplaceTypes DEF TypeOK
  <2> QED BY <1>1, <2>2 DEF SetRoute, RouteWorker, TypeOK
<1>2. ASSUME NEW r \in Routes, RemoveRoute(r) PROVE TypeOK'
  <2>1. PICK l \in Listeners :
          /\ Names(l, r) /\ forwardings' \subseteq forwardings
          /\ \/ SetListenerRoute(l, None) /\ Succeeds(r) /\ UNCHANGED faults
             \/ Fault /\ UNCHANGED <<listeners, routeJob>>
    BY <1>2 DEF RemoveRoute
  <2>2. listeners # None
    BY <2>1 DEF Names
  <2>3. listeners' \in [Listeners -> Listener]
    BY <2>1, <2>2, ListenerRouteTypes DEF TypeOK
  <2>4. routeJob' \in [Workers -> RouteJobs] /\ faults' \in 0..MaxFaults
    BY <2>1, SucceedsTypes, CountTypes DEF TypeOK
  <2> QED BY <1>2, <2>1, <2>3, <2>4 DEF RemoveRoute, RouteWorker, TypeOK
<1>3. CASE FetchGateway(w)
  <2>1. status \in Status /\ populateListenerStatuses(status, class) \in Status
    BY StatusTypes DEF TypeOK
  <2>2. \A st \in Status : [pc |-> "addresses", fresh |-> TRUE, copy |-> st] \in RouteJobs
    BY DEF RouteJobs
  <2>3. routeJob' \in [Workers -> RouteJobs]
    BY <1>3, <2>1, <2>2, JobTypes DEF FetchGateway
  <2> QED BY <1>3, <2>3, CountTypes DEF FetchGateway, RouteWorker, TypeOK
<1>4. CASE FillAddresses(w)
  <2>1. routeJob[w] \in [pc : {"addresses", "write"}, copy : Status, fresh : BOOLEAN]
    BY <1>4 DEF FillAddresses, TypeOK, RouteJobs, Idle
  <2>2. updateGatewayAddresses(routeJob[w].copy) \in Status
    BY <2>1 DEF updateGatewayAddresses, Status
  <2>3. [pc |-> "write", fresh |-> routeJob[w].fresh,
         copy |-> updateGatewayAddresses(routeJob[w].copy)] \in RouteJobs
    BY <2>1, <2>2 DEF RouteJobs
  <2>4. routeJob' \in [Workers -> RouteJobs]
    BY <1>4, <2>3, JobTypes DEF FillAddresses
  <2> QED BY <1>4, <2>4 DEF FillAddresses, RouteWorker, TypeOK
<1>5. CASE WriteFromRoute(w)
  <2>1. routeJob[w].copy \in Status
    BY <1>5 DEF WriteFromRoute, TypeOK, RouteJobs, Idle
  <2>2. routeJob' \in [Workers -> RouteJobs]
    BY <1>5, AllOutdatedTypes, JobTypes DEF WriteFromRoute
  <2>3. status' \in Status /\ gwJob' \in GatewayJobs /\ faults' \in 0..MaxFaults
    BY <1>5, <2>1, OutdatedTypes, CountTypes
       DEF WriteFromRoute, Saves, NotSaved, TypeOK
  <2> QED BY <1>5, <2>2, <2>3 DEF WriteFromRoute, RouteWorker, TypeOK
<1> QED BY <1>1, <1>2, <1>3, <1>4, <1>5 DEF RouteStep

LEMMA NextTypes == TypeOK /\ [Next]_vars => TypeOK'
<1>1. TypeOK /\ UNCHANGED vars => TypeOK'
  BY DEF TypeOK, vars, objVars, poolVars
<1> QED BY <1>1, WorldTypes, GatewayStepTypes, RouteStepTypes DEF Next, WorldStep

(***************************************************************************)
(* The objects, the registry, the pool and all workers keep their types;   *)
(* a session is connected only while the pool has a manager for it.        *)
(***************************************************************************)
THEOREM StatusTypesHold == Spec => []TypeOK
<1> QED BY InitTypes, NextTypes, PTL DEF Spec

-------------------------------------------------------------------------------
\* Forwardings.

LEMMA InitServing == Init => ServingInv
BY InitTypes DEF Init, ServingInv, NeverDowngraded, ForwardingHasRoute

\* A step that starts no forwarding, and stops those it takes the session or
\* the listener from.
LEMMA FewerForwardings ==
  ASSUME ServingInv, forwardings' \subseteq forwardings,
         \A f \in forwardings' :
           /\ f[1] \in connected'
           /\ listeners' # None
           /\ listeners'[f[2]] = listeners[f[2]]
  PROVE  NeverDowngraded' /\ ForwardingHasRoute'
BY DEF ServingInv, NeverDowngraded, ForwardingHasRoute

LEMMA WorldServes ==
  ASSUME ServingInv, WorldStep PROVE NeverDowngraded' /\ ForwardingHasRoute'
<1>1. CASE UNCHANGED <<listeners, poolVars>>
  BY <1>1, FewerForwardings DEF poolVars, ServingInv, NeverDowngraded
<1>2. ASSUME NEW k \in Kinds, SessionCloses(k)
      PROVE  NeverDowngraded' /\ ForwardingHasRoute'
  BY <1>2, FewerForwardings DEF SessionCloses, Drop, ServingInv, NeverDowngraded
<1>3. CASE Restart
  BY <1>3, FewerForwardings DEF Restart
<1>4. CASE \/ \E s \in Specs : EditGateway(s)
           \/ \E c \in Classes : EditClass(c)
           \/ \E r \in Routes, wish \in Wish : CreateRoute(r, wish) \/ ChangeBackend(r, wish)
           \/ \E r \in Routes : DeleteRoute(r)
  BY <1>1, <1>4
     DEF EditGateway, EditClass, CreateRoute, ChangeBackend, DeleteRoute, EditRoute, Edit
<1> QED BY <1>2, <1>3, <1>4 DEF WorldStep

LEMMA GatewayServes ==
  ASSUME ServingInv, GatewayStep PROVE NeverDowngraded' /\ ForwardingHasRoute'
<1> USE DEF ServingInv
<1>1. CASE ReconcileGateway
  <2>1. connected \subseteq connected'
    BY <1>1, ConnectTypes DEF ReconcileGateway, ensurePlainSSHSessionConnected
  <2> QED BY <1>1, <2>1, FewerForwardings DEF ReconcileGateway, NeverDowngraded
<1>2. CASE ConfigureSessions
  <2>1. \A f \in forwardings' : f \in forwardings /\ f[1] \in connected'
    BY <1>2 DEF ConfigureSessions, Drop, NeverDowngraded, TypeOK
  <2> QED BY <1>2, <2>1, FewerForwardings DEF ConfigureSessions, NeverDowngraded
<1>3. CASE reconnectRequiredSessions
  <2>1. connected \subseteq connected'
    BY <1>3, ConnectTypes DEF reconnectRequiredSessions
  <2> QED BY <1>3, <2>1, FewerForwardings DEF reconnectRequiredSessions, NeverDowngraded
<1>4. CASE handleAddOrUpdateGateway
  <2>1. ASSUME NEW f \in forwardings'
        PROVE  f \in forwardings /\ f[1] \in connected' /\ listeners' # None
               /\ listeners'[f[2]] = listeners[f[2]]
    <3>1. f \in forwardings /\ f \notin Abandoned /\ f \in Kinds \X Listeners
      BY <1>4, <2>1 DEF handleAddOrUpdateGateway, TypeOK
    <3>2. listeners # None /\ listeners[f[2]].kind = f[1] /\ listeners[f[2]].route # None
          /\ f[1] \in connected /\ f[2] \in Listeners
      BY <3>1 DEF NeverDowngraded, ForwardingHasRoute
    <3>3. f = <<listeners[f[2]].kind, f[2]>>
      BY <3>1, <3>2
    <3>4. Kept(f[2])
      BY <3>1, <3>2, <3>3 DEF Abandoned
    <3>5. listeners' # None
      BY <1>4, HandleTypes, StatusAssumption
    <3> QED BY <1>4, <3>1, <3>2, <3>4, <3>5 DEF handleAddOrUpdateGateway
  <2> QED BY <2>1, FewerForwardings
<1>5. CASE SetConditions \/ SetAddresses \/ WriteGatewayStatus
  BY <1>5, FewerForwardings
     DEF SetConditions, SetAddresses, WriteGatewayStatus, poolVars, NeverDowngraded
<1> QED BY <1>1, <1>2, <1>3, <1>4, <1>5 DEF GatewayStep

\* Only the route of a listener is set.
LEMMA RouteIsSet ==
  ASSUME TypeOK, listeners # None, NEW l \in Listeners, NEW route \in Route \cup {None},
         SetListenerRoute(l, route)
  PROVE  /\ listeners' # None
         /\ \A x \in Listeners : x # l => listeners'[x] = listeners[x]
         /\ listeners'[l].kind = listeners[l].kind
         /\ listeners'[l].reason = listeners[l].reason
         /\ listeners'[l].route = route
<1>1. listeners' # None
  BY ListenerRouteTypes, StatusAssumption
<1>2. listeners \in [Listeners -> Listener]
  BY DEF TypeOK
<1> QED BY <1>1, <1>2 DEF SetListenerRoute, Listener

LEMMA AttachServes ==
  ASSUME ServingInv, listeners # None, NEW r \in Routes, wanted[r] # None,
         listeners[wanted[r].parent].reason = None, Attach(r, wanted[r].parent)
  PROVE  NeverDowngraded' /\ ForwardingHasRoute'
<1> USE DEF ServingInv
<1> DEFINE l == wanted[r].parent
           k == listeners[l].kind
<1>1. l \in Listeners /\ RouteOf(r) \in Route /\ RouteOf(r) # None
  BY RouteOfTypes, StatusAssumption
<1>2. connected \subseteq connected'
  BY AttachTypes
<1>3. ASSUME NEW f \in forwardings
      PROVE  /\ f[2] \in Listeners /\ f[2] # l
             /\ f[1] \in connected' /\ listeners[f[2]].kind = f[1]
             /\ listeners[f[2]].reason = None /\ listeners[f[2]].route # None
  <2>1. f \in Kinds \X Listeners /\ f[1] \in connected /\ listeners[f[2]].kind = f[1]
        /\ listeners[f[2]].reason = None /\ listeners[f[2]].route # None
    BY DEF TypeOK, NeverDowngraded, ForwardingHasRoute
  <2>2. f[2] # l
    <3> SUFFICES ASSUME f[2] = l PROVE FALSE OBVIOUS
    <3>1. f = <<k, l>>
      BY <2>1
    <3> QED BY <3>1 DEF Attach, Forwarded
  <2> QED BY <1>2, <2>1, <2>2
<1>4. CASE /\ k \in connected' /\ forwardings' = forwardings \cup {<<k, l>>}
           /\ SetListenerRoute(l, RouteOf(r))
  <2>1. /\ listeners' # None
        /\ \A x \in Listeners : x # l => listeners'[x] = listeners[x]
        /\ listeners'[l].kind = k /\ listeners'[l].reason = None
        /\ listeners'[l].route # None
    BY <1>1, <1>4, RouteIsSet
  <2>2. ASSUME NEW f \in forwardings'
        PROVE  /\ f[1] \in connected' /\ listeners'[f[2]].kind = f[1]
               /\ listeners'[f[2]].reason = None /\ listeners'[f[2]].route # None
    <3>1. CASE f \in forwardings
      BY <1>3, <2>1, <3>1
    <3>2. CASE f = <<k, l>>
      BY <1>4, <2>1, <3>2
    <3> QED BY <1>4, <2>2, <3>1, <3>2
  <2> QED BY <2>1, <2>2 DEF NeverDowngraded, ForwardingHasRoute
<1>5. CASE SetListenerRoute(l, None) /\ forwardings' = forwardings
  <2>1. listeners' # None /\ \A x \in Listeners : x # l => listeners'[x] = listeners[x]
    BY <1>1, <1>5, RouteIsSet
  <2> QED BY <1>3, <1>5, <2>1, FewerForwardings
<1> QED BY <1>4, <1>5 DEF Attach

LEMMA ReplaceServes ==
  ASSUME ServingInv, listeners # None, NEW r \in Routes, wanted[r] # None,
         Replace(r, wanted[r].parent)
  PROVE  NeverDowngraded' /\ ForwardingHasRoute'
<1> USE DEF ServingInv
<1> DEFINE l == wanted[r].parent
<1>1. l \in Listeners /\ RouteOf(r) \in Route /\ RouteOf(r) # None
  BY RouteOfTypes, StatusAssumption
<1>2. CASE SetListenerRoute(l, RouteOf(r)) /\ UNCHANGED <<forwardings, connected>>
  <2>1. /\ listeners' # None
        /\ \A x \in Listeners : x # l => listeners'[x] = listeners[x]
        /\ listeners'[l].kind = listeners[l].kind
        /\ listeners'[l].reason = listeners[l].reason
        /\ listeners'[l].route # None
    BY <1>1, <1>2, RouteIsSet
  <2>2. \A f \in forwardings : f[2] \in Listeners
    BY DEF TypeOK
  <2> QED BY <1>2, <2>1, <2>2 DEF NeverDowngraded, ForwardingHasRoute
<1>3. CASE forwardings' \subseteq forwardings /\ UNCHANGED <<listeners, connected>>
  BY <1>3, FewerForwardings DEF NeverDowngraded
<1> QED BY <1>2, <1>3 DEF Replace

LEMMA RouteServes ==
  ASSUME ServingInv, NEW w \in Workers, RouteStep(w)
  PROVE  NeverDowngraded' /\ ForwardingHasRoute'
<1> USE DEF ServingInv
<1>1. ASSUME NEW r \in Routes, SetRoute(r)
      PROVE  NeverDowngraded' /\ ForwardingHasRoute'
  BY <1>1, AttachServes, ReplaceServes DEF SetRoute
<1>2. ASSUME NEW r \in Routes, RemoveRoute(r)
      PROVE  NeverDowngraded' /\ ForwardingHasRoute'
  <2>1. PICK l \in Listeners :
          /\ Names(l, r) /\ forwardings' = forwardings \ {<<listeners[l].kind, l>>}
          /\ SetListenerRoute(l, None) \/ UNCHANGED listeners
    BY <1>2 DEF RemoveRoute
  <2>2. listeners # None
    BY <2>1 DEF Names
  <2>3. \A f \in forwardings' : f \in forwardings /\ f[2] \in Listeners /\ f[2] # l
    BY <2>1 DEF TypeOK, NeverDowngraded
  <2>4. listeners' # None /\ \A f \in forwardings' : listeners'[f[2]] = listeners[f[2]]
    BY <2>1, <2>2, <2>3, RouteIsSet
  <2>5. connected' = connected
    BY <1>2 DEF RemoveRoute
  <2> QED BY <2>3, <2>4, <2>5, FewerForwardings DEF NeverDowngraded
<1>3. CASE FetchGateway(w) \/ FillAddresses(w) \/ WriteFromRoute(w)
  BY <1>3, FewerForwardings
     DEF FetchGateway, FillAddresses, WriteFromRoute, NeverDowngraded
<1> QED BY <1>1, <1>2, <1>3 DEF RouteStep

(***************************************************************************)
(* No forwarding is ever on another session than the one its listener is   *)
(* bound to, nor on one that is gone, nor there for a rejected listener.   *)
(***************************************************************************)
THEOREM ServedOnItsSession == Spec => []NeverDowngraded
<1>1. ServingInv /\ [Next]_vars => ServingInv'
  <2> SUFFICES ASSUME ServingInv, [Next]_vars PROVE ServingInv' OBVIOUS
  <2>1. TypeOK'
    BY NextTypes DEF ServingInv
  <2>2. ASSUME UNCHANGED vars PROVE NeverDowngraded' /\ ForwardingHasRoute'
    BY <2>2 DEF vars, poolVars, ServingInv, NeverDowngraded, ForwardingHasRoute
  <2>3. ASSUME Next PROVE NeverDowngraded' /\ ForwardingHasRoute'
    BY <2>3, WorldServes, GatewayServes, RouteServes DEF Next, WorldStep
  <2> QED BY <2>1, <2>2, <2>3 DEF ServingInv
<1>2. ServingInv => NeverDowngraded
  BY DEF ServingInv
<1> QED BY <1>1, <1>2, InitServing, PTL DEF Spec
===============================================================================
