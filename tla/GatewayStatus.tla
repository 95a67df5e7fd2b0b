----------------------------- MODULE GatewayStatus -----------------------------
(***************************************************************************)
(* What the status of a Gateway says of its listeners, and the sessions    *)
(* its GatewayClass enables (controllers/gateway_controller.go).  Two      *)
(* kinds of worker write the status: the Gateway reconciler, when the      *)
(* conditions or the addresses have changed, and a route reconciler (there *)
(* is one for each kind of route) whenever it attached or detached a route.*)
(*                                                                         *)
(* The registry is read by populateListenerStatuses without a lock and     *)
(* again by updateGatewayAddresses with it, while sessions come and go.    *)
(* Objects are versioned as in RouteStatus ("fresh"); a read that the      *)
(* cache answers late is a read followed by somebody else's write.         *)
(*                                                                         *)
(* One Gateway, whose listeners differ in port and hostname; attaching and *)
(* detaching are in GatewayRoutes step by step and here one step, with     *)
(* each outcome its calls may have together.  Routes are created, deleted  *)
(* and get other backends; moves are in GatewayRoutes.                     *)
(***************************************************************************)
EXTENDS FiniteSets, Naturals

CONSTANTS
  Listeners,
  ConfigsOf,     \* [Listeners -> the Configs a user may choose from]
  Classes,       \* what a GatewayClass may enable, [pp, sni]
  Routes, Backends,
  WishesOf,      \* [Routes -> what users may make it ask for, None to delete it]
  Workers,       \* the route reconcilers
  WorkerOf,      \* [Routes -> Workers]
  Deployed,      \* what there is at first: listeners, class and routes
  None,
  MaxEdits,      \* bound on edits of Gateway, class and routes
  MaxFaults      \* bound on lost sessions, failed calls and restarts

Kinds     == {"plain", "pp", "sni"}
\* opt: the listener-proxy-protocol annotation for TCP, Passthrough for TLS.
Configs   == [protocol : {"HTTP", "HTTPS", "TCP", "TLS"}, opt : BOOLEAN]
Rejected  == {"UnsupportedTLSMode", "UnsupportedListenerProtocol"}
Reasons   == Rejected \cup {"Programmed", "Pending", "SessionNotEnabled"}
Status    == [listeners : [Listeners -> Reasons \cup {None}],
              programmed : BOOLEAN \cup {None},
              addresses : SUBSET Listeners]
Route     == [name : Routes, backend : Backends]
Listener  == [kind : Kinds, reason : Rejected \cup {None}, route : Route \cup {None}]
Wish      == [parent : Listeners, backend : Backends]

ASSUME StatusAssumption ==
  /\ MaxEdits \in Nat /\ MaxFaults \in Nat
  /\ ConfigsOf \in [Listeners -> SUBSET Configs]
  /\ Classes \subseteq [pp : BOOLEAN, sni : BOOLEAN]
  /\ WishesOf \in [Routes -> SUBSET (Wish \cup {None})] /\ WorkerOf \in [Routes -> Workers]
  /\ None \notin Reasons /\ None \notin BOOLEAN /\ None \notin Route
  /\ None \notin Wish /\ None \notin [Listeners -> Listener]

VARIABLES
  spec,        \* the Gateway's listeners and annotations
  status,      \* its status at the API server
  class,       \* the annotations of its GatewayClass
  wanted,      \* what each route asks for, None if there is none or it is deleted
  listeners,   \* the registry, or None before the Gateway is in it
  enabled,     \* kinds the pool has a manager for
  connected,   \* kinds whose manager is connected
  forwardings, \* <<kind, listener>>: a forwarding with an address
  gwJob,
  routeJob,    \* [Workers -> job]
  edits, faults

objVars  == <<spec, status, class, wanted>>
poolVars == <<enabled, connected, forwardings>>
vars == <<objVars, listeners, poolVars, gwJob, routeJob, edits, faults>>

Idle == [pc |-> "idle"]
AllIdle == [w \in Workers |-> Idle]

\* deriveListenerSession
Derive(cfg) ==
  [kind |-> IF cfg.protocol = "TCP" /\ cfg.opt THEN "pp"
            ELSE IF cfg.protocol = "TLS" /\ cfg.opt THEN "sni" ELSE "plain",
   reason |-> IF cfg.protocol = "HTTPS" THEN "UnsupportedListenerProtocol"
              ELSE IF cfg.protocol = "TLS" /\ ~cfg.opt THEN "UnsupportedTLSMode"
              ELSE None]

createListener(cfg) ==
  [kind |-> Derive(cfg).kind, reason |-> Derive(cfg).reason, route |-> None]

requiredSessionKinds(c) ==
  {"plain"} \cup (IF c.pp THEN {"pp"} ELSE {}) \cup (IF c.sni THEN {"sni"} ELSE {})

Specs == {s \in [Listeners -> Configs] : \A l \in Listeners : s[l] \in ConfigsOf[l]}

ASSUME DeployedAssumption ==
  Deployed \subseteq Specs \X Classes \X [Routes -> Wish \cup {None}]

NoStatus == [listeners |-> [l \in Listeners |-> None], programmed |-> None,
             addresses |-> {}]

Init ==
  /\ \E d \in Deployed : spec = d[1] /\ class = d[2] /\ wanted = d[3]
  /\ status = NoStatus
  /\ listeners = None
  /\ enabled = {"plain"} /\ connected = {"plain"} /\ forwardings = {}
  /\ gwJob = Idle /\ routeJob = AllIdle
  /\ edits = 0 /\ faults = 0

-------------------------------------------------------------------------------
\* Users and the world.

\* What a worker's copy of the Gateway is after somebody wrote the object.
Outdated(job) ==
  IF job.pc \in {"idle", "get"} THEN job ELSE [job EXCEPT !.fresh = FALSE]

AllOutdated == [w \in Workers |-> Outdated(routeJob[w])]

Edit ==
  /\ edits < MaxEdits /\ edits' = edits + 1
  /\ UNCHANGED <<status, listeners, poolVars, faults>>

EditGateway(s) ==
  /\ Edit /\ s # spec /\ spec' = s
  /\ gwJob' = Outdated(gwJob) /\ routeJob' = AllOutdated
  /\ UNCHANGED <<class, wanted>>

EditClass(c) ==
  /\ Edit /\ c # class /\ class' = c
  /\ UNCHANGED <<spec, wanted, gwJob, routeJob>>

Names(l, r) ==
  listeners # None /\ listeners[l].route # None /\ listeners[l].route.name = r

EditRoute(r, wish) ==
  /\ Edit /\ wish \in WishesOf[r] /\ wanted' = [wanted EXCEPT ![r] = wish]
  /\ UNCHANGED <<spec, class, gwJob, routeJob>>

\* The object of a deleted route, and so its name, stays until RemoveRoute has
\* succeeded or found nothing.
CreateRoute(r, wish) ==
  /\ wanted[r] = None /\ \A l \in Listeners : ~Names(l, r)
  /\ EditRoute(r, wish)

ChangeBackend(r, wish) ==
  /\ wanted[r] # None /\ wish.parent = wanted[r].parent /\ wish # wanted[r]
  /\ EditRoute(r, wish)

DeleteRoute(r) == wanted[r] # None /\ EditRoute(r, None)

Fault == faults < MaxFaults /\ faults' = faults + 1

\* The forwardings of these kinds are gone.
Drop(kinds) == forwardings' = {f \in forwardings : f[1] \notin kinds}

SessionCloses(k) ==
  /\ Fault /\ k \in connected
  /\ connected' = connected \ {k} /\ Drop({k})
  /\ UNCHANGED <<objVars, listeners, enabled, gwJob, routeJob, edits>>

Restart ==
  /\ Fault
  /\ listeners' = None /\ gwJob' = Idle /\ routeJob' = AllIdle
  /\ enabled' = {"plain"} /\ connected' = {} /\ forwardings' = {}
  /\ UNCHANGED <<objVars, edits>>

\* pool.Connect: all managers, or those that can be for now.
SomeConnect == connected' \in {some \in SUBSET enabled : connected \subseteq some}

Connect ==
  \/ connected' = enabled /\ UNCHANGED faults
  \/ Fault /\ SomeConnect

-------------------------------------------------------------------------------
\* The status, as both workers compute it.

\* listenerProgrammedCondition
Reason(l, c) ==
  CASE listeners[l].reason # None -> listeners[l].reason
    [] listeners[l].kind = "pp" /\ ~c.pp -> "SessionNotEnabled"
    [] listeners[l].kind = "sni" /\ ~c.sni -> "SessionNotEnabled"
    [] OTHER -> IF listeners[l].kind \in connected THEN "Programmed" ELSE "Pending"

\* A Gateway that is not registered keeps the listener statuses it had.
populateListenerStatuses(st, c) ==
  IF listeners = None THEN st
  ELSE [st EXCEPT !.listeners =
          [l \in Listeners |-> Reason(l, c)]]

AllProgrammed(c) ==
  listeners = None \/ \A l \in Listeners : Reason(l, c) = "Programmed"

updateGatewayAddresses(st) ==
  IF listeners = None THEN st
  ELSE [st EXCEPT !.addresses =
          {l \in Listeners : /\ listeners[l].reason = None
                             /\ <<listeners[l].kind, l>> \in forwardings}]

\* Status().Update by the worker whose job is given; the other one's copy is
\* out of date then.
Saves(job) == job.fresh /\ status' = job.copy

NotSaved(job) ==
  /\ UNCHANGED status
  /\ (~job.fresh /\ UNCHANGED faults) \/ (job.fresh /\ Fault)

-------------------------------------------------------------------------------
\* The Gateway reconciler, which comes back periodically.

GatewayWorker == UNCHANGED <<spec, class, wanted, edits>>

ensurePlainSSHSessionConnected ==
  \/ "plain" \in connected /\ UNCHANGED <<connected, faults>>
  \/ "plain" \notin connected /\ Connect

\* Reconcile reads the Gateway and its class once the plain session is there.
ReconcileGateway ==
  /\ GatewayWorker /\ gwJob = Idle
  /\ ensurePlainSSHSessionConnected
  /\ gwJob' = IF "plain" \in connected'
                THEN [pc |-> "configure", spec |-> spec, class |-> class,
                      copy |-> status, fresh |-> TRUE]
                ELSE Idle
  /\ UNCHANGED <<status, listeners, enabled, forwardings, routeJob>>

\* Mutant: a session that is not wanted any more is forgotten, not stopped.
ConfigureSessions_Forgets ==
  /\ GatewayWorker /\ gwJob.pc = "configure"
  /\ enabled' = requiredSessionKinds(gwJob.class)
  /\ connected' = connected \cup (enabled' \ enabled)
  /\ gwJob' = [gwJob EXCEPT !.pc = "reconnect"]
  /\ UNCHANGED <<status, listeners, forwardings, routeJob, faults>>

\* pool.ConfigureSessions: a kind that is not wanted is stopped, one that is
\* new is opened, connected or not.
ConfigureSessions ==
  /\ GatewayWorker /\ gwJob.pc = "configure"
  /\ LET want == requiredSessionKinds(gwJob.class) IN
     /\ enabled' = want
     /\ \/ connected' = (connected \cap want) \cup (want \ enabled) /\ UNCHANGED faults
        \/ Fault /\ want \ enabled # {} /\ connected' = connected \cap want
     /\ Drop(enabled \ want)
  /\ gwJob' = [gwJob EXCEPT !.pc = "reconnect"]
  /\ UNCHANGED <<status, listeners, routeJob>>

reconnectRequiredSessions ==
  /\ GatewayWorker /\ gwJob.pc = "reconnect"
  /\ \/ requiredSessionKinds(gwJob.class) \subseteq connected
        /\ UNCHANGED <<connected, faults>>
     \/ ~(requiredSessionKinds(gwJob.class) \subseteq connected) /\ Connect
  /\ gwJob' = IF requiredSessionKinds(gwJob.class) \subseteq connected'
                THEN [gwJob EXCEPT !.pc = "register"] ELSE Idle
  /\ UNCHANGED <<status, listeners, enabled, forwardings, routeJob>>

\* Port and hostname do not change here.
Kept(l) == listeners # None /\ listeners[l].kind = Derive(gwJob.spec[l]).kind

\* Mutant: a listener that moves to another session leaves its forwarding.
Abandoned_Kept == {}

\* Forwardings stopped because their listener changed.
Abandoned ==
  IF listeners = None THEN {}
  ELSE {<<listeners[l].kind, l>> : l \in {m \in Listeners : listeners[m].route # None /\ ~Kept(m)}}

handleAddOrUpdateGateway ==
  /\ GatewayWorker /\ gwJob.pc = "register"
  /\ listeners' = [l \in Listeners |->
       IF Kept(l) THEN listeners[l] ELSE createListener(gwJob.spec[l])]
  /\ forwardings' = forwardings \ Abandoned
  /\ gwJob' = [pc |-> "conditions", class |-> gwJob.class,
               copy |-> gwJob.copy, fresh |-> gwJob.fresh]
  /\ UNCHANGED <<status, enabled, connected, routeJob, faults>>

\* The first half of updateGatewayStatusIfChanged.
SetConditions ==
  /\ GatewayWorker /\ gwJob.pc = "conditions"
  /\ LET all == AllProgrammed(gwJob.class)
         st  == populateListenerStatuses(gwJob.copy, gwJob.class)
     IN gwJob' = [pc |-> "addresses", changed |-> gwJob.copy.programmed # all,
                  copy |-> [st EXCEPT !.programmed = all], fresh |-> gwJob.fresh]
  /\ UNCHANGED <<status, listeners, poolVars, routeJob, faults>>

\* Mutant: as many addresses as before are the same addresses.
gatewayAddressesEqual_Count(a, b) == Cardinality(a) = Cardinality(b)

gatewayAddressesEqual(a, b) == a = b

\* Mutant: conditions are written with the next change of the addresses.
Changed_AddressesOnly(old, new) == ~gatewayAddressesEqual(old, new)

Changed(old, new) == gwJob.changed \/ ~gatewayAddressesEqual(old, new)

SetAddresses ==
  /\ GatewayWorker /\ gwJob.pc = "addresses"
  /\ LET st == updateGatewayAddresses(gwJob.copy) IN
     gwJob' = IF Changed(gwJob.copy.addresses, st.addresses)
                THEN [pc |-> "write", copy |-> st, fresh |-> gwJob.fresh] ELSE Idle
  /\ UNCHANGED <<status, listeners, poolVars, routeJob, faults>>

\* An error is returned, and Reconcile is called again.
WriteGatewayStatus ==
  /\ GatewayWorker /\ gwJob.pc = "write"
  /\ \/ Saves(gwJob) /\ routeJob' = AllOutdated /\ UNCHANGED faults
     \/ NotSaved(gwJob) /\ UNCHANGED routeJob
  /\ gwJob' = Idle
  /\ UNCHANGED <<listeners, poolVars>>

GatewayStep ==
  \/ ReconcileGateway \/ ConfigureSessions \/ reconnectRequiredSessions
  \/ handleAddOrUpdateGateway \/ SetConditions \/ SetAddresses \/ WriteGatewayStatus

-------------------------------------------------------------------------------
\* The route reconcilers: SetRoute and RemoveRoute under the locks, and then
\* updateGatewayStatus without them.

RouteWorker == UNCHANGED <<spec, class, wanted, enabled, edits>>

RouteOf(r)   == [name |-> r, backend |-> wanted[r].backend]
Forwarded(l) == <<listeners[l].kind, l>> \in forwardings

SetListenerRoute(l, route) == listeners' = [listeners EXCEPT ![l].route = route]

\* The call succeeded; the status is next.
Succeeds(r) == routeJob' = [routeJob EXCEPT ![WorkerOf[r]] = [pc |-> "get"]]

\* IsConnected, or Connect and IsConnected again.
Connects(k) ==
  \/ k \in connected /\ UNCHANGED <<connected, faults>>
  \/ k \notin connected /\ Connect

\* The listener has no route, or the one asked for without its forwarding, which
\* is forgotten first.  StartForwarding may fail.
Attach(r, l) ==
  /\ listeners[l].route \in {None, RouteOf(r)} /\ ~Forwarded(l)
  /\ LET k == listeners[l].kind IN
     \/ /\ Connects(k) /\ k \in connected'
        /\ forwardings' = forwardings \cup {<<k, l>>}
        /\ SetListenerRoute(l, RouteOf(r)) /\ Succeeds(r)
     \/ /\ \/ Connects(k) /\ k \notin connected'
           \/ /\ k \in enabled /\ Fault
              /\ IF k \in connected THEN UNCHANGED connected ELSE SomeConnect
        /\ SetListenerRoute(l, None) /\ UNCHANGED <<forwardings, routeJob>>

\* Another route, or the same one with another backend, is stopped first.  If
\* that is not confirmed, or the start fails, the listener keeps the old route
\* without its forwarding, and to stop what is gone is an error at every retry.
Replace(r, l) ==
  /\ listeners[l].route \notin {None, RouteOf(r)} /\ Forwarded(l)
  /\ \/ /\ SetListenerRoute(l, RouteOf(r)) /\ Succeeds(r)
        /\ UNCHANGED <<forwardings, faults>>
     \/ /\ Fault /\ forwardings' = forwardings \ {<<listeners[l].kind, l>>}
        /\ UNCHANGED <<listeners, routeJob>>
  /\ UNCHANGED connected

SetRoute(r) ==
  /\ RouteWorker /\ routeJob[WorkerOf[r]] = Idle
  /\ listeners # None /\ wanted[r] # None
  /\ LET l == wanted[r].parent IN
     listeners[l].reason = None /\ (Attach(r, l) \/ Replace(r, l))
  /\ UNCHANGED <<status, gwJob>>

\* RemoveRoute of a deleted route; when StopForwarding does not succeed the
\* listener keeps it.
RemoveRoute(r) ==
  /\ RouteWorker /\ routeJob[WorkerOf[r]] = Idle /\ wanted[r] = None
  /\ \E l \in Listeners :
       /\ Names(l, r) /\ Forwarded(l)
       /\ forwardings' = forwardings \ {<<listeners[l].kind, l>>}
       /\ \/ SetListenerRoute(l, None) /\ Succeeds(r) /\ UNCHANGED faults
          \/ Fault /\ UNCHANGED <<listeners, routeJob>>
  /\ UNCHANGED <<status, connected, gwJob>>

\* updateGatewayStatus fetches the Gateway, or gives up, and its class, or does
\* without the listener statuses.
FetchGateway(w) ==
  /\ RouteWorker /\ routeJob[w].pc = "get"
  /\ LET Fetched(st) == [pc |-> "addresses", fresh |-> TRUE, copy |-> st] IN
     \/ /\ routeJob' = [routeJob EXCEPT ![w] =
                          Fetched(populateListenerStatuses(status, class))]
        /\ UNCHANGED faults
     \/ Fault /\ \E job \in {Idle, Fetched(status)} :
                   routeJob' = [routeJob EXCEPT ![w] = job]
  /\ UNCHANGED <<status, listeners, connected, forwardings, gwJob>>

FillAddresses(w) ==
  /\ RouteWorker /\ routeJob[w].pc = "addresses"
  /\ routeJob' = [routeJob EXCEPT ![w] =
       [pc |-> "write", fresh |-> @.fresh, copy |-> updateGatewayAddresses(@.copy)]]
  /\ UNCHANGED <<status, listeners, connected, forwardings, gwJob, faults>>

\* A failure is logged.
WriteFromRoute(w) ==
  /\ RouteWorker /\ routeJob[w].pc = "write"
  /\ \/ /\ Saves(routeJob[w]) /\ UNCHANGED faults
        /\ gwJob' = Outdated(gwJob) /\ routeJob' = [AllOutdated EXCEPT ![w] = Idle]
     \/ /\ NotSaved(routeJob[w])
        /\ routeJob' = [routeJob EXCEPT ![w] = Idle] /\ UNCHANGED gwJob
  /\ UNCHANGED <<listeners, connected, forwardings>>

RouteStep(w) ==
  \/ \E r \in Routes : WorkerOf[r] = w /\ (SetRoute(r) \/ RemoveRoute(r))
  \/ FetchGateway(w) \/ FillAddresses(w) \/ WriteFromRoute(w)

-------------------------------------------------------------------------------
Next ==
  \/ \E s \in Specs : EditGateway(s)
  \/ \E c \in Classes : EditClass(c)
  \/ \E r \in Routes, wish \in Wish : CreateRoute(r, wish) \/ ChangeBackend(r, wish)
  \/ \E r \in Routes : DeleteRoute(r)
  \/ \E k \in Kinds : SessionCloses(k)
  \/ Restart
  \/ GatewayStep
  \/ \E w \in Workers : RouteStep(w)

Spec == Init /\ [][Next]_vars

\* Every reconciler comes back periodically (RequeueAfter, errors).
Fairness == WF_vars(GatewayStep) /\ \A w \in Workers : WF_vars(RouteStep(w))

FairSpec == Spec /\ Fairness

-------------------------------------------------------------------------------
GatewayJobs ==
  {Idle} \cup
  [pc : {"configure", "reconnect", "register"},
   spec : Specs, class : Classes, copy : Status, fresh : BOOLEAN] \cup
  [pc : {"conditions"}, class : Classes, copy : Status, fresh : BOOLEAN] \cup
  [pc : {"addresses"}, changed : BOOLEAN, copy : Status, fresh : BOOLEAN] \cup
  [pc : {"write"}, copy : Status, fresh : BOOLEAN]

RouteJobs ==
  {Idle, [pc |-> "get"]} \cup
  [pc : {"addresses", "write"}, copy : Status, fresh : BOOLEAN]

(***************************************************************************)
(* The types of the objects, the registry, the pool and the workers;       *)
(* only sessions the pool has a manager for are connected.                 *)
(***************************************************************************)
TypeOK ==
  /\ spec \in Specs /\ status \in Status /\ class \in Classes
  /\ wanted \in [Routes -> Wish \cup {None}]
  /\ listeners \in [Listeners -> Listener] \cup {None}
  /\ enabled \subseteq Kinds /\ connected \subseteq enabled
  /\ forwardings \subseteq Kinds \X Listeners
  /\ gwJob \in GatewayJobs /\ routeJob \in [Workers -> RouteJobs]
  /\ edits \in 0..MaxEdits /\ faults \in 0..MaxFaults

(***************************************************************************)
(* A listener is never served by another session than the one it is bound  *)
(* to, and by none while it is rejected: no forwarding stays behind on the *)
(* session it had before an edit, and none survives its session.           *)
(***************************************************************************)
NeverDowngraded ==
  \A f \in forwardings :
    /\ f[1] \in connected
    /\ listeners # None
    /\ listeners[f[2]].kind = f[1] /\ listeners[f[2]].reason = None

\* What the Gateway, its class and the routes ask for.
Asked(l) ==
  CASE Derive(spec[l]).reason # None -> Derive(spec[l]).reason
    [] Derive(spec[l]).kind \notin requiredSessionKinds(class) -> "SessionNotEnabled"
    [] OTHER -> "Programmed"

Wants(r, l) == wanted[r] # None /\ wanted[r].parent = l

\* Two routes that name one listener replace each other at every reconciliation,
\* and write the status each time: nothing says then that the Gateway
\* reconciler's copy is ever the latest.
Contested == \E r, s \in Routes, l \in Listeners : r # s /\ Wants(r, l) /\ Wants(s, l)

\* The listener holds a route that nobody asks for any more (it was deleted, or
\* has another backend now) and whose forwarding went with its session or at a
\* call that failed.  Neither SetRoute nor RemoveRoute gets past StopForwarding.
Blocked(l) ==
  /\ listeners # None /\ listeners[l].route # None /\ ~Forwarded(l)
  /\ \A r \in Routes : Wants(r, l) => listeners[l].route # RouteOf(r)

(***************************************************************************)
(* When users come to rest, and no listener is contested, the addresses in *)
(* the status become those of the listeners that have a route, can be      *)
(* served and are not blocked, although sessions are torn down and rebuilt *)
(* for the class, the workers refuse each other's writes, and a route      *)
(* reconciler does not repeat a write that failed.                         *)
(***************************************************************************)
AddressesSettle ==
  <>[](\/ Contested
       \/ status.addresses =
            {l \in Listeners : /\ \E r \in Routes : Wants(r, l)
                               /\ Asked(l) = "Programmed" /\ ~Blocked(l)})

(***************************************************************************)
(* When users come to rest, and no listener is contested, the Gateway's    *)
(* Programmed condition becomes true or false according to whether all     *)
(* listeners can be served; the route reconcilers, which write the same    *)
(* status, never touch it.                                                 *)
(***************************************************************************)
ProgrammedSettles ==
  <>[](Contested \/ status.programmed = \A l \in Listeners : Asked(l) = "Programmed")

(***************************************************************************)
(* The same of the status of each listener.                                *)
(***************************************************************************)
ListenerStatusesSettle ==
  <>[](status.listeners = [l \in Listeners |-> Asked(l)])
===============================================================================
