------------------------------ MODULE RouteStatus ------------------------------
(***************************************************************************)
(* One route object and the reconciler that owns it: what a user, another  *)
(* controller and this one write to the same object, with the finalizer    *)
(* and the status entry of controllers/route_status.go.                    *)
(*                                                                         *)
(* Reads are served by the informer's cache, which follows the API server  *)
(* some time later.  Writes go to the API server, which refuses one whose  *)
(* copy is not the latest version: "fresh" says that a copy still is, so   *)
(* that no resource version needs to be counted.                           *)
(*                                                                         *)
(* httproute_controller.go, tcproute_controller.go and                     *)
(* tlsroute_controller.go are the same code for three types; each          *)
(* definition stands for all three.  What SetRoute and RemoveRoute do is   *)
(* in GatewayRoutes; here they have a result only.                         *)
(***************************************************************************)
EXTENDS Naturals

CONSTANTS
  Parents,      \* ParentReferences a user may give the route
  Theirs,       \* what another controller may write in the status
  None,         \* absence: of an entry or a condition
  MaxEdits,     \* bound on what users and other controllers do
  MaxFaults,    \* bound on API calls that fail
  Steps         \* attempts of RetryOnConflict (retry.DefaultBackoff)

Gens       == 1..(MaxEdits + 1)
Conditions == [ok : BOOLEAN, gen : Gens]
Entries    == [accepted : Conditions, resolved : Conditions \cup {None}]
RouteSpecs      == [parent : Parents, valid : BOOLEAN]
Status     == [ours : [Parents -> Entries \cup {None}], theirs : Theirs]
Live       == [gen : Gens, spec : RouteSpecs, owned : BOOLEAN, deleting : BOOLEAN,
               status : Status]
Absent     == [gen |-> 0]
Objects    == Live \cup {Absent}

ASSUME RouteAssumption ==
  /\ MaxEdits \in Nat /\ MaxFaults \in Nat /\ Steps \in Nat \ {0}
  /\ None \notin Entries \cup Conditions

VARIABLES
  server,    \* the object at the API server
  cache,     \* the object in the informer's cache
  synced,    \* the cache holds the latest version
  due,       \* a reconciliation is scheduled
  job,       \* the reconciliation in progress, or Idle
  gateway,   \* the parent Gateway as SetRoute finds it
  edits, faults

vars == <<server, cache, synced, due, job, gateway, edits, faults>>

Idle == [pc |-> "idle"]

\* "absent": neither the reconciler nor IsGatewayManaged finds it; "fails":
\* the forwarding cannot be started or stopped.
GatewayStates == {"absent", "pending", "accepted", "fails"}

NoStatus(theirs) == [ours |-> [p \in Parents |-> None], theirs |-> theirs]

NewObject(spec, theirs) ==
  [gen |-> 1, spec |-> spec, owned |-> FALSE, deleting |-> FALSE,
   status |-> NoStatus(theirs)]

Init ==
  /\ \E spec \in RouteSpecs, theirs \in Theirs : server = NewObject(spec, theirs)
  /\ cache = server /\ synced = TRUE
  /\ due = TRUE /\ job = Idle
  /\ gateway \in GatewayStates
  /\ edits = 0 /\ faults = 0

-------------------------------------------------------------------------------
\* The object is written: every other copy of it is out of date.
Write(o) ==
  /\ server' = o /\ synced' = FALSE

\* What the writer of o goes on with, everybody else's copy being stale.
Stale == IF job = Idle THEN Idle ELSE [job EXCEPT !.fresh = FALSE]

\* Users and other controllers.
Outside == edits < MaxEdits /\ edits' = edits + 1 /\ UNCHANGED <<cache, due, faults>>

EditSpec(spec) ==
  /\ Outside /\ server # Absent /\ spec # server.spec
  /\ Write([server EXCEPT !.spec = spec, !.gen = @ + 1])
  /\ job' = Stale /\ UNCHANGED gateway

TheyWrite(theirs) ==
  /\ Outside /\ server # Absent /\ theirs # server.status.theirs
  /\ Write([server EXCEPT !.status.theirs = theirs])
  /\ job' = Stale /\ UNCHANGED gateway

Delete ==
  /\ Outside /\ server # Absent /\ ~server.deleting
  /\ Write(IF server.owned THEN [server EXCEPT !.deleting = TRUE, !.gen = @ + 1]
                           ELSE Absent)
  /\ job' = Stale /\ UNCHANGED gateway

GatewayChanges(state) ==
  /\ Outside /\ state # gateway /\ gateway' = state
  /\ UNCHANGED <<server, synced, job>>

\* The watch delivers the latest version, and with it an event.
Sync ==
  /\ ~synced /\ synced' = TRUE /\ cache' = server /\ due' = TRUE
  /\ UNCHANGED <<server, job, gateway, edits, faults>>

\* The informer hands out its objects again from time to time.
Resync ==
  /\ ~due /\ cache # Absent /\ due' = TRUE
  /\ UNCHANGED <<server, cache, synced, job, gateway, edits, faults>>

-------------------------------------------------------------------------------
\* The reconciler.

Worker == UNCHANGED <<cache, gateway, edits>>

\* Return with RequeueAfter, or with an error, which requeues as well.
Finish == job' = Idle /\ due' = TRUE

Local == UNCHANGED <<server, synced, faults>>

\* Mutant: whether the Gateway is managed is asked of routes we own as well.
Skip_Owned ==
  /\ Worker /\ due /\ job = Idle
  /\ \/ cache = Absent
     \/ cache # Absent /\ gateway = "absent"
     \/ cache # Absent /\ ~cache.owned /\ cache.spec.valid /\ cache.deleting
  /\ due' = FALSE /\ UNCHANGED job /\ Local

\* Return ctrl.Result{}: no requeue.
Skip ==
  /\ Worker /\ due /\ job = Idle
  /\ \/ cache = Absent
     \/ /\ cache # Absent /\ ~cache.owned
        /\ gateway = "absent" \/ (cache.spec.valid /\ cache.deleting)
  /\ due' = FALSE /\ UNCHANGED job /\ Local

\* Reconcile up to its two handlers.  Route details that cannot be extracted
\* are an error: nothing happens but a retry.
Reconcile ==
  /\ Worker /\ due /\ job = Idle
  /\ cache # Absent /\ (cache.owned \/ (gateway # "absent" /\ ~cache.deleting))
  /\ cache.spec.valid
  /\ job' = [pc |-> IF cache.deleting THEN "remove" ELSE
                    IF cache.owned THEN "set" ELSE "own",
             copy |-> cache, fresh |-> synced,
             parent |-> cache.spec.parent, outcome |-> gateway, tries |-> 0]
  /\ UNCHANGED due /\ Local

\* The API server takes an update; one that changes nothing is not a new version.
Take(o) == server' = o /\ synced' = (synced /\ o = server)

\* An Update or Status().Update that the API server takes.
Saved(o) == job.fresh /\ Take(o) /\ UNCHANGED faults

\* One that it refuses, the copy being old, or one that fails for once, perhaps
\* only on the way back.
NotSaved(o) ==
  \/ ~job.fresh /\ UNCHANGED <<server, synced, faults>>
  \/ /\ job.fresh /\ faults < MaxFaults /\ faults' = faults + 1
     /\ (UNCHANGED <<server, synced>> \/ Take(o))

Owned == [server EXCEPT !.owned = TRUE]

\* Mutant: a failure to add the finalizer is ignored.
AddFinalizer_Ignored ==
  /\ Worker /\ job.pc = "own"
  /\ \/ /\ Saved(Owned)
        /\ job' = [job EXCEPT !.pc = "set", !.copy.owned = TRUE]
     \/ /\ NotSaved(Owned) /\ job' = [job EXCEPT !.pc = "set"]
  /\ UNCHANGED due

AddFinalizer ==
  /\ Worker /\ job.pc = "own"
  /\ \/ /\ Saved(Owned)
        /\ job' = [job EXCEPT !.pc = "set", !.copy.owned = TRUE]
        /\ UNCHANGED due
     \/ NotSaved(Owned) /\ Finish

\* Mutant: an entry that says the same of an older generation is left alone.
SameEntry_AnyGeneration(a, b) ==
  a # None /\ a.accepted.ok = b.accepted.ok

\* reflect.DeepEqual
SameEntry(a, b) == a = b

\* acceptedRouteConditions and pendingRouteConditions, put over the conditions
\* the entry has: pending leaves ResolvedRefs as it is.
Entry(old, outcome, gen) ==
  LET cond == [ok |-> outcome = "accepted", gen |-> gen] IN
  [accepted |-> cond,
   resolved |-> IF outcome = "accepted" THEN cond
                ELSE IF old = None THEN None ELSE old.resolved]

\* setOurRouteParentStatus on a copy of the object.
setOurRouteParentStatus(o) ==
  [o EXCEPT !.status.ours[job.parent] = Entry(@, job.outcome, o.gen)]

\* SetRoute and the first half of writeRouteParentStatus; an error other than
\* ErrGatewayNotReady and ErrGatewayNotFound leaves the status as it is.
SetRoute ==
  /\ Worker /\ job.pc = "set"
  /\ LET j   == [job EXCEPT !.outcome = gateway]
         old == job.copy.status.ours[job.parent]
         new == Entry(old, gateway, job.copy.gen)
     IN IF gateway = "fails" \/ SameEntry(old, new)
          THEN Finish
          ELSE /\ job' = [j EXCEPT !.pc = "update",
                                   !.copy.status.ours[job.parent] = new]
               /\ UNCHANGED due
  /\ Local

WithStatus == [server EXCEPT !.status = job.copy.status]

UpdateStatus ==
  /\ Worker /\ job.pc = "update"
  /\ \/ Saved(WithStatus) /\ Finish
     \/ NotSaved(WithStatus) /\ job' = [job EXCEPT !.pc = "refetch"] /\ UNCHANGED due

\* Mutant: the status computed before goes into the object fetched again.
Refetched_KeepsStatus(o) == [o EXCEPT !.status = job.copy.status]

\* The status is applied to the latest object.
Refetched(o) == setOurRouteParentStatus(o)

\* c.Get, again from the cache.  getRouteStatus knows an HTTPRoute and a
\* TCPRoute, but not the version of TLSRoute that is reconciled: that one is
\* written back as it was read.
Refetch ==
  /\ Worker /\ job.pc = "refetch"
  /\ IF cache = Absent
       THEN Finish
       ELSE /\ job' \in {[job EXCEPT !.pc = "again", !.fresh = synced, !.copy = o] :
                           o \in {Refetched(cache), cache}}
            /\ UNCHANGED due
  /\ Local

\* Mutant: conflicts are tried again without end.
UpdateAgain_NoLimit ==
  /\ Worker /\ job.pc = "again"
  /\ \/ Saved(WithStatus) /\ Finish
     \/ /\ NotSaved(WithStatus)
        /\ IF job.fresh
             THEN Finish
             ELSE /\ job' = [job EXCEPT !.pc = "update", !.tries = @ + 1]
                  /\ UNCHANGED due

\* The second update of an attempt: RetryOnConflict tries again after a
\* conflict, and any other error is logged.
UpdateAgain ==
  /\ Worker /\ job.pc = "again"
  /\ \/ Saved(WithStatus) /\ Finish
     \/ /\ NotSaved(WithStatus)
        /\ IF job.fresh \/ job.tries + 1 = Steps
             THEN Finish
             ELSE /\ job' = [job EXCEPT !.pc = "update", !.tries = @ + 1]
                  /\ UNCHANGED due

\* handleDeletion: RemoveRoute and the finalizer.
RemoveRoute ==
  /\ Worker /\ job.pc = "remove"
  /\ IF gateway = "fails" THEN Finish
     ELSE job' = [job EXCEPT !.pc = "disown"] /\ UNCHANGED due
  /\ Local

RemoveFinalizer ==
  /\ Worker /\ job.pc = "disown"
  /\ Saved(Absent) \/ NotSaved(Absent)
  /\ Finish

-------------------------------------------------------------------------------
WorkerStep ==
  \/ Skip \/ Reconcile
  \/ AddFinalizer \/ SetRoute
  \/ UpdateStatus \/ Refetch \/ UpdateAgain
  \/ RemoveRoute \/ RemoveFinalizer

Next ==
  \/ \E spec \in RouteSpecs : EditSpec(spec)
  \/ \E theirs \in Theirs : TheyWrite(theirs)
  \/ \E state \in GatewayStates : GatewayChanges(state)
  \/ Delete \/ Sync \/ Resync
  \/ WorkerStep

Spec == Init /\ [][Next]_vars

\* The watch, the work queue and the periodic resync of controller-runtime.
Fairness == WF_vars(Sync) /\ WF_vars(Resync) /\ WF_vars(WorkerStep)

FairSpec == Spec /\ Fairness

-------------------------------------------------------------------------------
Jobs ==
  {Idle} \cup
  [pc : {"own", "set", "update", "refetch", "again", "remove", "disown"},
   copy : Live, fresh : BOOLEAN, parent : Parents, outcome : GatewayStates,
   tries : 0..(Steps - 1)]

(***************************************************************************)
(* The types of the object, its two copies and the reconciliation: the     *)
(* object at hand is never one that is gone, and a status that meets       *)
(* conflicts is not tried more than Steps times.                           *)
(***************************************************************************)
TypeOK ==
  /\ server \in Objects /\ cache \in Objects
  /\ synced \in BOOLEAN /\ due \in BOOLEAN
  /\ job \in Jobs
  /\ gateway \in GatewayStates
  /\ edits \in 0..MaxEdits /\ faults \in 0..MaxFaults

(***************************************************************************)
(* A route is attached only while the object at the API server carries the *)
(* finalizer, so that no forwarding outlives the route: the reconciler     *)
(* knows the object from a cache and adds the finalizer with a write that  *)
(* may be refused.                                                         *)
(***************************************************************************)
AttachesOnlyOwned ==
  job # Idle /\ job.pc \in {"set", "update", "refetch", "again"} =>
    server # Absent /\ server.owned

(***************************************************************************)
(* Whatever copy it started from, a write of this controller changes       *)
(* neither what a user wrote nor the status entries of another controller, *)
(* nor its own entry for another parent.                                   *)
(***************************************************************************)
OthersKept ==
  [][WorkerStep /\ server' # server /\ server' # Absent =>
       /\ server'.spec = server.spec /\ server'.gen = server.gen
       /\ server'.deleting = server.deleting
       /\ server'.status.theirs = server.status.theirs
       /\ \A p \in Parents \ {job.parent} :
            server'.status.ours[p] = server.status.ours[p]]_vars

(***************************************************************************)
(* A route that carries our finalizer is never left to itself: until the   *)
(* finalizer is off, a reconciliation is scheduled or an event is on its   *)
(* way, although Reconcile gives up routes it believes are not ours, and   *)
(* believes what an old copy says.  Waiting for the informer to hand its   *)
(* objects out again is for routes we do not own.                          *)
(***************************************************************************)
OwnedIsWatched == server # Absent /\ server.owned => due \/ ~synced

\* The status says what SetRoute makes of the route as it is.
StatusIsCurrent ==
  LET e == server.status.ours[server.spec.parent]
      cond == [ok |-> gateway = "accepted", gen |-> server.gen]
  IN e # None /\ e.accepted = cond /\ (cond.ok => e.resolved = cond)

Reconcilable == server.spec.valid /\ gateway # "fails"

(***************************************************************************)
(* When users and Gateways come to rest, the status entry for the route's  *)
(* parent settles on the outcome and the generation of the route as it is, *)
(* and a deleted route is gone, whatever writes were refused or lost on    *)
(* the way and wherever the reconciler had skipped the route.  Left out    *)
(* are routes whose details are invalid, or whose forwarding cannot be     *)
(* started or stopped: their status is not written.                        *)
(***************************************************************************)
StatusSettles ==
  <>[](server # Absent /\ Reconcilable /\ (gateway # "absent" \/ server.owned) =>
         ~server.deleting /\ StatusIsCurrent)
===============================================================================
