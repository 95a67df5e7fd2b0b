-------------------------- MODULE TunnelManagerProps --------------------------
(***************************************************************************)
(* What an SSHTunnelManager guarantees its callers, and what its own       *)
(* comments and documents say of it.                                       *)
(***************************************************************************)
EXTENDS TunnelManager

Waiting == {"precancel", "request", "undo", "stop", "stopcancel"}

\* The calls that have registered a notification channel.
HasWaiter == {"precancel", "request", "await", "register", "undo"}

Message ==
  [req : {"start", "cancel"}, key : Keys,
   waiter : {"op", "orphan", "nobody"}, reply : {"none", "ok", "denied"}]

Reader == [uris : SUBSET URIs, targets : SUBSET Keys, stale : SUBSET Keys]

(***************************************************************************)
(* Every variable keeps its type.                                          *)
(***************************************************************************)
TypeOK ==
  /\ connected \in BOOLEAN
  /\ transport \in {"up", "mute", "down"}
  /\ capture \in {"opening", "reading", "ended"}
  /\ forwardings \in [Keys -> Requests \cup {NoFwd}]
  /\ assignedAddrs \in [Keys -> SUBSET URIs]
  /\ addrNotifications \in [Keys -> Seq(SUBSET URIs) \cup {NoChan}]
  /\ op \in [step : Steps, fwd : Requests \cup {NoFwd}, todo : SUBSET Keys]
  /\ orphan \in [Keys -> {"none", "spawned", "sending"}]
  /\ opened \subseteq Keys
  /\ wire \in Seq(Message)
  /\ bound \subseteq Keys
  /\ out \subseteq SUBSET URIs
  /\ readers \in [Readers -> Reader]
  /\ panicked \in BOOLEAN

(***************************************************************************)
(* A call runs on the connection it found: no request, registration or     *)
(* address survives closeClient, and nothing is registered while           *)
(* disconnected.                                                           *)
(***************************************************************************)
NothingOutlivesConnection ==
  ~connected => /\ op = IdleOp /\ wire = <<>>
                /\ Registered = {}
                /\ \A k \in Keys : assignedAddrs[k] = {}

(***************************************************************************)
(* A forwarding that asks for a hostname, or for its port, is registered   *)
(* only with URIs that satisfy the request, however the output of the      *)
(* server was split, delayed or broadcast.                                 *)
(***************************************************************************)
RegisteredIsVerified ==
  \A k \in Registered :
    NeedsVerification(forwardings[k]) =>
      assignedAddrs[k] # {} /\ Accepts(forwardings[k], assignedAddrs[k])

(***************************************************************************)
(* GetAssignedAddresses never answers for a forwarding that is not         *)
(* registered, except for the one whose StartForwarding is returning.      *)
(***************************************************************************)
AddressesAreRegistered ==
  \A k \in Keys : assignedAddrs[k] # {} =>
    k \in Registered \/ (op.step = "register" /\ opKey = k)

(***************************************************************************)
(* The addresses a forwarding was registered with are accepted again by    *)
(* isForwardingValid at every later reconciliation of its route.  The two  *)
(* checks are written in different packages, with different lists of       *)
(* wildcard names; were the second stricter, every reconciliation would    *)
(* drop the route and start its forwarding again.                          *)
(***************************************************************************)
StoredStaysValid ==
  \A k \in Registered :
    assignedAddrs[k] # {} => ForwardingValid(forwardings[k], assignedAddrs[k])

(***************************************************************************)
(* A notification channel is registered exactly while its StartForwarding  *)
(* runs, so a later chunk is never queued for a call that has returned,    *)
(* and no reader holds an open channel that is not registered.             *)
(***************************************************************************)
ChannelHasItsCall ==
  /\ \A k \in Waiters : op.step \in HasWaiter /\ opKey = k
  /\ op.step \in HasWaiter => opKey \in Waiters
  /\ \A r \in Readers : readers[r].targets \subseteq Waiters

(***************************************************************************)
(* Where the call that holds the lock can be: the part of the inductive    *)
(* invariant that ties it to the tables.                                   *)
(***************************************************************************)
CallShape ==
  /\ op.step = "idle" => op = IdleOp
  /\ op.step \notin {"idle", "stopall"} => op.fwd \in Requests
  /\ op.step \in HasWaiter \cup {"capture"} => opKey \notin Registered
  /\ op.step = "register" =>
       \/ assignedAddrs[opKey] = {} /\ ~NeedsVerification(op.fwd)
       \/ assignedAddrs[opKey] # {} /\ Accepts(op.fwd, assignedAddrs[opKey])
  /\ op.todo \subseteq Registered
  /\ \A k \in Registered : KeyOf(forwardings[k]) = k

SafeInv ==
  /\ TypeOK
  /\ CallShape
  /\ ChannelHasItsCall
  /\ NothingOutlivesConnection
  /\ RegisteredIsVerified
  /\ AddressesAreRegistered

(***************************************************************************)
(* When the lock is free on a healthy connection, every registered         *)
(* forwarding is bound at the server: no abandoned, late or pre-emptive    *)
(* cancel can take it down.  (This is with no client opening channels on   *)
(* unregistered keys, whose orphan goroutine may cancel one that was       *)
(* registered since.)                                                      *)
(***************************************************************************)
RegisteredIsBound ==
  op.step = "idle" /\ transport = "up" => Registered \subseteq bound

(***************************************************************************)
(* Why it is so: only the oldest request is ever answered, the waiting     *)
(* call's request is the newest, nothing is on the wire once a start has   *)
(* been accepted, and no unanswered cancel is queued for a registered key. *)
(***************************************************************************)
WireShape ==
  /\ \A i \in 1..Len(wire) :
       /\ wire[i].reply # "none" => i = 1
       /\ wire[i].waiter # "orphan"
       /\ wire[i].waiter = "op" =>
            /\ i = Len(wire) /\ wire[i].key = opKey
            /\ op.step \in Waiting
            /\ wire[i].req = "start" <=> op.step = "request"
  /\ op.step \in {"await", "register"} => wire = <<>>
  /\ opened = {} /\ \A k \in Keys : orphan[k] = "none"

BoundShape ==
  /\ op.step \notin {"stopall", "stopcancel"} =>
       \A k \in Registered :
         /\ k \in bound
         /\ \A i \in 1..Len(wire) :
              wire[i].key = k /\ wire[i].req = "cancel"
                => wire[i].reply # "none"
  /\ op.step \in {"await", "register"} => opKey \in bound
  /\ wire # <<>> /\ op.step = "request" /\ wire[1].waiter = "op"
       /\ wire[1].reply = "ok" => opKey \in bound

Bindings == WireShape /\ BoundShape

(***************************************************************************)
(* The manager implements the abstract forwarding table; an address stored *)
(* for a call that has not returned yet is not in the table.               *)
(***************************************************************************)
KnownAddrs ==
  [k \in Keys |-> IF k \in Registered THEN assignedAddrs[k] ELSE {}]

Table == INSTANCE ForwardingTable WITH
  open <- connected, table <- forwardings, addr <- KnownAddrs,
  Acceptable <- MayStore

ImplementsTable == Table!Spec

(***************************************************************************)
(* Every call that takes clientMu returns: StartForwarding, StopForwarding *)
(* and Stop all end whatever the server does, once capture sessions open.  *)
(***************************************************************************)
CallsReturn == []<>(op.step = "idle")

(***************************************************************************)
(* "With timeout: Connection is detected as failed within 20 seconds.      *)
(* Result: Fast reconnection instead of lingering in broken state"         *)
(* (ARCHITECTURE.md, keepalive monitoring).                                *)
(***************************************************************************)
FailureIsDetected == transport \in {"mute", "down"} /\ connected ~> ~connected

(***************************************************************************)
(* notifyURIWaiters: "Channel full or no receiver, skip": handing a chunk  *)
(* to a channel nobody listens on any more is harmless.                    *)
(***************************************************************************)
NotifyingIsHarmless == ~panicked
===============================================================================
