----------------------------- MODULE TunnelManager -----------------------------
(***************************************************************************)
(* One SSHTunnelManager (ssh/ssh_tunnel_manager.go) with the goroutines it *)
(* starts and the SSH server it talks to.                                  *)
(*                                                                         *)
(* clientMu is a read-write lock.  Connect, StartForwarding,               *)
(* StopForwarding, Stop and the monitor's closeClient hold it for writing, *)
(* the first three through every request they send and every reply they    *)
(* wait for; "op" is the call that holds it.  The goroutine that cancels   *)
(* an orphan forwarding holds it for reading while it waits.  The readers  *)
(* of the server's output never take it.                                   *)
(*                                                                         *)
(* Requests reach the server one at a time (the SSH library serialises     *)
(* global requests that want a reply), in the order they were issued; a    *)
(* request whose caller timed out stays queued with nobody waiting for it. *)
(***************************************************************************)
EXTENDS AddressMatch, FiniteSets

CONSTANTS
  Requests,      \* ForwardingConfigs [host, port, backend, enforce]
  NoFwd,         \* no forwarding under a key
  NoChan,        \* no notification channel under a key
  Announce(_),   \* the URIs the server may print for a key
  Readers,       \* goroutines reading the server's output
  VisitedKeys,   \* keys whose public address clients connect to
  MuteDuringCapture, \* the server may fall silent while a session is opened
  NotifSize,     \* addrNotificationChannelSize
  MaxOut,        \* bound on output chunks not yet read
  MaxPending     \* bound on requests queued when a call starts

KeyOf(fwd) == [host |-> fwd.host, port |-> fwd.port]   \* forwardingKey
Keys == {KeyOf(fwd) : fwd \in Requests}
URIs == UNION {Announce(k) : k \in Keys}

ASSUME AbsentAssumption ==
  NoFwd \notin Requests /\ NoChan \notin Seq(SUBSET URIs)

\* getRemoteAddress recognises no other scheme.
ASSUME SchemeAssumption == \A u \in URIs : IsHTTP(u) \/ IsTCP(u)

VARIABLES
  connected,          \* m.connected; m.client is nil exactly when FALSE
  transport,          \* the connection: "up", "mute" (hung server) or "down"
  capture,            \* captureServerOutput: "opening", "reading" or "ended"
  forwardings,        \* [Keys -> Requests \cup {NoFwd}]
  assignedAddrs,      \* [Keys -> set of URIs], {} when there is no entry
  addrNotifications,  \* [Keys -> queue of URI sets, or NoChan]
  op,                 \* the call holding clientMu for writing
  orphan,             \* [Keys -> the goroutine cancelling an orphan]
  opened,             \* forwarded-tcpip channels not yet looked up
  wire,               \* global requests; they are sent in order of issue (assumed)
  bound,              \* keys the server forwards to us
  out,                \* output chunks (sets of URIs) not yet read
  readers,            \* [Readers -> notifyURIWaiters in progress]
  panicked            \* the process has panicked

lockVars   == <<op, orphan>>
tableVars  == <<forwardings, assignedAddrs>>
notifVars  == <<addrNotifications, readers>>
connVars   == <<connected, transport, capture, opened>>
vars == <<connVars, tableVars, notifVars, lockVars, wire, bound, out, panicked>>

Steps == {"idle", "capture", "precancel", "request", "await", "register",
          "undo", "stop", "stopall", "stopcancel"}

IdleOp == [step |-> "idle", fwd |-> NoFwd, todo |-> {}]
opKey  == KeyOf(op.fwd)

\* notifyURIWaiters: channels copied and still open, and copied but closed since.
IdleReader == [uris |-> {}, targets |-> {}, stale |-> {}]

\* Mutant: the reply field is left at its zero value.
Msg_NoReply(req, k, waiter) ==
  [req |-> req, key |-> k, waiter |-> waiter, reply |-> ""]

Msg(req, k, waiter) ==
  [req |-> req, key |-> k, waiter |-> waiter, reply |-> "none"]

\* The write lock can be taken, the read lock can be taken.
LockFree  == op.step = "idle" /\ \A k \in Keys : orphan[k] # "sending"
RLockFree == op.step = "idle"

Registered == {k \in Keys : forwardings[k] # NoFwd}
Waiters    == {k \in Keys : addrNotifications[k] # NoChan}

Init ==
  /\ connected = FALSE /\ transport = "down" /\ capture = "ended"
  /\ opened = {} /\ wire = <<>> /\ out = {}
  /\ forwardings = [k \in Keys |-> NoFwd]
  /\ assignedAddrs = [k \in Keys |-> {}]
  /\ addrNotifications = [k \in Keys |-> NoChan]
  /\ readers = [r \in Readers |-> IdleReader]
  /\ op = IdleOp
  /\ orphan = [k \in Keys |-> "none"]
  /\ bound \in SUBSET Keys     \* left over from an earlier process
  /\ panicked = FALSE

-------------------------------------------------------------------------------
\* The connection.

\* Connect, connectClient: the server may still hold bindings of a previous
\* session, or have dropped them.
Connect ==
  /\ ~panicked /\ LockFree /\ ~connected
  /\ connected' = TRUE /\ transport' = "up" /\ capture' = "opening"
  /\ bound' \in SUBSET bound
  /\ UNCHANGED <<opened, tableVars, notifVars, lockVars, wire, out, panicked>>

\* captureServerOutput: captureReady is closed once the session has its pipes
CaptureReady ==
  /\ ~panicked /\ capture = "opening" /\ transport = "up"
  /\ capture' = "reading"
  /\ UNCHANGED <<connected, transport, opened, tableVars, notifVars, lockVars,
                 wire, bound, out, panicked>>

\* ... or when the session cannot be created (its deferred close).
CaptureFails ==
  /\ ~panicked /\ capture = "opening" /\ transport # "mute"
  /\ capture' = "ended"
  /\ UNCHANGED <<connected, transport, opened, tableVars, notifVars, lockVars,
                 wire, bound, out, panicked>>

\* Shell or Start fails, or the server ends the session: output is lost.
CaptureEnds ==
  /\ ~panicked /\ capture = "reading"
  /\ capture' = "ended"
  /\ UNCHANGED <<connected, transport, opened, tableVars, notifVars, lockVars,
                 wire, bound, out, panicked>>

TransportFails(t) ==
  /\ ~panicked /\ connected
  /\ \/ transport = "up" /\ t \in {"mute", "down"}
     \/ transport = "mute" /\ t = "down"
  /\ t = "mute" /\ capture = "opening" => MuteDuringCapture
  /\ transport' = t
  /\ UNCHANGED <<connected, capture, opened, tableVars, notifVars, lockVars,
                 wire, bound, out, panicked>>

\* Mutant: the forwardings of the closed connection are kept.
closeClient_KeepsForwardings ==
  /\ connected' = FALSE /\ transport' = "down" /\ capture' = "ended"
  /\ assignedAddrs' = [k \in Keys |-> {}]
  /\ opened' = {} /\ wire' = <<>>
  /\ out' \in {out, {}} /\ UNCHANGED forwardings

\* closeClient.  What the server had already sent may or may not still be read.
closeClient ==
  /\ connected' = FALSE /\ transport' = "down" /\ capture' = "ended"
  /\ forwardings' = [k \in Keys |-> NoFwd]
  /\ assignedAddrs' = [k \in Keys |-> {}]
  /\ opened' = {} /\ wire' = <<>>
  /\ out' \in {out, {}}

\* Mutant: the keepalive is sent without a timeout.
MonitorCloses_OnErrorOnly ==
  /\ ~panicked /\ LockFree /\ connected /\ transport = "down"
  /\ closeClient
  /\ UNCHANGED <<notifVars, lockVars, bound, panicked>>

\* monitorConnection: the keepalive failed or was not answered in time, which
\* may also befall a slow connection.
MonitorCloses ==
  /\ ~panicked /\ LockFree /\ connected
  /\ closeClient
  /\ UNCHANGED <<notifVars, lockVars, bound, panicked>>

-------------------------------------------------------------------------------
\* StartForwarding.  The errors it returns at once (no client, forwarding
\* exists) change nothing.

\* Mutant: without the check that the key is free.
StartForwarding_NoExistsCheck(fwd) ==
  /\ ~panicked /\ LockFree /\ connected
  /\ Len(wire) <= MaxPending
  /\ op' = [step |-> "capture", fwd |-> fwd, todo |-> {}]
  /\ UNCHANGED <<connVars, tableVars, notifVars, orphan, wire, bound, out,
                 panicked>>

StartForwarding(fwd) ==
  /\ ~panicked /\ LockFree /\ connected
  /\ forwardings[KeyOf(fwd)] = NoFwd
  /\ Len(wire) <= MaxPending
  /\ op' = [step |-> "capture", fwd |-> fwd, todo |-> {}]
  /\ UNCHANGED <<connVars, tableVars, notifVars, orphan, wire, bound, out,
                 panicked>>

\* sendForwarding once captureReady is closed: register the waiter, then send.
CaptureWaited ==
  /\ ~panicked /\ op.step = "capture" /\ capture # "opening"
  /\ addrNotifications' = [addrNotifications EXCEPT ![opKey] = <<>>]
  /\ IF op.fwd.enforce
       THEN /\ op' = [op EXCEPT !.step = "precancel"]
            /\ wire' = Append(wire, Msg("cancel", opKey, "op"))
       ELSE /\ op' = [op EXCEPT !.step = "request"]
            /\ wire' = Append(wire, Msg("start", opKey, "op"))
  /\ UNCHANGED <<connVars, tableVars, readers, orphan, bound, out, panicked>>

\* Mutant: the channel is closed but stays in the map.
Deregister_ForgetsDelete(k) ==
  /\ readers' = [r \in Readers |->
       IF k \in readers[r].targets
         THEN [readers[r] EXCEPT !.targets = @ \ {k}, !.stale = @ \cup {k}]
         ELSE readers[r]]
  /\ UNCHANGED addrNotifications

\* sendForwarding's deferred cleanup: forget and close the channel.  A reader
\* that copied it still holds it.
Deregister(k) ==
  /\ addrNotifications' = [addrNotifications EXCEPT ![k] = NoChan]
  /\ readers' = [r \in Readers |->
       IF k \in readers[r].targets
         THEN [readers[r] EXCEPT !.targets = @ \ {k}, !.stale = @ \cup {k}]
         ELSE readers[r]]

\* What the waiting call does with the outcome of its request, w being what is
\* left on the wire.
OpContinues(ok, w) ==
  \/ /\ op.step = "precancel"
     /\ op' = [op EXCEPT !.step = "request"]
     /\ wire' = Append(w, Msg("start", opKey, "op"))
     /\ UNCHANGED notifVars
  \/ /\ op.step = "request" /\ ok
     /\ op' = [op EXCEPT !.step = "await"]
     /\ wire' = w /\ UNCHANGED notifVars
  \/ /\ (op.step = "request" /\ ~ok) \/ op.step = "undo"
     /\ Deregister(opKey)
     /\ op' = IdleOp /\ wire' = w
  \/ /\ op.step = "stop"
     /\ op' = IdleOp
     /\ wire' = w /\ UNCHANGED notifVars
  \/ /\ op.step = "stopcancel"
     /\ op' = [op EXCEPT !.step = "stopall"]
     /\ wire' = w /\ UNCHANGED notifVars

\* awaitAssignedAddresses, handleAssignedURIs: only the first chunk counts.
URIsArrive ==
  /\ ~panicked /\ op.step = "await" /\ addrNotifications[opKey] # <<>>
  /\ LET uris == Head(addrNotifications[opKey]) IN
       IF Accepts(op.fwd, uris)
         THEN /\ assignedAddrs' = [assignedAddrs EXCEPT ![opKey] = uris]
              /\ op' = [op EXCEPT !.step = "register"]
              /\ UNCHANGED wire
         ELSE /\ op' = [op EXCEPT !.step = "undo"]
              /\ wire' = Append(wire, Msg("cancel", opKey, "op"))
              /\ UNCHANGED assignedAddrs
  /\ addrNotifications' = [addrNotifications EXCEPT ![opKey] = Tail(@)]
  /\ UNCHANGED <<connVars, forwardings, readers, orphan, bound, out, panicked>>

\* Mutant: a timeout counts as success for every request.
VerificationTimeout_Succeeds ==
  /\ ~panicked /\ op.step = "await"
  /\ op' = [op EXCEPT !.step = "register"]
  /\ UNCHANGED <<connVars, tableVars, notifVars, orphan, wire, bound, out,
                 panicked>>

\* handleVerificationTimeout
VerificationTimeout ==
  /\ ~panicked /\ op.step = "await"
  /\ \/ /\ NeedsVerification(op.fwd)
        /\ op' = [op EXCEPT !.step = "undo"]
        /\ wire' = Append(wire, Msg("cancel", opKey, "op"))
     \/ /\ ~NeedsVerification(op.fwd)
        /\ op' = [op EXCEPT !.step = "register"]
        /\ UNCHANGED wire
  /\ UNCHANGED <<connVars, tableVars, notifVars, orphan, bound, out, panicked>>

\* The deferred cleanup, then m.forwardings[key] = &fwd.
Register ==
  /\ ~panicked /\ op.step = "register"
  /\ Deregister(opKey)
  /\ forwardings' = [forwardings EXCEPT ![opKey] = op.fwd]
  /\ op' = IdleOp
  /\ UNCHANGED <<connVars, assignedAddrs, orphan, wire, bound, out, panicked>>

-------------------------------------------------------------------------------
\* StopForwarding and Stop.

\* Mutant: the addresses of the stopped forwarding are kept.
StopForwarding_KeepsAddresses(k) ==
  /\ ~panicked /\ LockFree /\ connected
  /\ forwardings[k] # NoFwd
  /\ Len(wire) <= MaxPending
  /\ forwardings' = [forwardings EXCEPT ![k] = NoFwd]
  /\ op' = [step |-> "stop", fwd |-> forwardings[k], todo |-> {}]
  /\ wire' = Append(wire, Msg("cancel", k, "op"))
  /\ UNCHANGED <<connVars, assignedAddrs, notifVars, orphan, bound, out,
                 panicked>>

StopForwarding(k) ==
  /\ ~panicked /\ LockFree /\ connected
  /\ forwardings[k] # NoFwd
  /\ Len(wire) <= MaxPending
  /\ forwardings' = [forwardings EXCEPT ![k] = NoFwd]
  /\ assignedAddrs' = [assignedAddrs EXCEPT ![k] = {}]
  /\ op' = [step |-> "stop", fwd |-> forwardings[k], todo |-> {}]
  /\ wire' = Append(wire, Msg("cancel", k, "op"))
  /\ UNCHANGED <<connVars, notifVars, orphan, bound, out, panicked>>

Stop ==
  /\ ~panicked /\ LockFree /\ connected
  /\ op' = [step |-> "stopall", fwd |-> NoFwd, todo |-> Registered]
  /\ UNCHANGED <<connVars, tableVars, notifVars, orphan, wire, bound, out,
                 panicked>>

StopCancels(k) ==
  /\ ~panicked /\ op.step = "stopall" /\ k \in op.todo
  /\ op' = [step |-> "stopcancel", fwd |-> forwardings[k],
            todo |-> op.todo \ {k}]
  /\ wire' = Append(wire, Msg("cancel", k, "op"))
  /\ UNCHANGED <<connVars, tableVars, notifVars, orphan, bound, out, panicked>>

StopCloses ==
  /\ ~panicked /\ op.step = "stopall" /\ op.todo = {}
  /\ closeClient
  /\ op' = IdleOp
  /\ UNCHANGED <<notifVars, orphan, bound, panicked>>

-------------------------------------------------------------------------------
\* Requests and replies (sendForwardingOnce).

\* The server answers the oldest request.  It may refuse any; a binding it
\* makes is announced on the session's output, alone or in one chunk with
\* output not yet read, or not in a form getRemoteAddress recognises.
ServerAnswers(ok) ==
  /\ ~panicked /\ transport = "up" /\ wire # <<>> /\ Head(wire).reply = "none"
  /\ LET k == Head(wire).key  req == Head(wire).req IN
     /\ req = "cancel" /\ ok => k \in bound
     /\ bound' = IF ~ok THEN bound
                 ELSE IF req = "start" THEN bound \cup {k} ELSE bound \ {k}
     /\ \/ out' = out
        \/ /\ ok /\ req = "start" /\ capture = "reading"
           /\ \E u \in Announce(k), c \in out \cup {{}} :
                out' = (out \ {c}) \cup {c \cup {u}}
           /\ Cardinality(out') <= MaxOut
  /\ wire' = [wire EXCEPT ![1].reply = IF ok THEN "ok" ELSE "denied"]
  /\ UNCHANGED <<connVars, tableVars, notifVars, lockVars, panicked>>

\* Mutant: any reply is taken for the reply of the waiting call.
ReplyToOp_AnyReply ==
  /\ ~panicked /\ wire # <<>> /\ Head(wire).reply # "none"
  /\ OpContinues(Head(wire).reply = "ok", Tail(wire))
  /\ UNCHANGED <<connVars, tableVars, orphan, bound, out, panicked>>

ReplyToOp ==
  /\ ~panicked /\ wire # <<>> /\ Head(wire).reply # "none" /\ Head(wire).waiter = "op"
  /\ OpContinues(Head(wire).reply = "ok", Tail(wire))
  /\ UNCHANGED <<connVars, tableVars, orphan, bound, out, panicked>>

ReplyToOther ==
  /\ ~panicked /\ wire # <<>> /\ Head(wire).reply # "none" /\ Head(wire).waiter # "op"
  /\ orphan' = IF Head(wire).waiter = "orphan"
                 THEN [orphan EXCEPT ![Head(wire).key] = "none"] ELSE orphan
  /\ wire' = Tail(wire)
  /\ UNCHANGED <<connVars, tableVars, notifVars, op, bound, out, panicked>>

\* Mutant: the reply is waited for without a timeout.
RequestFails_OnErrorOnly(i) ==
  /\ ~panicked /\ wire[i].waiter = "op" /\ transport = "down"
  /\ OpContinues(FALSE, [wire EXCEPT ![i].waiter = "nobody"])
  /\ UNCHANGED <<connVars, tableVars, orphan, bound, out, panicked>>

\* fwdReqTimeout, or the error SendRequest returns on a dead transport.
RequestFails(i) ==
  /\ ~panicked /\ wire[i].waiter = "op"
  /\ OpContinues(FALSE, [wire EXCEPT ![i].waiter = "nobody"])
  /\ UNCHANGED <<connVars, tableVars, orphan, bound, out, panicked>>

-------------------------------------------------------------------------------
\* handleChannels: a client reached a key the server forwards to us.

ChannelOpens(k) ==
  /\ ~panicked /\ connected /\ transport = "up" /\ k \in bound \cap VisitedKeys
  /\ opened' = opened \cup {k}
  /\ UNCHANGED <<connected, transport, capture, tableVars, notifVars, lockVars,
                 wire, bound, out, panicked>>

HandleChannel(k) ==
  /\ ~panicked /\ RLockFree /\ k \in opened
  /\ opened' = opened \ {k}
  /\ orphan' = IF forwardings[k] = NoFwd /\ orphan[k] = "none"
                 THEN [orphan EXCEPT ![k] = "spawned"] ELSE orphan
  /\ UNCHANGED <<connected, transport, capture, tableVars, notifVars, op,
                 wire, bound, out, panicked>>

OrphanCancels(k) ==
  /\ ~panicked /\ RLockFree /\ orphan[k] = "spawned"
  /\ Len(wire) <= MaxPending
  /\ IF connected
       THEN /\ orphan' = [orphan EXCEPT ![k] = "sending"]
            /\ wire' = Append(wire, Msg("cancel", k, "orphan"))
       ELSE orphan' = [orphan EXCEPT ![k] = "none"] /\ UNCHANGED wire
  /\ UNCHANGED <<connVars, tableVars, notifVars, op, bound, out, panicked>>

OrphanGivesUp(i) ==
  /\ ~panicked /\ wire[i].waiter = "orphan"
  /\ orphan' = [orphan EXCEPT ![wire[i].key] = "none"]
  /\ wire' = [wire EXCEPT ![i].waiter = "nobody"]
  /\ UNCHANGED <<connVars, tableVars, notifVars, op, bound, out, panicked>>

-------------------------------------------------------------------------------
\* readServerOutput, processServerData, notifyURIWaiters.

\* Copy the registered channels under addrNotifMu.  A reader of a closed
\* connection may still do this for what it had received.
ReaderTakes(r) ==
  /\ ~panicked /\ readers[r] = IdleReader
  /\ \E c \in out :
       /\ out' = out \ {c}
       /\ readers' = [readers EXCEPT ![r] =
            IF Waiters = {} THEN IdleReader
            ELSE [uris |-> c, targets |-> Waiters, stale |-> {}]]
  /\ UNCHANGED <<connVars, tableVars, addrNotifications, lockVars, wire, bound,
                 panicked>>

\* readers[r] once it has dealt with key k
ReaderAfter(r, k) ==
  LET rest == [readers[r] EXCEPT !.targets = @ \ {k}] IN
  IF rest.targets \cup rest.stale = {} THEN IdleReader ELSE rest

\* Send outside the lock; a full channel is skipped.
ReaderSends(r, k) ==
  /\ ~panicked /\ k \in readers[r].targets
  /\ addrNotifications' =
       IF Len(addrNotifications[k]) < NotifSize
         THEN [addrNotifications EXCEPT ![k] = Append(@, readers[r].uris)]
         ELSE addrNotifications
  /\ readers' = [readers EXCEPT ![r] = ReaderAfter(r, k)]
  /\ UNCHANGED <<connVars, tableVars, lockVars, wire, bound, out, panicked>>

\* A send on a closed channel panics, also in a select with a default.
ReaderPanics(r) ==
  /\ ~panicked /\ readers[r].stale # {}
  /\ panicked' = TRUE
  /\ UNCHANGED <<connVars, tableVars, notifVars, lockVars, wire, bound, out>>

\* The container is restarted; the server's bindings outlive the process.
Restart ==
  /\ panicked /\ panicked' = FALSE
  /\ connected' = FALSE /\ transport' = "down" /\ capture' = "ended"
  /\ opened' = {} /\ wire' = <<>> /\ out' = {}
  /\ forwardings' = [k \in Keys |-> NoFwd]
  /\ assignedAddrs' = [k \in Keys |-> {}]
  /\ addrNotifications' = [k \in Keys |-> NoChan]
  /\ readers' = [r \in Readers |-> IdleReader]
  /\ op' = IdleOp
  /\ orphan' = [k \in Keys |-> "none"]
  /\ UNCHANGED bound

-------------------------------------------------------------------------------
ConnectionStep ==
  \/ Connect \/ MonitorCloses
  \/ CaptureReady \/ CaptureFails \/ CaptureEnds
  \/ \E t \in {"mute", "down"} : TransportFails(t)

CallBegins ==
  \/ \E fwd \in Requests : StartForwarding(fwd)
  \/ \E k \in Keys : StopForwarding(k)
  \/ Stop

CallContinues ==
  \/ CaptureWaited \/ URIsArrive \/ VerificationTimeout \/ Register
  \/ \E k \in Keys : StopCancels(k)
  \/ StopCloses
  \/ ReplyToOp
  \/ \E i \in 1..Len(wire) : RequestFails(i)

ServerStep ==
  \/ \E ok \in BOOLEAN : ServerAnswers(ok)
  \/ \E k \in Keys : ChannelOpens(k)

OrphanStep ==
  \/ \E k \in Keys : HandleChannel(k) \/ OrphanCancels(k)
  \/ \E i \in 1..Len(wire) : OrphanGivesUp(i)
  \/ ReplyToOther

ReaderStep(r) ==
  \/ ReaderTakes(r) \/ ReaderPanics(r)
  \/ \E k \in Keys : ReaderSends(r, k)

Next ==
  \/ ConnectionStep \/ CallBegins \/ CallContinues
  \/ ServerStep \/ OrphanStep
  \/ \E r \in Readers : ReaderStep(r)
  \/ Restart

Spec == Init /\ [][Next]_vars

\* The scheduler runs every goroutine and every timer fires: the call that
\* holds the lock, the orphan goroutines and the readers keep going, an open
\* attempt at a capture session ends unless the server is mute, and a monitor
\* whose keepalive fails gets the lock if it is free again and again (RWMutex
\* does not starve a writer).  Nothing is assumed of callers or of the server.
Fairness ==
  /\ WF_vars(CallContinues)
  /\ WF_vars(transport # "mute" /\ (CaptureReady \/ CaptureFails))
  /\ WF_vars(\E i \in 1..Len(wire) : OrphanGivesUp(i))
  /\ WF_vars(\E r \in Readers : ReaderStep(r))
  /\ SF_vars(transport # "up" /\ MonitorCloses)
  /\ WF_vars(Restart)

FairSpec == Spec /\ Fairness
===============================================================================
