------------------------- MODULE TunnelManagerProofs -------------------------
(***************************************************************************)
(* Proofs about TunnelManager for any requests, announcements and number   *)
(* of readers.                                                             *)
(***************************************************************************)
EXTENDS TunnelManagerProps, SequenceTheorems, TLAPS

LEMMA KeyType == ASSUME NEW fwd \in Requests PROVE KeyOf(fwd) \in Keys
BY DEF Keys

LEMMA AnnounceType == ASSUME NEW k \in Keys PROVE Announce(k) \subseteq URIs
BY DEF URIs

LEMMA EmptyIsNotNoChan == <<>> # NoChan
<1>1. <<>> \in Seq(SUBSET URIs)
  OBVIOUS
<1> QED BY <1>1, AbsentAssumption

LEMMA InitSafe == Init => SafeInv
<1> SUFFICES ASSUME Init PROVE SafeInv OBVIOUS
<1> USE AbsentAssumption DEF Init, IdleOp, IdleReader
<1>1. TypeOK
  <2>1. op \in [step : Steps, fwd : Requests \cup {NoFwd}, todo : SUBSET Keys]
    BY DEF Steps
  <2>2. readers \in [Readers -> Reader]
    BY DEF Reader
  <2>3. wire \in Seq(Message) /\ out \subseteq SUBSET URIs
    OBVIOUS
  <2> QED BY <2>1, <2>2, <2>3 DEF TypeOK
<1>2. CallShape
  BY DEF CallShape, HasWaiter, Registered
<1>3. ChannelHasItsCall
  BY DEF ChannelHasItsCall, Waiters, HasWaiter
<1>4. NothingOutlivesConnection /\ RegisteredIsVerified /\ AddressesAreRegistered
  BY DEF NothingOutlivesConnection, RegisteredIsVerified,
         AddressesAreRegistered, Registered
<1> QED BY <1>1, <1>2, <1>3, <1>4 DEF SafeInv

LEMMA StutterSafe == SafeInv /\ UNCHANGED vars => SafeInv'
BY DEF SafeInv, TypeOK, CallShape, ChannelHasItsCall,
       NothingOutlivesConnection, RegisteredIsVerified, AddressesAreRegistered,
       vars, connVars, tableVars, notifVars, lockVars, Registered, Waiters,
       opKey

LEMMA CloseSafe ==
  ASSUME SafeInv, closeClient, op.step \in {"idle", "stopall"}, op' = IdleOp,
         UNCHANGED <<notifVars, orphan, bound, panicked>>
  PROVE  SafeInv'
<1> USE DEF SafeInv, TypeOK, closeClient, notifVars, IdleOp
<1>1. TypeOK'
  <2>1. op' \in [step : Steps, fwd : Requests \cup {NoFwd}, todo : SUBSET Keys]
    BY DEF Steps
  <2>2. wire' \in Seq(Message) /\ out' \subseteq SUBSET URIs
    OBVIOUS
  <2> QED BY <2>1, <2>2
<1>2. CallShape'
  BY DEF CallShape, HasWaiter, Registered
<1>3. ChannelHasItsCall'
  BY DEF ChannelHasItsCall, Waiters, HasWaiter
<1>4. NothingOutlivesConnection' /\ RegisteredIsVerified'
      /\ AddressesAreRegistered'
  BY DEF NothingOutlivesConnection, RegisteredIsVerified,
         AddressesAreRegistered, Registered
<1> QED BY <1>1, <1>2, <1>3, <1>4

LEMMA ConnectionSafe == SafeInv /\ ConnectionStep => SafeInv'
<1> SUFFICES ASSUME SafeInv, ConnectionStep PROVE SafeInv' OBVIOUS
<1> USE DEF SafeInv, TypeOK, connVars, tableVars, notifVars, lockVars, opKey
<1>1. ASSUME Connect PROVE SafeInv'
  BY <1>1 DEF Connect, CallShape, ChannelHasItsCall, NothingOutlivesConnection,
     RegisteredIsVerified, AddressesAreRegistered, Registered, Waiters
<1>2. ASSUME CaptureReady \/ CaptureFails \/ CaptureEnds PROVE SafeInv'
  BY <1>2 DEF CaptureReady, CaptureFails, CaptureEnds, CallShape,
     ChannelHasItsCall, NothingOutlivesConnection, RegisteredIsVerified,
     AddressesAreRegistered, Registered, Waiters
<1>3. ASSUME NEW t \in {"mute", "down"}, TransportFails(t) PROVE SafeInv'
  BY <1>3 DEF TransportFails, CallShape, ChannelHasItsCall,
     NothingOutlivesConnection, RegisteredIsVerified, AddressesAreRegistered,
     Registered, Waiters
<1>4. ASSUME MonitorCloses PROVE SafeInv'
  <2>1. op' = IdleOp /\ op.step = "idle"
    BY <1>4 DEF MonitorCloses, LockFree, CallShape
  <2> QED BY <1>4, <2>1, CloseSafe DEF MonitorCloses
<1> QED BY <1>1, <1>2, <1>3, <1>4 DEF ConnectionStep

LEMMA AppendType ==
  ASSUME NEW w \in Seq(Message), NEW req \in {"start", "cancel"},
         NEW k \in Keys, NEW waiter \in {"op", "orphan", "nobody"}
  PROVE  Append(w, Msg(req, k, waiter)) \in Seq(Message)
BY DEF Message, Msg

LEMMA AbandonType ==
  ASSUME NEW w \in Seq(Message), NEW i \in 1..Len(w)
  PROVE  [w EXCEPT ![i].waiter = "nobody"] \in Seq(Message)
<1>0. w[i] \in Message
  OBVIOUS
<1>1. [w[i] EXCEPT !.waiter = "nobody"] \in Message
  BY <1>0 DEF Message
<1>2. [w EXCEPT ![i] = [w[i] EXCEPT !.waiter = "nobody"]] \in Seq(Message)
  BY <1>1, ExceptSeq
<1> QED BY <1>2

LEMMA OpKeyType ==
  ASSUME SafeInv, op.step \notin {"idle", "stopall"}
  PROVE  op.fwd \in Requests /\ opKey \in Keys
BY KeyType DEF SafeInv, CallShape, opKey

LEMMA CallBeginsSafe == SafeInv /\ CallBegins => SafeInv'
<1> SUFFICES ASSUME SafeInv, CallBegins PROVE SafeInv' OBVIOUS
<1> USE DEF SafeInv, connVars, tableVars, notifVars, opKey
<1>1. ASSUME NEW fwd \in Requests, StartForwarding(fwd) PROVE SafeInv'
  <2> USE <1>1 DEF StartForwarding, LockFree
  <2>0. KeyOf(fwd) \in Keys /\ op = IdleOp
    BY KeyType DEF CallShape
  <2>1. TypeOK'
    BY DEF TypeOK, Steps
  <2>2. CallShape'
    BY <2>0 DEF CallShape, HasWaiter, Registered
  <2>3. ChannelHasItsCall'
    BY DEF ChannelHasItsCall, Waiters, HasWaiter
  <2>4. NothingOutlivesConnection' /\ RegisteredIsVerified'
        /\ AddressesAreRegistered'
    BY DEF NothingOutlivesConnection, RegisteredIsVerified,
           AddressesAreRegistered, Registered
  <2> QED BY <2>1, <2>2, <2>3, <2>4
<1>2. ASSUME NEW k \in Keys, StopForwarding(k) PROVE SafeInv'
  <2> USE <1>2 DEF StopForwarding, LockFree
  <2>0. /\ forwardings[k] \in Requests /\ KeyOf(forwardings[k]) = k
        /\ op = IdleOp
    BY DEF CallShape, Registered, TypeOK
  <2>1. TypeOK'
    BY <2>0, AppendType DEF TypeOK, Steps
  <2>2. CallShape'
    BY <2>0 DEF CallShape, HasWaiter, Registered, TypeOK, IdleOp
  <2>3. ChannelHasItsCall'
    BY DEF ChannelHasItsCall, Waiters, HasWaiter
  <2>4. NothingOutlivesConnection' /\ RegisteredIsVerified'
        /\ AddressesAreRegistered'
    BY DEF NothingOutlivesConnection, RegisteredIsVerified,
           AddressesAreRegistered, Registered, TypeOK
  <2> QED BY <2>1, <2>2, <2>3, <2>4
<1>3. ASSUME Stop PROVE SafeInv'
  <2> USE <1>3 DEF Stop, LockFree
  <2>1. TypeOK'
    BY DEF TypeOK, Steps, Registered
  <2>2. CallShape'
    BY DEF CallShape, HasWaiter, Registered
  <2>3. ChannelHasItsCall'
    BY DEF ChannelHasItsCall, Waiters, HasWaiter
  <2>4. NothingOutlivesConnection' /\ RegisteredIsVerified'
        /\ AddressesAreRegistered'
    BY DEF NothingOutlivesConnection, RegisteredIsVerified,
           AddressesAreRegistered, Registered
  <2> QED BY <2>1, <2>2, <2>3, <2>4
<1> QED BY <1>1, <1>2, <1>3 DEF CallBegins

LEMMA CaptureWaitedSafe == SafeInv /\ CaptureWaited => SafeInv'
<1> SUFFICES ASSUME SafeInv, CaptureWaited PROVE SafeInv' OBVIOUS
<1> USE DEF SafeInv, CaptureWaited, connVars, tableVars, notifVars
<1>0. op.fwd \in Requests /\ opKey \in Keys /\ opKey' = opKey
  BY OpKeyType DEF opKey, TypeOK
<1>1. TypeOK'
  <2>1. wire' \in Seq(Message)
    <3>1. \E req \in {"start", "cancel"} :
            wire' = Append(wire, Msg(req, opKey, "op"))
      OBVIOUS
    <3>2. wire \in Seq(Message)
      BY DEF TypeOK
    <3> QED BY <3>1, <3>2, <1>0, AppendType
  <2>2. addrNotifications' \in [Keys -> Seq(SUBSET URIs) \cup {NoChan}]
    BY <1>0 DEF TypeOK
  <2>3. op' \in [step : Steps, fwd : Requests \cup {NoFwd}, todo : SUBSET Keys]
    BY DEF TypeOK, Steps
  <2> QED BY <2>1, <2>2, <2>3 DEF TypeOK
<1>2. CallShape'
  BY <1>0 DEF CallShape, HasWaiter, Registered, TypeOK
<1>3. ChannelHasItsCall'
  <2>1. <<>> # NoChan
    BY EmptyIsNotNoChan
  <2> QED BY <2>1, <1>0 DEF ChannelHasItsCall, Waiters, HasWaiter, TypeOK
<1>4. NothingOutlivesConnection' /\ RegisteredIsVerified'
      /\ AddressesAreRegistered'
  BY <1>0 DEF NothingOutlivesConnection, RegisteredIsVerified, IdleOp,
         AddressesAreRegistered, Registered, TypeOK
<1> QED BY <1>1, <1>2, <1>3, <1>4

\* The deferred cleanup leaves no waiter, and readers only with closed channels.
LEMMA DeregisterClears ==
  ASSUME SafeInv, op.step \in HasWaiter, Deregister(opKey)
  PROVE  /\ addrNotifications' \in [Keys -> Seq(SUBSET URIs) \cup {NoChan}]
         /\ readers' \in [Readers -> Reader]
         /\ Waiters' = {}
         /\ \A r \in Readers : readers[r]'.targets = {}
<1> USE DEF SafeInv, Deregister
<1>0. opKey \in Keys
  BY OpKeyType DEF HasWaiter
<1>1. Waiters \subseteq {opKey}
  BY DEF ChannelHasItsCall
<1>2. addrNotifications' \in [Keys -> Seq(SUBSET URIs) \cup {NoChan}]
  BY DEF TypeOK
<1>3. Waiters' = {}
  BY <1>0, <1>1 DEF Waiters, TypeOK
<1>4. ASSUME NEW r \in Readers
      PROVE  readers[r]' \in Reader /\ readers[r]'.targets = {}
  <2>1. readers[r] \in Reader /\ readers[r].targets \subseteq {opKey}
    BY <1>1 DEF TypeOK, ChannelHasItsCall
  <2>2. CASE opKey \in readers[r].targets
    BY <2>1, <2>2, <1>0 DEF Reader
  <2>3. CASE opKey \notin readers[r].targets
    BY <2>1, <2>3 DEF Reader
  <2> QED BY <2>2, <2>3
<1>5. readers' \in [Readers -> Reader]
  BY <1>4
<1> QED BY <1>2, <1>3, <1>4, <1>5

LEMMA OpContinuesSafe ==
  ASSUME SafeInv, NEW w \in Seq(Message), NEW ok \in BOOLEAN,
         OpContinues(ok, w),
         UNCHANGED <<connVars, tableVars, orphan, bound, out, panicked>>
  PROVE  SafeInv'
<1> USE DEF SafeInv, connVars, tableVars, notifVars
<1>0. op.fwd \in Requests /\ opKey \in Keys /\ connected
  BY OpKeyType DEF OpContinues, NothingOutlivesConnection, IdleOp
<1>1. CASE op.step = "precancel"
  <2>0. /\ op' = [op EXCEPT !.step = "request"] /\ UNCHANGED notifVars
        /\ wire' = Append(w, Msg("start", opKey, "op"))
        /\ opKey' = opKey
    BY <1>1 DEF OpContinues, opKey, TypeOK
  <2>1. TypeOK'
    <3>1. wire' \in Seq(Message)
      BY <2>0, <1>0, AppendType
    <3> QED BY <2>0, <3>1 DEF TypeOK, Steps
  <2>2. CallShape' /\ ChannelHasItsCall'
    BY <2>0, <1>0, <1>1 DEF CallShape, ChannelHasItsCall, Waiters, Registered,
       HasWaiter, TypeOK
  <2>3. NothingOutlivesConnection' /\ RegisteredIsVerified'
        /\ AddressesAreRegistered'
    BY <2>0, <1>0, <1>1 DEF NothingOutlivesConnection, RegisteredIsVerified,
       AddressesAreRegistered, Registered, TypeOK
  <2> QED BY <2>1, <2>2, <2>3
<1>2. CASE op.step = "request" /\ ok
  <2>0. /\ op' = [op EXCEPT !.step = "await"] /\ UNCHANGED notifVars
        /\ wire' = w /\ opKey' = opKey
    BY <1>2 DEF OpContinues, opKey, TypeOK
  <2>1. TypeOK'
    BY <2>0 DEF TypeOK, Steps
  <2>2. CallShape' /\ ChannelHasItsCall'
    BY <2>0, <1>0, <1>2 DEF CallShape, ChannelHasItsCall, Waiters, Registered,
       HasWaiter, TypeOK
  <2>3. NothingOutlivesConnection' /\ RegisteredIsVerified'
        /\ AddressesAreRegistered'
    BY <2>0, <1>0, <1>2 DEF NothingOutlivesConnection, RegisteredIsVerified,
       AddressesAreRegistered, Registered, TypeOK
  <2> QED BY <2>1, <2>2, <2>3
<1>3. CASE (op.step = "request" /\ ~ok) \/ op.step = "undo"
  <2>0. Deregister(opKey) /\ op' = IdleOp /\ wire' = w
        /\ op.step \in HasWaiter
    BY <1>3 DEF OpContinues, HasWaiter
  <2>1. TypeOK'
    BY <2>0, DeregisterClears DEF TypeOK, Steps, IdleOp
  <2>2. CallShape' /\ ChannelHasItsCall'
    BY <2>0, <1>0, DeregisterClears DEF CallShape, ChannelHasItsCall,
       Registered, HasWaiter, IdleOp
  <2>3. NothingOutlivesConnection' /\ RegisteredIsVerified'
        /\ AddressesAreRegistered'
    BY <2>0, <1>0, <1>3 DEF NothingOutlivesConnection, RegisteredIsVerified,
       AddressesAreRegistered, Registered
  <2> QED BY <2>1, <2>2, <2>3
<1>4. CASE op.step = "stop"
  <2>0. op' = IdleOp /\ UNCHANGED notifVars /\ wire' = w
    BY <1>4 DEF OpContinues
  <2>1. TypeOK'
    BY <2>0 DEF TypeOK, Steps, IdleOp
  <2>2. CallShape' /\ ChannelHasItsCall'
    BY <2>0, <1>4 DEF CallShape, ChannelHasItsCall, Waiters, Registered,
       HasWaiter, IdleOp
  <2>3. NothingOutlivesConnection' /\ RegisteredIsVerified'
        /\ AddressesAreRegistered'
    BY <2>0, <1>0, <1>4 DEF NothingOutlivesConnection, RegisteredIsVerified,
       AddressesAreRegistered, Registered
  <2> QED BY <2>1, <2>2, <2>3
<1>5. CASE op.step = "stopcancel"
  <2>0. /\ op' = [op EXCEPT !.step = "stopall"] /\ UNCHANGED notifVars
        /\ wire' = w
    BY <1>5 DEF OpContinues
  <2>1. TypeOK'
    BY <2>0 DEF TypeOK, Steps
  <2>2. CallShape' /\ ChannelHasItsCall'
    BY <2>0, <1>5 DEF CallShape, ChannelHasItsCall, Waiters, Registered,
       HasWaiter, TypeOK
  <2>3. NothingOutlivesConnection' /\ RegisteredIsVerified'
        /\ AddressesAreRegistered'
    BY <2>0, <1>0, <1>5 DEF NothingOutlivesConnection, RegisteredIsVerified,
       AddressesAreRegistered, Registered, TypeOK
  <2> QED BY <2>1, <2>2, <2>3
<1> QED BY <1>1, <1>2, <1>3, <1>4, <1>5 DEF OpContinues

LEMMA URIsArriveSafe == SafeInv /\ URIsArrive => SafeInv'
<1> SUFFICES ASSUME SafeInv, URIsArrive PROVE SafeInv' OBVIOUS
<1> DEFINE uris == Head(addrNotifications[opKey])
<1> USE DEF SafeInv, URIsArrive, connVars, tableVars, notifVars
<1>0. /\ op.fwd \in Requests /\ opKey \in Keys /\ connected /\ opKey' = opKey
      /\ opKey \notin Registered /\ opKey \in Waiters
  BY OpKeyType DEF opKey, TypeOK, NothingOutlivesConnection, IdleOp, CallShape,
     HasWaiter, ChannelHasItsCall
<1>1. /\ addrNotifications[opKey] \in Seq(SUBSET URIs)
      /\ uris \in SUBSET URIs
      /\ Tail(addrNotifications[opKey]) \in Seq(SUBSET URIs)
  <2>1. addrNotifications[opKey] \in Seq(SUBSET URIs)
    BY <1>0 DEF TypeOK, Waiters
  <2> QED BY <2>1
<1>2. addrNotifications' \in [Keys -> Seq(SUBSET URIs) \cup {NoChan}]
      /\ Waiters' = Waiters
  BY <1>0, <1>1, AbsentAssumption DEF TypeOK, Waiters
<1>3. CASE Accepts(op.fwd, uris)
  <2>0. /\ assignedAddrs' = [assignedAddrs EXCEPT ![opKey] = uris]
        /\ op' = [op EXCEPT !.step = "register"] /\ wire' = wire
    BY <1>3
  <2>1. TypeOK'
    BY <2>0, <1>0, <1>1, <1>2 DEF TypeOK, Steps
  <2>2. Accepts(op.fwd, {}) => ~NeedsVerification(op.fwd)
    BY DEF Accepts, MatchesRequestedHost
  <2>3. CallShape'
    BY <2>0, <2>2, <1>0, <1>3 DEF CallShape, Registered, HasWaiter, TypeOK
  <2>4. ChannelHasItsCall'
    BY <2>0, <1>0, <1>2 DEF ChannelHasItsCall, HasWaiter, TypeOK
  <2>5. NothingOutlivesConnection' /\ RegisteredIsVerified'
        /\ AddressesAreRegistered'
    BY <2>0, <1>0 DEF NothingOutlivesConnection, RegisteredIsVerified,
       AddressesAreRegistered, Registered, TypeOK
  <2> QED BY <2>1, <2>3, <2>4, <2>5
<1>4. CASE ~Accepts(op.fwd, uris)
  <2>0. /\ assignedAddrs' = assignedAddrs
        /\ op' = [op EXCEPT !.step = "undo"]
        /\ wire' = Append(wire, Msg("cancel", opKey, "op"))
    BY <1>4
  <2>1. TypeOK'
    <3>1. wire' \in Seq(Message)
      BY <2>0, <1>0, AppendType DEF TypeOK
    <3> QED BY <2>0, <3>1, <1>2 DEF TypeOK, Steps
  <2>2. CallShape' /\ ChannelHasItsCall'
    BY <2>0, <1>0, <1>2 DEF CallShape, ChannelHasItsCall, Registered,
       HasWaiter, TypeOK
  <2>3. NothingOutlivesConnection' /\ RegisteredIsVerified'
        /\ AddressesAreRegistered'
    BY <2>0, <1>0 DEF NothingOutlivesConnection, RegisteredIsVerified,
       AddressesAreRegistered, Registered, TypeOK
  <2> QED BY <2>1, <2>2, <2>3
<1> QED BY <1>3, <1>4

LEMMA VerificationTimeoutSafe == SafeInv /\ VerificationTimeout => SafeInv'
<1> SUFFICES ASSUME SafeInv, VerificationTimeout PROVE SafeInv' OBVIOUS
<1>1. \/ op' = [op EXCEPT !.step = "undo"]
      \/ (op' = [op EXCEPT !.step = "register"]) /\ ~NeedsVerification(op.fwd)
  BY DEF VerificationTimeout
<1> USE DEF SafeInv, VerificationTimeout, connVars, tableVars, notifVars
<1>0. /\ op.fwd \in Requests /\ opKey \in Keys /\ connected /\ opKey' = opKey
      /\ opKey \notin Registered /\ assignedAddrs[opKey] = {}
  BY OpKeyType DEF opKey, TypeOK, NothingOutlivesConnection, IdleOp, CallShape,
     HasWaiter, AddressesAreRegistered
<1>2. TypeOK'
  <2>1. wire' \in Seq(Message)
    <3>1. wire \in Seq(Message)
      BY DEF TypeOK
    <3>2. wire' = wire \/ wire' = Append(wire, Msg("cancel", opKey, "op"))
      OBVIOUS
    <3> QED BY <3>1, <3>2, <1>0, AppendType
  <2> QED BY <2>1, <1>1 DEF TypeOK, Steps
<1>3. CallShape' /\ ChannelHasItsCall'
  BY <1>0, <1>1 DEF CallShape, ChannelHasItsCall, Registered, HasWaiter,
     Waiters, TypeOK
<1>4. NothingOutlivesConnection' /\ RegisteredIsVerified'
      /\ AddressesAreRegistered'
  BY <1>0, <1>1 DEF NothingOutlivesConnection, RegisteredIsVerified,
     AddressesAreRegistered, Registered, TypeOK
<1> QED BY <1>2, <1>3, <1>4

LEMMA RegisterSafe == SafeInv /\ Register => SafeInv'
<1> SUFFICES ASSUME SafeInv, Register PROVE SafeInv' OBVIOUS
<1> USE DEF SafeInv, Register, connVars
<1>0. op.fwd \in Requests /\ opKey \in Keys /\ connected
      /\ op.step \in HasWaiter /\ op.fwd # NoFwd
  BY OpKeyType, AbsentAssumption DEF NothingOutlivesConnection, IdleOp, HasWaiter
<1>1. TypeOK'
  BY <1>0, DeregisterClears DEF TypeOK, Steps, IdleOp
<1>2. Registered' = Registered \cup {opKey}
  BY <1>0 DEF Registered, TypeOK
<1>3. CallShape'
  BY <1>0, <1>2 DEF CallShape, HasWaiter, IdleOp, TypeOK, opKey
<1>4. ChannelHasItsCall'
  BY <1>0, DeregisterClears DEF ChannelHasItsCall, HasWaiter, IdleOp
<1>5. NothingOutlivesConnection' /\ AddressesAreRegistered'
  BY <1>0, <1>2 DEF NothingOutlivesConnection, AddressesAreRegistered
<1>6. RegisteredIsVerified'
  BY <1>0, <1>2 DEF RegisteredIsVerified, CallShape, TypeOK
<1> QED BY <1>1, <1>3, <1>4, <1>5, <1>6

LEMMA StopCancelsSafe ==
  ASSUME SafeInv, NEW k \in Keys, StopCancels(k) PROVE SafeInv'
<1> USE DEF SafeInv, StopCancels, connVars, tableVars, notifVars
<1>0. forwardings[k] \in Requests /\ k \in Registered /\ connected
  BY DEF CallShape, TypeOK, Registered, NothingOutlivesConnection, IdleOp
<1>1. TypeOK'
  <2>1. wire' \in Seq(Message)
    BY AppendType DEF TypeOK
  <2> QED BY <2>1, <1>0 DEF TypeOK, Steps
<1>2. CallShape' /\ ChannelHasItsCall'
  BY <1>0 DEF CallShape, ChannelHasItsCall, Registered, HasWaiter, Waiters
<1>3. NothingOutlivesConnection' /\ RegisteredIsVerified'
      /\ AddressesAreRegistered'
  BY <1>0 DEF NothingOutlivesConnection, RegisteredIsVerified,
     AddressesAreRegistered, Registered
<1> QED BY <1>1, <1>2, <1>3

LEMMA CallContinuesSafe == SafeInv /\ CallContinues => SafeInv'
<1> SUFFICES ASSUME SafeInv, CallContinues PROVE SafeInv' OBVIOUS
<1>1. ASSUME StopCloses PROVE SafeInv'
  BY <1>1, CloseSafe DEF StopCloses
<1>2. ASSUME ReplyToOp PROVE SafeInv'
  <2>1. Tail(wire) \in Seq(Message) /\ Head(wire) \in Message
    BY <1>2 DEF ReplyToOp, SafeInv, TypeOK
  <2>2. (Head(wire).reply = "ok") \in BOOLEAN
    OBVIOUS
  <2> QED BY <1>2, <2>1, <2>2, OpContinuesSafe DEF ReplyToOp
<1>3. ASSUME NEW i \in 1..Len(wire), RequestFails(i) PROVE SafeInv'
  <2>1. [wire EXCEPT ![i].waiter = "nobody"] \in Seq(Message)
    BY AbandonType DEF SafeInv, TypeOK
  <2> QED BY <1>3, <2>1, OpContinuesSafe DEF RequestFails
<1> QED BY <1>1, <1>2, <1>3, CaptureWaitedSafe, URIsArriveSafe,
          VerificationTimeoutSafe, RegisterSafe, StopCancelsSafe
       DEF CallContinues

\* The server, the orphan goroutines and the readers leave the tables alone.
LEMMA OthersKeepTables ==
  ASSUME SafeInv, TypeOK', UNCHANGED <<connected, tableVars, op>>,
         ChannelHasItsCall', wire # <<>> \/ wire' = <<>> \/ connected
  PROVE  SafeInv'
<1>1. CallShape'
  BY DEF SafeInv, CallShape, Registered, opKey, tableVars
<1>2. NothingOutlivesConnection'
  BY DEF SafeInv, NothingOutlivesConnection, Registered, tableVars
<1>3. RegisteredIsVerified' /\ AddressesAreRegistered'
  BY DEF SafeInv, RegisteredIsVerified, AddressesAreRegistered, Registered,
     opKey, tableVars
<1> QED BY <1>1, <1>2, <1>3 DEF SafeInv

LEMMA ServerAnswersSafe ==
  ASSUME SafeInv, NEW ok \in BOOLEAN, ServerAnswers(ok) PROVE SafeInv'
<1> USE DEF ServerAnswers
<1>1. wire \in Seq(Message) /\ wire # <<>> /\ Head(wire) = wire[1]
      /\ wire[1] \in Message /\ 1 \in 1..Len(wire)
  BY DEF SafeInv, TypeOK
<1>2. wire' \in Seq(Message)
  <2>1. \E x \in {"ok", "denied"} :
          wire' = [wire EXCEPT ![1] = [wire[1] EXCEPT !.reply = x]]
    OBVIOUS
  <2>2. PICK x \in {"ok", "denied"} :
          wire' = [wire EXCEPT ![1] = [wire[1] EXCEPT !.reply = x]]
    BY <2>1
  <2>3. [wire[1] EXCEPT !.reply = x] \in Message
    BY <1>1 DEF Message
  <2> QED BY <1>1, <2>2, <2>3, ExceptSeq
<1>3. Head(wire).key \in Keys
  BY <1>1 DEF Message
<1>4. bound' \subseteq Keys
  BY <1>3 DEF SafeInv, TypeOK
<1>5. out' \subseteq SUBSET URIs
  <2>1. CASE out' = out
    BY <2>1 DEF SafeInv, TypeOK
  <2>2. CASE \E u \in Announce(Head(wire).key), c \in out \cup {{}} :
               out' = (out \ {c}) \cup {c \cup {u}}
    <3>1. PICK u \in Announce(Head(wire).key), c \in out \cup {{}} :
            out' = (out \ {c}) \cup {c \cup {u}}
      BY <2>2
    <3>2. u \in URIs /\ c \subseteq URIs /\ out \subseteq SUBSET URIs
      BY <1>3, AnnounceType DEF SafeInv, TypeOK
    <3> QED BY <3>1, <3>2
  <2> QED BY <2>1, <2>2
<1>6. TypeOK'
  BY <1>2, <1>4, <1>5
     DEF SafeInv, TypeOK, connVars, tableVars, notifVars, lockVars
<1>7. ChannelHasItsCall'
  BY DEF SafeInv, ChannelHasItsCall, Waiters, opKey, notifVars, lockVars
<1> QED BY <1>1, <1>6, <1>7, OthersKeepTables DEF connVars, lockVars

LEMMA ServerSafe == SafeInv /\ ServerStep => SafeInv'
<1> SUFFICES ASSUME SafeInv, ServerStep PROVE SafeInv' OBVIOUS
<1>1. ASSUME NEW k \in Keys, ChannelOpens(k) PROVE SafeInv'
  <2>1. TypeOK'
    BY <1>1 DEF ChannelOpens, SafeInv, TypeOK, tableVars, notifVars, lockVars
  <2>2. ChannelHasItsCall'
    BY <1>1 DEF ChannelOpens, SafeInv, ChannelHasItsCall, Waiters, opKey,
       notifVars, lockVars
  <2> QED BY <1>1, <2>1, <2>2, OthersKeepTables DEF ChannelOpens, lockVars
<1> QED BY <1>1, ServerAnswersSafe DEF ServerStep

LEMMA OrphanSafe == SafeInv /\ OrphanStep => SafeInv'
<1> SUFFICES ASSUME SafeInv, OrphanStep PROVE SafeInv' OBVIOUS
<1> USE DEF connVars, tableVars, notifVars
<1>1. ASSUME NEW k \in Keys, HandleChannel(k) PROVE SafeInv'
  <2>1. TypeOK'
    BY <1>1 DEF HandleChannel, SafeInv, TypeOK
  <2>2. ChannelHasItsCall'
    BY <1>1 DEF HandleChannel, SafeInv, ChannelHasItsCall, Waiters, opKey
  <2> QED BY <1>1, <2>1, <2>2, OthersKeepTables DEF HandleChannel
<1>2. ASSUME NEW k \in Keys, OrphanCancels(k) PROVE SafeInv'
  <2>1. wire' \in Seq(Message)
    <3>1. wire' = wire \/ wire' = Append(wire, Msg("cancel", k, "orphan"))
      BY <1>2 DEF OrphanCancels
    <3>2. wire \in Seq(Message)
      BY DEF SafeInv, TypeOK
    <3> HIDE DEF connVars, tableVars, notifVars
    <3> QED BY <3>1, <3>2, AppendType
  <2>2. orphan' \in [Keys -> {"none", "spawned", "sending"}]
    BY <1>2 DEF OrphanCancels, SafeInv, TypeOK
  <2>3. TypeOK'
    BY <1>2, <2>1, <2>2 DEF OrphanCancels, SafeInv, TypeOK
  <2>4. ChannelHasItsCall'
    BY <1>2 DEF OrphanCancels, SafeInv, ChannelHasItsCall, Waiters, opKey
  <2>5. wire # <<>> \/ wire' = <<>> \/ connected
    BY <1>2 DEF OrphanCancels
  <2> QED BY <1>2, <2>3, <2>4, <2>5, OthersKeepTables DEF OrphanCancels
<1>3. ASSUME NEW i \in 1..Len(wire), OrphanGivesUp(i) PROVE SafeInv'
  <2>0. wire \in Seq(Message) /\ wire[i] \in Message
    BY DEF SafeInv, TypeOK
  <2>1. wire' \in Seq(Message)
    BY <1>3, <2>0, AbandonType DEF OrphanGivesUp
  <2>2. orphan' \in [Keys -> {"none", "spawned", "sending"}]
    BY <1>3, <2>0 DEF OrphanGivesUp, SafeInv, TypeOK, Message
  <2>3. TypeOK'
    BY <1>3, <2>1, <2>2 DEF OrphanGivesUp, SafeInv, TypeOK
  <2>4. ChannelHasItsCall'
    BY <1>3 DEF OrphanGivesUp, SafeInv, ChannelHasItsCall, Waiters, opKey
  <2>5. wire # <<>>
    BY <2>0
  <2> QED BY <1>3, <2>3, <2>4, <2>5, OthersKeepTables DEF OrphanGivesUp
<1>4. ASSUME ReplyToOther PROVE SafeInv'
  <2>0. /\ wire \in Seq(Message) /\ Head(wire) \in Message
        /\ Tail(wire) \in Seq(Message)
    BY <1>4 DEF ReplyToOther, SafeInv, TypeOK
  <2>1. orphan' \in [Keys -> {"none", "spawned", "sending"}]
    BY <1>4, <2>0 DEF ReplyToOther, SafeInv, TypeOK, Message
  <2>2. TypeOK'
    BY <1>4, <2>0, <2>1 DEF ReplyToOther, SafeInv, TypeOK
  <2>3. ChannelHasItsCall'
    BY <1>4 DEF ReplyToOther, SafeInv, ChannelHasItsCall, Waiters, opKey
  <2> QED BY <1>4, <2>2, <2>3, OthersKeepTables DEF ReplyToOther
<1> QED BY <1>1, <1>2, <1>3, <1>4 DEF OrphanStep

LEMMA ReaderSafe ==
  ASSUME SafeInv, NEW r \in Readers, ReaderStep(r) PROVE SafeInv'
<1> USE DEF connVars, tableVars, lockVars
<1>1. ASSUME ReaderTakes(r) PROVE SafeInv'
  <2> USE <1>1 DEF ReaderTakes
  <2>1. PICK c \in out :
          /\ out' = out \ {c}
          /\ readers' = [readers EXCEPT ![r] =
               IF Waiters = {} THEN IdleReader
               ELSE [uris |-> c, targets |-> Waiters, stale |-> {}]]
    OBVIOUS
  <2>2. c \subseteq URIs /\ Waiters \subseteq Keys
    BY DEF SafeInv, TypeOK, Waiters
  <2>3. readers' \in [Readers -> Reader]
    BY <2>1, <2>2 DEF SafeInv, TypeOK, Reader, IdleReader
  <2>4. TypeOK'
    BY <2>1, <2>3 DEF SafeInv, TypeOK
  <2>5. ChannelHasItsCall'
    BY <2>1, <2>3 DEF SafeInv, TypeOK, ChannelHasItsCall, Waiters, opKey,
       IdleReader
  <2> QED BY <2>4, <2>5, OthersKeepTables DEF SafeInv, NothingOutlivesConnection
<1>2. ASSUME ReaderPanics(r) PROVE SafeInv'
  BY <1>2 DEF ReaderPanics, SafeInv, TypeOK, CallShape, ChannelHasItsCall,
     NothingOutlivesConnection, RegisteredIsVerified, AddressesAreRegistered,
     notifVars, Registered, Waiters, opKey
<1>3. ASSUME NEW k \in Keys, ReaderSends(r, k) PROVE SafeInv'
  <2> USE <1>3 DEF ReaderSends
  <2>1. readers[r] \in Reader /\ k \in Waiters
        /\ addrNotifications[k] \in Seq(SUBSET URIs)
    BY DEF SafeInv, TypeOK, ChannelHasItsCall, Waiters
  <2>2. Append(addrNotifications[k], readers[r].uris) \in Seq(SUBSET URIs)
    BY <2>1 DEF Reader
  <2>3. addrNotifications' \in [Keys -> Seq(SUBSET URIs) \cup {NoChan}]
        /\ Waiters' = Waiters
    BY <2>1, <2>2, AbsentAssumption DEF SafeInv, TypeOK, Waiters
  <2>4. ReaderAfter(r, k) \in Reader
        /\ ReaderAfter(r, k).targets \subseteq readers[r].targets
    BY <2>1 DEF ReaderAfter, Reader, IdleReader
  <2>5. readers' \in [Readers -> Reader]
        /\ \A q \in Readers : readers'[q].targets \subseteq readers[q].targets
    BY <2>4 DEF SafeInv, TypeOK
  <2>6. TypeOK'
    BY <2>3, <2>5 DEF SafeInv, TypeOK
  <2>7. ChannelHasItsCall'
    BY <2>3, <2>5 DEF SafeInv, ChannelHasItsCall, opKey
  <2> QED BY <2>6, <2>7, OthersKeepTables DEF SafeInv, NothingOutlivesConnection
<1> QED BY <1>1, <1>2, <1>3 DEF ReaderStep

LEMMA RestartSafe == SafeInv /\ Restart => SafeInv'
<1> SUFFICES ASSUME SafeInv, Restart PROVE SafeInv' OBVIOUS
<1> USE DEF SafeInv, Restart, IdleOp, IdleReader
<1>1. TypeOK'
  <2>1. op' \in [step : Steps, fwd : Requests \cup {NoFwd}, todo : SUBSET Keys]
    BY DEF Steps
  <2>2. readers' \in [Readers -> Reader]
    BY DEF Reader
  <2>3. wire' \in Seq(Message) /\ out' \subseteq SUBSET URIs
    OBVIOUS
  <2> QED BY <2>1, <2>2, <2>3 DEF TypeOK
<1>2. CallShape' /\ ChannelHasItsCall'
  BY DEF CallShape, HasWaiter, Registered, ChannelHasItsCall, Waiters
<1>3. NothingOutlivesConnection' /\ RegisteredIsVerified'
      /\ AddressesAreRegistered'
  BY DEF NothingOutlivesConnection, RegisteredIsVerified,
         AddressesAreRegistered, Registered
<1> QED BY <1>1, <1>2, <1>3

(***************************************************************************)
(* SafeInv is an invariant, whatever the server, the callers, the clients  *)
(* and the readers do.                                                     *)
(***************************************************************************)
THEOREM SafeInvHolds == Spec => []SafeInv
<1>1. SafeInv /\ [Next]_vars => SafeInv'
  BY StutterSafe, ConnectionSafe, CallBeginsSafe, CallContinuesSafe,
     ServerSafe, OrphanSafe, ReaderSafe, RestartSafe DEF Next
<1> QED BY InitSafe, <1>1, PTL DEF Spec

(***************************************************************************)
(* Every variable keeps its type.                                          *)
(***************************************************************************)
THEOREM TypeCorrect == Spec => []TypeOK
<1>1. SafeInv => TypeOK
  BY DEF SafeInv
<1> QED BY <1>1, SafeInvHolds, PTL

(***************************************************************************)
(* A forwarding that asks for a hostname or pins its port is registered    *)
(* only with URIs that satisfy it (handleAssignedURIs).                    *)
(***************************************************************************)
THEOREM Verified == Spec => []RegisteredIsVerified
<1>1. SafeInv => RegisteredIsVerified
  BY DEF SafeInv
<1> QED BY <1>1, SafeInvHolds, PTL

(***************************************************************************)
(* No call, request, registration or address outlives closeClient.         *)
(***************************************************************************)
THEOREM ConnectionBounds == Spec => []NothingOutlivesConnection
<1>1. SafeInv => NothingOutlivesConnection
  BY DEF SafeInv
<1> QED BY <1>1, SafeInvHolds, PTL

(***************************************************************************)
(* A notification channel exists exactly while its StartForwarding runs.   *)
(***************************************************************************)
THEOREM ChannelsFollowCalls == Spec => []ChannelHasItsCall
<1>1. SafeInv => ChannelHasItsCall
  BY DEF SafeInv
<1> QED BY <1>1, SafeInvHolds, PTL

(***************************************************************************)
(* GetAssignedAddresses answers only for registered forwardings, or the    *)
(* one being registered.                                                   *)
(***************************************************************************)
THEOREM AddressesFollowTable == Spec => []AddressesAreRegistered
<1>1. SafeInv => AddressesAreRegistered
  BY DEF SafeInv
<1> QED BY <1>1, SafeInvHolds, PTL

(***************************************************************************)
(* Addresses that handleAssignedURIs accepts for a request are valid for   *)
(* isForwardingValid, which has its own list of wildcard names.            *)
(***************************************************************************)
LEMMA AcceptedIsValid ==
  ASSUME NEW fwd \in Requests, NEW uris \in SUBSET URIs,
         uris # {}, Accepts(fwd, uris)
  PROVE  ForwardingValid(fwd, uris)
<1>1. CASE NeedsVerification(fwd)
  BY <1>1 DEF Accepts, ForwardingValid
<1>2. CASE ~NeedsVerification(fwd)
  <2>1. Wildcard(fwd.host) /\ ~fwd.enforce
    BY <1>2 DEF NeedsVerification
  <2>2. PICK u \in uris : IsHTTP(u) \/ IsTCP(u)
    BY SchemeAssumption
  <2>3. URIMatches(u, fwd.host, fwd.port, fwd.enforce)
    BY <2>1, <2>2 DEF URIMatches
  <2> QED BY <2>3 DEF ForwardingValid, MatchesRequestedHost
<1> QED BY <1>1, <1>2

(***************************************************************************)
(* The addresses of a registered forwarding stay valid for the             *)
(* reconcilers, whatever was requested and announced.                      *)
(***************************************************************************)
THEOREM AddressesStayValid == Spec => []StoredStaysValid
<1>1. SafeInv => StoredStaysValid
  <2> SUFFICES ASSUME SafeInv, NEW k \in Registered, assignedAddrs[k] # {}
               PROVE  ForwardingValid(forwardings[k], assignedAddrs[k])
    BY DEF StoredStaysValid
  <2>1. k \in Keys /\ forwardings[k] \in Requests /\ assignedAddrs[k] \in SUBSET URIs
    BY DEF SafeInv, TypeOK, Registered
  <2>2. Accepts(forwardings[k], assignedAddrs[k])
    BY DEF SafeInv, RegisteredIsVerified, Accepts
  <2> QED BY <2>1, <2>2, AcceptedIsValid
<1> QED BY <1>1, SafeInvHolds, PTL

-------------------------------------------------------------------------------
\* TunnelManager implements ForwardingTable: the tables change only by Open, Enter,
\* Remove and Close, whatever happens in between.
LEMMA InitMaps == Init => Table!Init
BY DEF Init, Table!Init, Table!Empty, Table!NoAddr, Table!Keys, Keys,
       KnownAddrs, Registered

\* A step that leaves the tables of registered keys alone is a stutter.
LEMMA StutterMaps ==
  ASSUME UNCHANGED <<connected, forwardings>>,
         \A k \in Registered : assignedAddrs'[k] = assignedAddrs[k]
  PROVE  UNCHANGED Table!tvars
<1>1. Registered' = Registered
  BY DEF Registered
<1> QED BY <1>1 DEF Table!tvars, KnownAddrs

LEMMA ConnectMaps == SafeInv /\ Connect => Table!Next
BY DEF Connect, SafeInv, Table!Next, Table!Open, tableVars, KnownAddrs,
       Registered

\* Closing: a closed connection has empty tables already.
LEMMA ClosedMaps ==
  ASSUME SafeInv,
         connected' = FALSE, forwardings' = [k \in Keys |-> NoFwd],
         assignedAddrs' = [k \in Keys |-> {}]
  PROVE  [Table!Next]_Table!tvars
<1>1. KnownAddrs' = [k \in Keys |-> {}]
  BY DEF KnownAddrs, Registered
<1>2. CASE connected
  BY <1>1, <1>2 DEF Table!Next, Table!Close, Table!Empty, Table!NoAddr,
     Table!Keys, Keys
<1>3. CASE ~connected
  <2>1. forwardings = [k \in Keys |-> NoFwd] /\ KnownAddrs = [k \in Keys |-> {}]
    BY <1>3 DEF SafeInv, TypeOK, NothingOutlivesConnection, KnownAddrs,
       Registered
  <2> QED BY <1>1, <1>3, <2>1 DEF Table!tvars, SafeInv, TypeOK
<1> QED BY <1>2, <1>3 DEF SafeInv, TypeOK

LEMMA StopMaps ==
  ASSUME SafeInv, NEW k \in Keys, StopForwarding(k) PROVE Table!Next
<1>1. forwardings[k] # NoFwd /\ Registered' = Registered \ {k}
  BY DEF StopForwarding, SafeInv, TypeOK, Registered
<1>2. KnownAddrs' = [KnownAddrs EXCEPT ![k] = {}]
  BY <1>1 DEF StopForwarding, SafeInv, TypeOK, KnownAddrs
<1>3. Table!Remove(k)
  BY <1>1, <1>2 DEF StopForwarding, Table!Remove, connVars
<1> QED BY <1>3 DEF Table!Next, Table!Keys, Keys

LEMMA RegisterMaps == SafeInv /\ Register => Table!Next
<1> SUFFICES ASSUME SafeInv, Register PROVE Table!Next OBVIOUS
<1>1. op.fwd \in Requests /\ opKey \in Keys /\ op.fwd # NoFwd
  BY OpKeyType, AbsentAssumption DEF Register
<1>2. connected /\ forwardings[opKey] = NoFwd /\ assignedAddrs[opKey] \subseteq URIs
      /\ MayStore(op.fwd, assignedAddrs[opKey])
  BY <1>1 DEF Register, SafeInv, TypeOK, CallShape, NothingOutlivesConnection,
     IdleOp, HasWaiter, Registered, MayStore
<1>3. Registered' = Registered \cup {opKey}
  BY <1>1 DEF Register, SafeInv, TypeOK, Registered
<1>4. KnownAddrs' = [KnownAddrs EXCEPT ![opKey] = assignedAddrs[opKey]]
  BY <1>1, <1>3 DEF Register, SafeInv, TypeOK, KnownAddrs
<1>5. Table!Enter(op.fwd, assignedAddrs[opKey])
  BY <1>1, <1>2, <1>4 DEF Register, Table!Enter, connVars, opKey
<1> QED BY <1>1, <1>2, <1>5 DEF Table!Next

\* The URIs of a call that has not returned are not in the table yet.
LEMMA URIsArriveMaps == SafeInv /\ URIsArrive => UNCHANGED Table!tvars
<1> SUFFICES ASSUME SafeInv, URIsArrive PROVE UNCHANGED Table!tvars OBVIOUS
<1>1. opKey \in Keys /\ opKey \notin Registered
  BY OpKeyType DEF URIsArrive, SafeInv, CallShape, HasWaiter
<1>2. \A k \in Registered : assignedAddrs'[k] = assignedAddrs[k]
  BY <1>1 DEF URIsArrive, SafeInv, TypeOK, Registered
<1> QED BY <1>2, StutterMaps DEF URIsArrive, connVars

(***************************************************************************)
(* Every step of the manager, of the server or of another goroutine is a   *)
(* step of the abstract table or leaves it alone.                          *)
(***************************************************************************)
LEMMA StepMaps == SafeInv /\ [Next]_vars => [Table!Next]_Table!tvars
<1> SUFFICES ASSUME SafeInv, [Next]_vars PROVE [Table!Next]_Table!tvars OBVIOUS
<1> USE DEF vars, connVars, tableVars
<1>1. CASE UNCHANGED vars
  BY <1>1, StutterMaps
<1>2. CASE ConnectionStep
  <2>1. CASE Connect
    BY <2>1, ConnectMaps
  <2>2. CASE MonitorCloses
    BY <2>2, ClosedMaps DEF MonitorCloses, closeClient
  <2>3. CASE \/ CaptureReady \/ CaptureFails \/ CaptureEnds
             \/ \E t \in {"mute", "down"} : TransportFails(t)
    BY <2>3, StutterMaps DEF CaptureReady, CaptureFails, CaptureEnds,
       TransportFails
  <2> QED BY <1>2, <2>1, <2>2, <2>3 DEF ConnectionStep
<1>3. CASE CallBegins
  <2>1. ASSUME NEW k \in Keys, StopForwarding(k) PROVE Table!Next
    BY <2>1, StopMaps
  <2>2. CASE Stop \/ \E fwd \in Requests : StartForwarding(fwd)
    BY <2>2, StutterMaps DEF Stop, StartForwarding
  <2> QED BY <1>3, <2>1, <2>2 DEF CallBegins
<1>4. CASE CallContinues
  <2>1. CASE Register
    BY <2>1, RegisterMaps
  <2>2. CASE URIsArrive
    BY <2>2, URIsArriveMaps
  <2>3. CASE StopCloses
    BY <2>3, ClosedMaps DEF StopCloses, closeClient
  <2>4. CASE \/ CaptureWaited \/ VerificationTimeout \/ ReplyToOp
             \/ \E k \in Keys : StopCancels(k)
             \/ \E i \in 1..Len(wire) : RequestFails(i)
    BY <2>4, StutterMaps DEF CaptureWaited, VerificationTimeout, ReplyToOp,
       StopCancels, RequestFails
  <2> QED BY <1>4, <2>1, <2>2, <2>3, <2>4 DEF CallContinues
<1>5. CASE ServerStep \/ OrphanStep
  BY <1>5, StutterMaps DEF ServerStep, OrphanStep, ServerAnswers, ChannelOpens,
     HandleChannel, OrphanCancels, OrphanGivesUp, ReplyToOther
<1>6. CASE \E r \in Readers : ReaderStep(r)
  BY <1>6, StutterMaps DEF ReaderStep, ReaderTakes, ReaderSends, ReaderPanics
<1>7. CASE Restart
  BY <1>7, ClosedMaps DEF Restart
<1> QED BY <1>1, <1>2, <1>3, <1>4, <1>5, <1>6, <1>7 DEF Next

(***************************************************************************)
(* The manager implements the forwarding table: no interleaving of its     *)
(* calls with the server, the monitor, the orphan goroutines and the       *)
(* readers enters, replaces or drops an entry in another way.              *)
(***************************************************************************)
THEOREM Implements == Spec => ImplementsTable
BY InitMaps, StepMaps, SafeInvHolds, PTL DEF Spec, ImplementsTable, Table!Spec
===============================================================================
