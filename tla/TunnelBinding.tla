---------------------------- MODULE TunnelBinding ----------------------------
(***************************************************************************)
(* Proof that a registered forwarding stays bound at the server as long as *)
(* no client opens a channel on a key that is not registered: neither the  *)
(* pre-emptive cancel of an enforced port, nor a cancel whose caller timed *)
(* out, nor the cancel of a refused address can take it down.              *)
(***************************************************************************)
EXTENDS TunnelManagerProofs

LEMMA InitBinds == Init => Bindings
BY DEF Init, Bindings, WireShape, BoundShape, Registered, IdleOp

\* A step that touches neither the requests nor the registered keys.
LEMMA QuietBinds ==
  ASSUME Bindings,
         UNCHANGED <<wire, bound, op, opened, orphan>>,
         Registered' \subseteq Registered
  PROVE  Bindings'
BY DEF Bindings, WireShape, BoundShape, opKey

\* The connection is closed: there is nothing left to protect.
LEMMA ClosedBinds ==
  ASSUME Bindings, closeClient, op' = IdleOp, UNCHANGED orphan
  PROVE  Bindings'
BY DEF Bindings, WireShape, BoundShape, closeClient, IdleOp, Registered

\* The call sends a request when it has none under way.
LEMMA SendBinds ==
  ASSUME SafeInv, Bindings, op.step \notin Waiting,
         NEW req \in {"start", "cancel"}, NEW k \in Keys,
         wire' = Append(wire, Msg(req, k, "op")), opKey' = k,
         op'.step \in Waiting, req = "start" <=> op'.step = "request",
         Registered' \subseteq Registered, UNCHANGED <<bound, opened, orphan>>,
         \/ op'.step = "stopcancel"
         \/ op.step \notin {"stopall", "stopcancel"} /\ k \notin Registered'
  PROVE  Bindings'
<1> DEFINE m == Msg(req, k, "op")
<1>1. /\ wire \in Seq(Message) /\ m \in Message
      /\ m.waiter = "op" /\ m.reply = "none" /\ m.key = k /\ m.req = req
  BY DEF SafeInv, TypeOK, Message, Msg
<1> HIDE DEF m
<1>2. /\ wire' = Append(wire, m) /\ Len(wire') = Len(wire) + 1
      /\ wire'[Len(wire')] = m
      /\ \A i \in 1..Len(wire) : wire'[i] = wire[i]
  BY <1>1 DEF m
<1>3. \A i \in 1..Len(wire) : wire[i].waiter # "op"
  BY DEF Bindings, WireShape
<1>4. WireShape'
  BY <1>1, <1>2, <1>3 DEF Bindings, WireShape, Waiting
<1>5. BoundShape'
  BY <1>1, <1>2, <1>3 DEF Bindings, BoundShape, Waiting
<1> QED BY <1>4, <1>5 DEF Bindings

LEMMA ConnectionBinds ==
  ASSUME SafeInv, Bindings, ConnectionStep PROVE Bindings'
<1> USE DEF tableVars, lockVars, Registered
<1>1. CASE Connect
  BY <1>1 DEF Connect, SafeInv, NothingOutlivesConnection, IdleOp, Bindings,
     WireShape, BoundShape, opKey
<1>2. CASE MonitorCloses
  <2>1. op' = IdleOp
    BY <1>2 DEF MonitorCloses, LockFree, SafeInv, CallShape
  <2> QED BY <1>2, <2>1, ClosedBinds DEF MonitorCloses
<1>3. CASE \/ CaptureReady \/ CaptureFails \/ CaptureEnds
           \/ \E t \in {"mute", "down"} : TransportFails(t)
  BY <1>3, QuietBinds DEF CaptureReady, CaptureFails, CaptureEnds,
     TransportFails
<1> QED BY <1>1, <1>2, <1>3 DEF ConnectionStep

LEMMA CallBeginsBinds ==
  ASSUME SafeInv, Bindings, CallBegins PROVE Bindings'
<1>1. ASSUME NEW fwd \in Requests, StartForwarding(fwd) PROVE Bindings'
  BY <1>1 DEF StartForwarding, LockFree, Bindings, WireShape, BoundShape,
     Waiting, Registered, connVars, tableVars
<1>2. ASSUME NEW k \in Keys, StopForwarding(k) PROVE Bindings'
  <2>1. /\ op.step = "idle" /\ op'.step = "stop" /\ opKey' = k
        /\ Registered' = Registered \ {k}
    BY <1>2 DEF StopForwarding, LockFree, SafeInv, TypeOK, CallShape, opKey,
       Registered
  <2> QED BY <1>2, <2>1, SendBinds DEF StopForwarding, Waiting, connVars
<1>3. CASE Stop
  BY <1>3 DEF Stop, LockFree, Bindings, WireShape, BoundShape, Waiting,
     Registered, connVars, tableVars
<1> QED BY <1>1, <1>2, <1>3 DEF CallBegins

LEMMA StepsBind ==
  ASSUME SafeInv, Bindings,
         \/ CaptureWaited \/ URIsArrive \/ VerificationTimeout \/ Register
         \/ \E k \in Keys : StopCancels(k)
  PROVE  Bindings'
<1> USE DEF connVars, tableVars, Registered
<1>0. op \in [step : Steps, fwd : Requests \cup {NoFwd}, todo : SUBSET Keys]
  BY DEF SafeInv, TypeOK
<1>1. CASE CaptureWaited
  <2>1. /\ op.step = "capture" /\ opKey' = opKey /\ opKey \in Keys
        /\ opKey \notin Registered
    BY <1>0, <1>1, OpKeyType DEF CaptureWaited, SafeInv, CallShape, opKey
  <2>2. CASE op.fwd.enforce
    BY <1>0, <1>1, <2>1, <2>2, SendBinds DEF CaptureWaited, Waiting
  <2>3. CASE ~op.fwd.enforce
    BY <1>0, <1>1, <2>1, <2>3, SendBinds DEF CaptureWaited, Waiting
  <2> QED BY <2>2, <2>3
<1>2. CASE URIsArrive \/ VerificationTimeout
  <2>1. /\ op.step = "await" /\ opKey' = opKey /\ opKey \in Keys
        /\ opKey \notin Registered /\ UNCHANGED <<forwardings, bound>>
        /\ UNCHANGED <<opened, orphan>>
    BY <1>0, <1>2, OpKeyType DEF URIsArrive, VerificationTimeout, SafeInv,
       CallShape, HasWaiter, opKey
  <2>2. \/ op'.step = "undo" /\ wire' = Append(wire, Msg("cancel", opKey, "op"))
        \/ op'.step = "register" /\ wire' = wire
    BY <1>0, <1>2 DEF URIsArrive, VerificationTimeout
  <2>3. CASE op'.step = "undo" /\ wire' = Append(wire, Msg("cancel", opKey, "op"))
    BY <2>1, <2>3, SendBinds DEF Waiting
  <2>4. CASE op'.step = "register" /\ wire' = wire
    BY <2>1, <2>4 DEF Bindings, WireShape, BoundShape
  <2> QED BY <2>2, <2>3, <2>4
<1>3. CASE Register
  <2>1. op.step = "register" /\ op'.step = "idle" /\ wire = <<>>
        /\ opKey \in bound
    BY <1>3 DEF Register, IdleOp, Bindings, WireShape, BoundShape
  <2>2. Registered' \subseteq Registered \cup {opKey}
    BY <1>3, OpKeyType DEF Register, SafeInv, TypeOK
  <2> QED BY <1>3, <2>1, <2>2 DEF Register, Bindings, WireShape, BoundShape
<1>4. ASSUME NEW k \in Keys, StopCancels(k) PROVE Bindings'
  <2>1. op.step = "stopall" /\ op'.step = "stopcancel" /\ opKey' = k
    BY <1>4 DEF StopCancels, SafeInv, CallShape, opKey
  <2> QED BY <1>4, <2>1, SendBinds DEF StopCancels, Waiting
<1> QED BY <1>1, <1>2, <1>3, <1>4

\* The call deals with the outcome of its request: w is the wire without the
\* request, or with nobody waiting for it.
LEMMA OutcomeBinds ==
  ASSUME SafeInv, Bindings, NEW ok \in BOOLEAN, NEW w \in Seq(Message),
         OpContinues(ok, w), UNCHANGED <<forwardings, bound, opened, orphan>>,
         op.step \in Waiting,
         \A i \in 1..Len(w) :
           /\ w[i].waiter = "nobody" /\ (w[i].reply # "none" => i = 1)
           /\ w[i].key \notin Registered \/ op.step = "stopcancel"
              \/ w[i].req # "cancel" \/ w[i].reply # "none",
         ok => w = <<>> /\ (op.step = "request" => opKey \in bound)
  PROVE  Bindings'
<1> USE DEF Registered, Waiting
<1>a. op \in [step : Steps, fwd : Requests \cup {NoFwd}, todo : SUBSET Keys]
  BY DEF SafeInv, TypeOK
<1>b. opKey \in Keys
  BY OpKeyType
<1>c. op' = IdleOp \/ \E s \in {"request", "await", "stopall"} :
                         op' = [op EXCEPT !.step = s]
  BY DEF OpContinues
<1>d. op'.step # "idle" => opKey' = opKey
  BY <1>a, <1>c DEF opKey, IdleOp
<1>0. opKey \in Keys /\ (op'.step # "idle" => opKey' = opKey)
      /\ op'.step \in {"idle", "request", "await", "stopall"}
  BY <1>a, <1>b, <1>c, <1>d DEF IdleOp
<1>1. CASE op.step = "precancel"
  <2> DEFINE m == Msg("start", opKey, "op")
  <2>1. /\ m \in Message
        /\ m.waiter = "op" /\ m.reply = "none" /\ m.key = opKey
        /\ m.req = "start"
    BY <1>0 DEF Message, Msg
  <2> HIDE DEF m
  <2>2. wire' = Append(w, m) /\ op'.step = "request"
    BY <1>a, <1>1 DEF OpContinues, m
  <2>3. /\ Len(wire') = Len(w) + 1 /\ wire'[Len(wire')] = m
        /\ \A i \in 1..Len(w) : wire'[i] = w[i]
    BY <2>1, <2>2
  <2>4. WireShape'
    BY <1>0, <1>1, <2>1, <2>2, <2>3 DEF Bindings, WireShape
  <2>5. BoundShape'
    BY <1>0, <1>1, <2>1, <2>2, <2>3 DEF Bindings, BoundShape
  <2> QED BY <2>4, <2>5 DEF Bindings
<1>2. CASE op.step # "precancel"
  <2>1. /\ wire' = w
        /\ \/ op.step = "request" /\ ok /\ op'.step = "await"
           \/ op.step \in {"request", "undo", "stop"} /\ op'.step = "idle"
           \/ op.step = "stopcancel" /\ op'.step = "stopall"
    BY <1>a, <1>2 DEF OpContinues, IdleOp
  <2>2. WireShape'
    BY <1>0, <2>1 DEF Bindings, WireShape
  <2>3. BoundShape'
    BY <1>0, <2>1 DEF Bindings, BoundShape
  <2> QED BY <2>2, <2>3 DEF Bindings
<1> QED BY <1>1, <1>2

LEMMA ReplyBinds == ASSUME SafeInv, Bindings, ReplyToOp PROVE Bindings'
<1>1. wire \in Seq(Message) /\ wire # <<>> /\ wire[1] = Head(wire)
      /\ 1 \in 1..Len(wire)
  BY DEF ReplyToOp, SafeInv, TypeOK
<1>2. Len(wire) = 1 /\ op.step \in Waiting
  <2>1. wire[1].waiter = "op"
    BY <1>1 DEF ReplyToOp
  <2> QED BY <1>1, <2>1 DEF Bindings, WireShape
<1>3. Tail(wire) = <<>>
  <2>1. Tail(wire) \in Seq(Message) /\ Len(Tail(wire)) = 0
    BY <1>1, <1>2
  <2> QED BY <2>1, EmptySeq
<1>4. op.step = "request" /\ wire[1].reply = "ok" => opKey \in bound
  BY <1>1 DEF ReplyToOp, Bindings, BoundShape
<1>5. UNCHANGED <<forwardings, bound, opened, orphan>>
  BY DEF ReplyToOp, connVars, tableVars
<1>6. <<>> \in Seq(Message) /\ 1..Len(<<>>) = {}
  OBVIOUS
<1>7. CASE Head(wire).reply = "ok"
  <2>1. OpContinues(TRUE, <<>>)
    BY <1>3, <1>7 DEF ReplyToOp, OpContinues
  <2>2. op.step = "request" => opKey \in bound
    BY <1>1, <1>4, <1>7
  <2> QED BY <1>2, <1>5, <1>6, <2>1, <2>2, OutcomeBinds
<1>8. CASE Head(wire).reply # "ok"
  <2>1. OpContinues(FALSE, <<>>)
    BY <1>3, <1>8 DEF ReplyToOp, OpContinues
  <2> QED BY <1>2, <1>5, <1>6, <2>1, OutcomeBinds
<1> QED BY <1>7, <1>8

LEMMA FailureBinds ==
  ASSUME SafeInv, Bindings, NEW i \in 1..Len(wire), RequestFails(i)
  PROVE  Bindings'
<1> DEFINE w == [wire EXCEPT ![i].waiter = "nobody"]
<1>1. wire \in Seq(Message) /\ w \in Seq(Message)
  BY AbandonType DEF SafeInv, TypeOK
<1>2. i = Len(wire) /\ op.step \in Waiting
  BY DEF RequestFails, Bindings, WireShape
<1> DEFINE e == [wire[i] EXCEPT !.waiter = "nobody"]
<1>d. wire[i] \in Message
  BY <1>1
<1>e. /\ e \in Message /\ e.waiter = "nobody"
      /\ e.req = wire[i].req /\ e.key = wire[i].key /\ e.reply = wire[i].reply
  BY <1>d DEF Message
<1>f. w = [wire EXCEPT ![i] = e]
  OBVIOUS
<1> HIDE DEF e, w
<1>g. /\ Len(w) = Len(wire)
      /\ \A j \in 1..Len(wire) : w[j] = IF j = i THEN e ELSE wire[j]
  BY <1>1, <1>e, <1>f, ExceptSeq
<1>3. /\ Len(w) = Len(wire) /\ w[i].waiter = "nobody"
      /\ \A j \in 1..Len(wire) :
           /\ j # i => w[j] = wire[j]
           /\ w[j].req = wire[j].req /\ w[j].key = wire[j].key
           /\ w[j].reply = wire[j].reply
  BY <1>e, <1>g
<1>4. OpContinues(FALSE, w) /\ UNCHANGED <<forwardings, bound, opened, orphan>>
  BY DEF RequestFails, connVars, tableVars, w
<1>5. \A j \in 1..Len(w) :
        w[j].waiter = "nobody" /\ (w[j].reply # "none" => j = 1)
  <2>1. \A j \in 1..Len(w) : j # i => w[j].waiter \notin {"op", "orphan"}
    BY <1>1, <1>2, <1>3 DEF Bindings, WireShape
  <2>2. \A j \in 1..Len(w) : w[j].waiter \in {"op", "orphan", "nobody"}
    <3>1. \A j \in 1..Len(w) : w[j] \in Message
      BY <1>1
    <3> QED BY <3>1 DEF Message
  <2> QED BY <1>3, <2>1, <2>2 DEF Bindings, WireShape
<1>6. \A j \in 1..Len(w) :
        \/ w[j].key \notin Registered \/ op.step = "stopcancel"
        \/ w[j].req # "cancel" \/ w[j].reply # "none"
  BY <1>2, <1>3 DEF Bindings, BoundShape, Waiting
<1> QED BY <1>1, <1>2, <1>4, <1>5, <1>6, OutcomeBinds

LEMMA AnswerBinds ==
  ASSUME SafeInv, Bindings, NEW ok \in BOOLEAN, ServerAnswers(ok)
  PROVE  Bindings'
<1> DEFINE r == IF ok THEN "ok" ELSE "denied"
<1>1. wire \in Seq(Message) /\ wire # <<>> /\ wire[1] = Head(wire)
      /\ wire[1].reply = "none" /\ \A i \in 1..Len(wire) : wire[i] \in Message
  BY DEF ServerAnswers, SafeInv, TypeOK
<1>2. /\ Len(wire') = Len(wire) /\ wire'[1].reply # "none"
      /\ wire'[1].reply = "ok" <=> ok
      /\ wire'[1].waiter = wire[1].waiter /\ wire'[1].key = wire[1].key
      /\ wire'[1].req = wire[1].req
      /\ \A i \in 2..Len(wire) : wire'[i] = wire[i]
  BY <1>1 DEF ServerAnswers, Message
<1>3. UNCHANGED <<op, forwardings, opened, orphan>>
  BY DEF ServerAnswers, connVars, tableVars, lockVars
<1>4. \/ bound \subseteq bound'
         /\ (wire[1].req = "start" /\ ok => wire[1].key \in bound')
      \/ /\ bound' = bound \ {wire[1].key} /\ wire[1].req = "cancel"
  BY <1>1 DEF ServerAnswers, Message
<1>5. WireShape'
  BY <1>1, <1>2, <1>3 DEF Bindings, WireShape, opKey
<1>6. op.step \notin {"await", "register"}
  BY <1>1 DEF Bindings, WireShape
<1>7. BoundShape'
  BY <1>1, <1>2, <1>3, <1>4, <1>6
     DEF Bindings, WireShape, BoundShape, opKey, Registered, Waiting
<1> QED BY <1>5, <1>7 DEF Bindings

LEMMA OtherBinds ==
  ASSUME SafeInv, Bindings, ReplyToOther PROVE Bindings'
<1>1. wire \in Seq(Message) /\ wire # <<>> /\ wire[1] = Head(wire)
  BY DEF ReplyToOther, SafeInv, TypeOK
<1>2. UNCHANGED <<op, forwardings, bound, opened, orphan>>
  BY <1>1 DEF ReplyToOther, connVars, tableVars, Bindings, WireShape
<1>3. /\ Len(wire') = Len(wire) - 1
      /\ \A i \in 1..Len(wire') : wire'[i] = wire[i + 1] /\ i + 1 \in 1..Len(wire)
  BY <1>1 DEF ReplyToOther
<1>4. \A i \in 1..Len(wire') : wire'[i].reply = "none"
  BY <1>3 DEF Bindings, WireShape
<1>5. wire' = <<>> \/ Len(wire') >= 1
  BY <1>1 DEF ReplyToOther
<1>6. WireShape'
  BY <1>1, <1>2, <1>3, <1>4, <1>5 DEF Bindings, WireShape, opKey
<1>7. BoundShape'
  BY <1>1, <1>2, <1>3, <1>4, <1>5 DEF Bindings, BoundShape, opKey, Registered
<1> QED BY <1>6, <1>7 DEF Bindings

\* With no client on an unregistered key there is no orphan.
LEMMA OrphansBind ==
  ASSUME SafeInv, Bindings, VisitedKeys = {},
         ServerStep \/ OrphanStep \/ \E r \in Readers : ReaderStep(r)
  PROVE  Bindings'
<1>1. CASE ServerStep
  BY <1>1, AnswerBinds DEF ServerStep, ChannelOpens
<1>2. CASE OrphanStep
  <2>1. ~ \E k \in Keys : HandleChannel(k) \/ OrphanCancels(k)
    BY DEF HandleChannel, OrphanCancels, Bindings, WireShape
  <2>2. ~ \E i \in 1..Len(wire) : OrphanGivesUp(i)
    BY DEF OrphanGivesUp, Bindings, WireShape
  <2> QED BY <1>2, <2>1, <2>2, OtherBinds DEF OrphanStep
<1>3. CASE \E r \in Readers : ReaderStep(r)
  BY <1>3, QuietBinds DEF ReaderStep, ReaderTakes, ReaderSends, ReaderPanics,
     connVars, tableVars, lockVars, Registered
<1> QED BY <1>1, <1>2, <1>3

LEMMA RestartBinds == ASSUME Bindings, Restart PROVE Bindings'
BY DEF Restart, IdleOp, Bindings, WireShape, BoundShape, Registered

LEMMA NextBinds ==
  ASSUME SafeInv, Bindings, VisitedKeys = {}, [Next]_vars PROVE Bindings'
<1>1. CASE UNCHANGED vars
  BY <1>1, QuietBinds DEF vars, connVars, tableVars, lockVars, Registered
<1>2. CASE CallContinues
  <2>1. CASE StopCloses
    BY <2>1, ClosedBinds DEF StopCloses
  <2> QED BY <1>2, <2>1, StepsBind, ReplyBinds, FailureBinds DEF CallContinues
<1> QED BY <1>1, <1>2, ConnectionBinds, CallBeginsBinds, OrphansBind,
        RestartBinds DEF Next

(***************************************************************************)
(* On a session whose unregistered keys no client reaches, every           *)
(* registered forwarding is bound at the server whenever the lock is free. *)
(***************************************************************************)
THEOREM StaysBound ==
  ASSUME VisitedKeys = {} PROVE Spec => []RegisteredIsBound
<1>1. Init => Bindings
  BY InitBinds
<1>2. SafeInv /\ Bindings /\ [Next]_vars => Bindings'
  BY NextBinds
<1>3. Bindings => RegisteredIsBound
  BY DEF Bindings, BoundShape, RegisteredIsBound
<1> QED BY <1>1, <1>2, <1>3, SafeInvHolds, PTL DEF Spec
===============================================================================
