--------------------------- MODULE SessionPoolProofs ---------------------------
(***************************************************************************)
(* Theorems about SessionPool, for any number of managers and callers.     *)
(***************************************************************************)
EXTENDS SessionPool, TLAPS

\* A manager serves one kind.
Distinct ==
  \A j, k \in Kinds : managers[j] = managers[k] /\ managers[j] # None => j = k

\* The flags the pool remembers are those its manager was made with.
FlagsFollow ==
  \A k \in Kinds : IF managers[k] = None THEN flags[k] = None
                                         ELSE flags[k] = made[managers[k]]

\* A manager somebody looked up serves its kind still, or nothing any more: it
\* is not made again for another.
CallsHold ==
  \A c \in Callers : call[c] \in ManagerCalls =>
    managers[call[c].kind] = call[c].m \/ ~InPool(call[c].m)

\* A Connect holds the lock, and its managers are in the pool.
ConnectHolds ==
  \A c \in Callers : call[c].op = "connect" =>
    config = Unlocked /\ \A m \in call[c].todo : InPool(m)

PPAs(v) == IF v > 0 THEN managers["pp"] # None /\ flags["pp"] = PPFlags(v)
                    ELSE managers["pp"] = None

SNIAs(b) == IF b THEN managers["sni"] # None /\ flags["sni"] = SNIFlags
                 ELSE managers["sni"] = None

\* How far ConfigureSessions has come.
Progress ==
  /\ config # Unlocked /\ config.step = "sni" => PPAs(config.pp)
  /\ config = Unlocked /\ asked # None => PPAs(asked.pp) /\ SNIAs(asked.sni)

(***************************************************************************)
(* The inductive invariant.                                                *)
(***************************************************************************)
PoolShape ==
  Distinct /\ FlagsFollow /\ CallsHold /\ ConnectHolds /\ Progress

PoolInv == TypeOK /\ PoolShape /\ ConnectedIsInPool

-------------------------------------------------------------------------------
\* Types.

LEMMA FlagsTypes ==
  /\ PlainFlags \in Flags /\ SNIFlags \in Flags
  /\ \A v \in Versions : PPFlags(v) \in Flags
BY PoolAssumption DEF PlainFlags, SNIFlags, PPFlags, Flags

LEMMA SessionTypes == Closed \in Sessions /\ Connected \in Sessions
BY DEF Closed, Connected, Sessions

LEMMA InitTypes == Init => TypeOK
BY FlagsTypes, SessionTypes
   DEF Init, TypeOK, Calls, Configs, Flags, Kinds

\* The version or the Passthrough a session is wanted for is one a class asks for.
LEMMA DesiredType ==
  ASSUME TypeOK, NEW k \in {"pp", "sni"}, At(k), Want(k)
  PROVE  Desired(k) \in Flags
<1>1. config \in [step : {"pp", "sni"}, pp : Versions \cup {0}, sni : BOOLEAN]
  BY DEF TypeOK, Configs, Unlocked, At
<1>2. CASE k = "pp"
  <2>1. config.pp \in Versions
    BY <1>1, <1>2, PoolAssumption DEF Want
  <2> QED BY <1>2, <2>1, FlagsTypes DEF Desired
<1>3. CASE k = "sni"
  BY <1>3, FlagsTypes DEF Desired
<1> QED BY <1>2, <1>3

LEMMA NextKindTypes ==
  ASSUME TypeOK, NEW k \in {"pp", "sni"}, At(k), NextKind(k)
  PROVE  config' \in Configs /\ asked' \in Flags \cup {None}
<1>1. config \in [step : {"pp", "sni"}, pp : Versions \cup {0}, sni : BOOLEAN]
  BY DEF TypeOK, Configs, Unlocked, At
<1> QED BY <1>1 DEF NextKind, Return, TypeOK, Configs, Flags

LEMMA ConfigureTypes ==
  ASSUME TypeOK,
         \/ \E v \in Versions \cup {0}, sni \in BOOLEAN : ConfigureSessions(v, sni)
         \/ \E k \in {"pp", "sni"} : ReconcileKind(k)
  PROVE  TypeOK'
<1>1. ASSUME NEW v \in Versions \cup {0}, NEW sni \in BOOLEAN, ConfigureSessions(v, sni)
      PROVE  TypeOK'
  BY <1>1 DEF ConfigureSessions, TypeOK, Configs
<1>2. ASSUME NEW k \in {"pp", "sni"}, KindUnchanged(k) PROVE TypeOK'
  BY <1>2, NextKindTypes DEF KindUnchanged, TypeOK
<1>3. ASSUME NEW k \in {"pp", "sni"}, StopKind(k) PROVE TypeOK'
  <2>1. k \in Kinds /\ managers[k] \in Managers
    BY <1>3 DEF StopKind, TypeOK, Kinds
  <2>2. config' \in Configs /\ asked' \in Flags \cup {None}
    BY <1>3, NextKindTypes DEF StopKind, TypeOK
  <2> QED BY <1>3, <2>1, <2>2, FlagsTypes, SessionTypes DEF StopKind, TypeOK
<1>4. ASSUME NEW k \in {"pp", "sni"}, OpenKind(k) PROVE TypeOK'
  <2>1. config' \in Configs /\ asked' \in Flags \cup {None} /\ Desired(k) \in Flags
    BY <1>4, NextKindTypes, DesiredType DEF OpenKind
  <2> QED BY <1>4, <2>1, SessionTypes DEF OpenKind, TypeOK, Kinds
<1>5. ASSUME NEW k \in {"pp", "sni"}, FactoryFails(k) PROVE TypeOK'
  BY <1>5 DEF FactoryFails, Return, TypeOK, Configs
<1> QED BY <1>1, <1>2, <1>3, <1>4, <1>5 DEF ReconcileKind

LEMMA CallType ==
  ASSUME TypeOK, NEW c \in Callers, call[c].op \in {"start", "stop"}
  PROVE  call[c] \in ManagerCalls
BY DEF TypeOK, Calls, Idle

LEMMA ConnectType ==
  ASSUME TypeOK, NEW c \in Callers, call[c].op = "connect"
  PROVE  call[c] \in [op : {"connect"}, todo : SUBSET Managers]
BY DEF TypeOK, Calls, Idle, ManagerCalls

\* A table that has one entry changed is one.
LEMMA TableTypes ==
  ASSUME TypeOK, NEW m \in Managers, NEW k \in Keys,
         NEW fwd \in Requests \cup {None}, NEW uris \in SUBSET URIs
  PROVE  [session EXCEPT ![m] =
            [open |-> TRUE, table |-> [@.table EXCEPT ![k] = fwd],
             addr |-> [@.addr EXCEPT ![k] = uris]]] \in [Managers -> Sessions]
BY DEF TypeOK, Sessions

LEMMA CallerTypes ==
  ASSUME TypeOK, NEW c \in Callers, CallerStep(c) PROVE TypeOK'
<1>1. ASSUME NEW op \in {"start", "stop"}, NEW k \in Kinds, NEW fwd \in Requests,
             LookUp(c, op, k, fwd)
      PROVE  TypeOK'
  BY <1>1 DEF LookUp, TypeOK, Calls, ManagerCalls
<1>2. CASE Started(c)
  <2>1. call[c].m \in Managers /\ call[c].fwd \in Requests /\ KeyOf(call[c].fwd) \in Keys
    BY <1>2, CallType DEF Started, Calling, ManagerCalls, Keys
  <2>2. PICK uris \in SUBSET URIs :
          session' = [session EXCEPT ![call[c].m] =
            [open |-> TRUE, table |-> [@.table EXCEPT ![KeyOf(call[c].fwd)] = call[c].fwd],
             addr |-> [@.addr EXCEPT ![KeyOf(call[c].fwd)] = uris]]]
    BY <1>2 DEF Started
  <2>3. session' \in [Managers -> Sessions]
    BY <2>1, <2>2, TableTypes
  <2> QED BY <1>2, <2>3 DEF Started, Calling, TypeOK, Calls
<1>3. CASE Stopped(c)
  <2>1. call[c].m \in Managers /\ KeyOf(call[c].fwd) \in Keys
    BY <1>3, CallType DEF Stopped, Calling, ManagerCalls, Keys
  <2>2. session' \in [Managers -> Sessions]
    BY <1>3, <2>1, TableTypes DEF Stopped
  <2> QED BY <1>3, <2>2 DEF Stopped, Calling, TypeOK, Calls
<1>4. CASE Refused(c)
  BY <1>4 DEF Refused, Calling, TypeOK, Calls
<1>5. CASE Connect(c)
  BY <1>5 DEF Connect, TypeOK, Calls
<1>6. CASE ConnectOne(c)
  <2>1. PICK m \in call[c].todo, connects \in BOOLEAN :
          /\ session' = [session EXCEPT ![m] = IF connects /\ ~@.open THEN Connected ELSE @]
          /\ call' = [call EXCEPT ![c].todo = @ \ {m}]
    BY <1>6 DEF ConnectOne
  <2>2. call[c] \in [op : {"connect"}, todo : SUBSET Managers]
    BY <1>6, ConnectType DEF ConnectOne
  <2>4. call' \in [Callers -> Calls]
    <3> DEFINE rest == [call[c] EXCEPT !.todo = call[c].todo \ {m}]
    <3>1. rest \in [op : {"connect"}, todo : SUBSET Managers]
      BY <2>2
    <3>2. call' = [call EXCEPT ![c] = rest]
      BY <2>1
    <3> HIDE DEF rest
    <3> QED BY <3>1, <3>2 DEF TypeOK, Calls
  <2>5. session' \in [Managers -> Sessions]
    BY <2>1, <2>2, SessionTypes DEF TypeOK
  <2> QED BY <1>6, <2>4, <2>5 DEF ConnectOne, TypeOK
<1>7. CASE Connects(c)
  BY <1>7 DEF Connects, TypeOK, Calls
<1> QED BY <1>1, <1>2, <1>3, <1>4, <1>5, <1>6, <1>7 DEF CallerStep

LEMMA NextTypes == TypeOK /\ [Next]_vars => TypeOK'
<1> SUFFICES ASSUME TypeOK, [Next]_vars PROVE TypeOK' OBVIOUS
<1>1. ASSUME NEW m \in Managers, MonitorCloses(m) PROVE TypeOK'
  BY <1>1, SessionTypes DEF MonitorCloses, TypeOK
<1>2. CASE Stop
  BY <1>2, SessionTypes, FlagsTypes DEF Stop, TypeOK, PlainFlags
<1>3. CASE UNCHANGED vars
  BY <1>3 DEF vars, TypeOK
<1> QED BY <1>1, <1>2, <1>3, ConfigureTypes, CallerTypes DEF Next

(***************************************************************************)
(* The pool's maps, its managers' tables and its callers keep their types. *)
(***************************************************************************)
THEOREM PoolTypes == Spec => []TypeOK
<1> QED BY InitTypes, NextTypes, PTL DEF Spec

-------------------------------------------------------------------------------
\* The shape of the pool.

LEMMA InitShape == Init => PoolShape /\ ConnectedIsInPool
<1> SUFFICES ASSUME Init PROVE PoolShape /\ ConnectedIsInPool OBVIOUS
<1>1. Distinct /\ FlagsFollow /\ CallsHold /\ ConnectHolds
  BY PoolAssumption
     DEF Init, Distinct, FlagsFollow, CallsHold, ConnectHolds, Idle, ManagerCalls, Kinds
<1>2. Progress
  BY DEF Init, Progress, PPAs, SNIAs, Kinds
<1>3. ConnectedIsInPool
  BY DEF Init, ConnectedIsInPool, InPool, Kinds, Closed
<1> QED BY <1>1, <1>2, <1>3 DEF PoolShape

\* While ConfigureSessions works nobody holds the lock for reading.
LEMMA NobodyConnects ==
  ASSUME PoolInv, NEW k \in {"pp", "sni"}, At(k)
  PROVE  config # Unlocked /\ \A c \in Callers : call[c].op # "connect"
BY DEF PoolInv, PoolShape, ConnectHolds, At, Unlocked

\* A kind that is as it should be lets ConfigureSessions go on.
LEMMA NextKindProgress ==
  ASSUME PoolInv, NEW k \in {"pp", "sni"}, At(k), NextKind(k),
         \A v : v = config.pp /\ (k = "pp" \/ PPAs(v)) => PPAs(v)',
         \A b : k = "sni" /\ b = config.sni => SNIAs(b)'
  PROVE  Progress'
<1>1. config \in [step : {"pp", "sni"}, pp : Versions \cup {0}, sni : BOOLEAN]
      /\ config.step = k
  BY DEF PoolInv, TypeOK, Configs, Unlocked, At
<1>2. CASE k = "pp"
  <2>1. config' = [config EXCEPT !.step = "sni"] /\ config' # Unlocked /\ config'.pp = config.pp
    BY <1>1, <1>2 DEF NextKind, Unlocked
  <2>2. \A v : v = config.pp => PPAs(v)'
    BY <1>2
  <2>3. PPAs(config.pp)'
    BY <2>1, <2>2 DEF PPAs
  <2> QED BY <2>1, <2>3 DEF Progress
<1>3. CASE k = "sni"
  <2>1. config' = Unlocked /\ asked' = [pp |-> config.pp, sni |-> config.sni]
    BY <1>3 DEF NextKind, Return
  <2>2. PPAs(config.pp)
    BY <1>1, <1>3, NobodyConnects DEF PoolInv, PoolShape, Progress
  <2>3. \A v : v = config.pp => PPAs(v)'
    BY <2>2
  <2>4. asked'.pp = config.pp /\ asked'.sni = config.sni
    BY <2>1
  <2>5. PPAs(asked.pp)' /\ SNIAs(asked.sni)'
    BY <1>3, <2>3, <2>4 DEF PPAs, SNIAs
  <2> QED BY <2>1, <2>5 DEF Progress, PPAs, SNIAs
<1> QED BY <1>2, <1>3

LEMMA UnchangedShape ==
  ASSUME PoolInv, NEW k \in {"pp", "sni"}, KindUnchanged(k)
  PROVE  PoolShape' /\ ConnectedIsInPool'
<1>1. At(k) /\ NextKind(k) /\ UNCHANGED <<managers, flags, made, session, call>>
  BY DEF KindUnchanged
<1>2. Distinct' /\ FlagsFollow' /\ CallsHold' /\ ConnectedIsInPool'
  BY <1>1 DEF PoolInv, PoolShape, Distinct, FlagsFollow, CallsHold, InPool, ConnectedIsInPool
<1>3. ConnectHolds'
  BY <1>1, NobodyConnects DEF ConnectHolds
<1>4. \A v : v = config.pp /\ (k = "pp" \/ PPAs(v)) => PPAs(v)'
  BY <1>1 DEF KindUnchanged, PPAs, Stale, Want, Desired
<1>5. \A b : k = "sni" /\ b = config.sni => SNIAs(b)'
  BY <1>1 DEF KindUnchanged, SNIAs, Stale, Want, Desired
<1>6. Progress'
  BY <1>1, <1>4, <1>5, NextKindProgress
<1> QED BY <1>2, <1>3, <1>6 DEF PoolShape

LEMMA StopShape ==
  ASSUME PoolInv, NEW k \in {"pp", "sni"}, StopKind(k)
  PROVE  PoolShape' /\ ConnectedIsInPool'
<1> DEFINE m == managers[k]
<1>1. /\ At(k) /\ m \in Managers /\ m # None /\ k \in Kinds
      /\ \A j \in Kinds : managers'[j] = IF j = k THEN None ELSE managers[j]
      /\ \A j \in Kinds : flags'[j] = IF j = k THEN None ELSE flags[j]
      /\ \A x \in Managers : x # m => made'[x] = made[x] /\ session'[x] = session[x]
      /\ session'[m] = Closed /\ call' = call
  BY PoolAssumption DEF StopKind, PoolInv, TypeOK, Kinds
<1>2. \A j \in Kinds : managers[j] \in Managers \cup {None} /\ (j # k => managers[j] # m)
  BY <1>1 DEF PoolInv, PoolShape, TypeOK, Distinct
<1>3. \A x \in Managers : InPool(x)' <=> x # m /\ InPool(x)
  BY <1>1, <1>2, PoolAssumption DEF InPool
<1>4. Distinct' /\ FlagsFollow'
  BY <1>1, <1>2 DEF PoolInv, PoolShape, Distinct, FlagsFollow
<1>5. CallsHold'
  <2> SUFFICES ASSUME NEW c \in Callers, call[c] \in ManagerCalls
               PROVE  managers'[call[c].kind] = call[c].m \/ ~InPool(call[c].m)'
    BY <1>1 DEF CallsHold
  <2>1. call[c].m \in Managers /\ call[c].kind \in Kinds
    BY DEF ManagerCalls
  <2>2. managers[call[c].kind] = call[c].m \/ ~InPool(call[c].m)
    BY DEF PoolInv, PoolShape, CallsHold
  <2>3. \A j \in Kinds, x \in Managers :
          managers[j] = x \/ ~InPool(x) => managers'[j] = x \/ ~InPool(x)'
    BY <1>1, <1>3
  <2>4. \A j \in Kinds, x \in Managers :
          j = call[c].kind /\ x = call[c].m => managers'[j] = x \/ ~InPool(x)'
    BY <2>2, <2>3
  <2> QED BY <1>1, <2>1, <2>4 DEF InPool
<1>6. ConnectHolds'
  BY <1>1, NobodyConnects DEF ConnectHolds
<1>7. ConnectedIsInPool'
  BY <1>1, <1>3 DEF PoolInv, ConnectedIsInPool, Closed
<1>8. Progress'
  <2>1. \A v : (k = "pp" => ~(v > 0)) /\ (k = "pp" \/ PPAs(v)) => PPAs(v)'
    BY <1>1 DEF PPAs, Kinds
  <2>2. CASE Want(k)
    <3>1. UNCHANGED <<config, asked>> /\ config # Unlocked /\ (config.step = "sni" => k = "sni")
      BY <1>1, <2>2, NobodyConnects DEF StopKind, At
    <3> QED BY <2>1, <3>1 DEF PoolInv, PoolShape, Progress, PPAs
  <2>3. CASE ~Want(k)
    <3>1. NextKind(k)
      BY <2>3 DEF StopKind
    <3>2. \A v : v = config.pp /\ (k = "pp" \/ PPAs(v)) => PPAs(v)'
      BY <2>1, <2>3 DEF Want
    <3>3. \A b : k = "sni" /\ b = config.sni => SNIAs(b)'
      BY <1>1, <2>3 DEF SNIAs, Want
    <3> QED BY <1>1, <3>1, <3>2, <3>3, NextKindProgress
  <2> QED BY <2>2, <2>3
<1> QED BY <1>4, <1>5, <1>6, <1>7, <1>8 DEF PoolShape

LEMMA OpenShape ==
  ASSUME PoolInv, NEW k \in {"pp", "sni"}, OpenKind(k)
  PROVE  PoolShape' /\ ConnectedIsInPool'
<1>1. PICK m \in Managers :
        /\ Fresh(m)
        /\ managers' = [managers EXCEPT ![k] = m]
        /\ made' = [made EXCEPT ![m] = Desired(k)]
        /\ \A x \in Managers : x # m => session'[x] = session[x]
  BY DEF OpenKind, PoolInv, TypeOK
<1>2. /\ At(k) /\ Want(k) /\ managers[k] = None /\ m # None /\ k \in Kinds
      /\ \A j \in Kinds : managers'[j] = IF j = k THEN m ELSE managers[j]
      /\ \A j \in Kinds : flags'[j] = IF j = k THEN Desired(k) ELSE flags[j]
      /\ \A x \in Managers : made'[x] = IF x = m THEN Desired(k) ELSE made[x]
      /\ NextKind(k) /\ call' = call
  BY <1>1, PoolAssumption DEF OpenKind, PoolInv, TypeOK, Kinds
<1>3. \A j \in Kinds : managers[j] \in Managers \cup {None} /\ managers[j] # m
  BY <1>1 DEF PoolInv, TypeOK, Fresh, InPool
<1>4. \A x \in Managers : InPool(x)' <=> x = m \/ InPool(x)
  BY <1>2, PoolAssumption DEF InPool
<1>5. Distinct' /\ FlagsFollow'
  <2>1. Distinct'
    BY <1>2, <1>3 DEF PoolInv, PoolShape, Distinct
  <2>2. ASSUME NEW j \in Kinds
        PROVE  IF managers'[j] = None THEN flags'[j] = None
                                      ELSE flags'[j] = made'[managers'[j]]
    <3>1. CASE j = k
      BY <1>2, <3>1
    <3>2. CASE j # k
      <4>1. managers'[j] = managers[j] /\ flags'[j] = flags[j]
        BY <1>2, <3>2
      <4>2. managers[j] \in Managers => made'[managers[j]] = made[managers[j]]
        BY <1>2, <1>3
      <4> QED BY <1>3, <4>1, <4>2 DEF PoolInv, PoolShape, FlagsFollow
    <3> QED BY <3>1, <3>2
  <2> QED BY <2>1, <2>2 DEF FlagsFollow
<1>6. ASSUME NEW j \in Kinds, NEW x \in Managers, x # m, managers[j] = x \/ ~InPool(x)
      PROVE  managers'[j] = x \/ ~InPool(x)'
  BY <1>2, <1>4, <1>6, PoolAssumption
<1>7. CallsHold'
  <2> SUFFICES ASSUME NEW c \in Callers, call[c] \in ManagerCalls
               PROVE  managers'[call[c].kind] = call[c].m \/ ~InPool(call[c].m)'
    BY <1>2 DEF CallsHold
  <2>1. call[c].m # m /\ call[c].m \in Managers /\ call[c].kind \in Kinds
    BY <1>1 DEF Fresh, Refers, ManagerCalls
  <2>2. managers[call[c].kind] = call[c].m \/ ~InPool(call[c].m)
    BY DEF PoolInv, PoolShape, CallsHold
  <2>3. \A j \in Kinds, x \in Managers :
          j = call[c].kind /\ x = call[c].m => managers'[j] = x \/ ~InPool(x)'
    BY <1>6, <2>1, <2>2
  <2> QED BY <1>2, <2>1, <2>3 DEF InPool
<1>8. ConnectHolds'
  BY <1>2, NobodyConnects DEF ConnectHolds
<1>9. ConnectedIsInPool'
  BY <1>1, <1>4 DEF PoolInv, ConnectedIsInPool
<1>10. Progress'
  <2>1. \A v : v = config.pp /\ (k = "pp" \/ PPAs(v)) => PPAs(v)'
    BY <1>2 DEF PPAs, Want, Desired, Kinds
  <2>2. \A b : k = "sni" /\ b = config.sni => SNIAs(b)'
    BY <1>2 DEF SNIAs, Want, Desired
  <2> QED BY <1>2, <2>1, <2>2, NextKindProgress
<1> QED BY <1>5, <1>7, <1>8, <1>9, <1>10 DEF PoolShape

LEMMA ConfigureShape ==
  ASSUME PoolInv,
         \/ \E v \in Versions \cup {0}, sni \in BOOLEAN : ConfigureSessions(v, sni)
         \/ \E k \in {"pp", "sni"} : ReconcileKind(k)
  PROVE  PoolShape' /\ ConnectedIsInPool'
<1>1. ASSUME NEW v \in Versions \cup {0}, NEW sni \in BOOLEAN, ConfigureSessions(v, sni)
      PROVE  PoolShape' /\ ConnectedIsInPool'
  <2>1. /\ UNCHANGED <<managers, flags, made, session, call, asked>> /\ ~ReadLocked
        /\ config' = [step |-> "pp", pp |-> v, sni |-> sni]
    BY <1>1 DEF ConfigureSessions
  <2>2. Distinct' /\ FlagsFollow' /\ CallsHold' /\ ConnectedIsInPool'
    BY <2>1 DEF PoolInv, PoolShape, Distinct, FlagsFollow, CallsHold, InPool, ConnectedIsInPool
  <2>3. ConnectHolds'
    BY <2>1 DEF ConnectHolds, ReadLocked
  <2>4. Progress'
    BY <2>1 DEF Progress, Unlocked
  <2> QED BY <2>2, <2>3, <2>4 DEF PoolShape
<1>2. ASSUME NEW k \in {"pp", "sni"}, FactoryFails(k)
      PROVE  PoolShape' /\ ConnectedIsInPool'
  <2>1. /\ UNCHANGED <<managers, flags, made, session, call>> /\ At(k)
        /\ config' = Unlocked /\ asked' = None
    BY <1>2 DEF FactoryFails, Return
  <2>2. Distinct' /\ FlagsFollow' /\ CallsHold' /\ ConnectedIsInPool'
    BY <2>1 DEF PoolInv, PoolShape, Distinct, FlagsFollow, CallsHold, InPool, ConnectedIsInPool
  <2>3. ConnectHolds'
    BY <2>1, NobodyConnects DEF ConnectHolds
  <2>4. Progress'
    BY <2>1 DEF Progress, Unlocked
  <2> QED BY <2>2, <2>3, <2>4 DEF PoolShape
<1> QED BY <1>1, <1>2, UnchangedShape, StopShape, OpenShape DEF ReconcileKind

\* A caller changes calls, and sessions of the managers in the pool.
LEMMA CallerKeeps ==
  ASSUME PoolInv, NEW c \in Callers, NEW new,
         UNCHANGED <<managers, flags, made, config, asked>>,
         call' = [call EXCEPT ![c] = new],
         new \in ManagerCalls => managers[new.kind] = new.m \/ ~InPool(new.m),
         new.op = "connect" => config = Unlocked /\ \A m \in new.todo : InPool(m),
         \A m \in Managers : session'[m].open => session[m].open \/ InPool(m)
  PROVE  PoolShape' /\ ConnectedIsInPool'
<1>1. \A d \in Callers : call'[d] = IF d = c THEN new ELSE call[d]
  BY DEF PoolInv, TypeOK
<1>2. \A m : InPool(m)' <=> InPool(m)
  BY DEF InPool
<1>3. Distinct' /\ FlagsFollow' /\ Progress'
  BY DEF PoolInv, PoolShape, Distinct, FlagsFollow, Progress, PPAs, SNIAs
<1>4. CallsHold' /\ ConnectHolds'
  BY <1>1, <1>2 DEF PoolInv, PoolShape, CallsHold, ConnectHolds
<1>5. ConnectedIsInPool'
  BY <1>2 DEF PoolInv, ConnectedIsInPool
<1> QED BY <1>3, <1>4, <1>5 DEF PoolShape

LEMMA CallerShape ==
  ASSUME PoolInv, NEW c \in Callers, CallerStep(c)
  PROVE  PoolShape' /\ ConnectedIsInPool'
<1> USE DEF PoolInv
<1>1. ASSUME NEW op \in {"start", "stop"}, NEW k \in Kinds, NEW fwd \in Requests,
             LookUp(c, op, k, fwd)
      PROVE  PoolShape' /\ ConnectedIsInPool'
  <2>1. PICK m \in Managers :
          /\ managers[k] = m
          /\ call' = [call EXCEPT ![c] = [op |-> op, kind |-> k, m |-> m, fwd |-> fwd]]
    BY <1>1 DEF LookUp, Lookup
  <2>2. UNCHANGED <<managers, flags, made, session, config, asked>>
    BY <1>1 DEF LookUp
  <2>3. [op |-> op, kind |-> k, m |-> m, fwd |-> fwd].op # "connect"
    OBVIOUS
  <2> QED BY <2>1, <2>2, <2>3, CallerKeeps
<1>2. CASE Started(c) \/ Stopped(c) \/ Refused(c)
  <2>1. /\ UNCHANGED <<managers, flags, made, config, asked>>
        /\ call' = [call EXCEPT ![c] = Idle]
    BY <1>2 DEF Started, Stopped, Refused, Calling
  <2>2. Idle \notin ManagerCalls /\ Idle.op # "connect"
    BY DEF Idle, ManagerCalls
  <2>3. \A m \in Managers : session'[m].open => session[m].open
    BY <1>2 DEF Started, Stopped, Refused, TypeOK
  <2> QED BY <2>1, <2>2, <2>3, CallerKeeps
<1>3. CASE Connect(c)
  <2> DEFINE new == [op |-> "connect", todo |-> {m \in Managers : InPool(m)}]
  <2>1. new \notin ManagerCalls /\ \A m \in new.todo : InPool(m)
    BY DEF ManagerCalls
  <2>2. /\ UNCHANGED <<managers, flags, made, session, config, asked>>
        /\ call' = [call EXCEPT ![c] = new] /\ config = Unlocked
    BY <1>3 DEF Connect
  <2> HIDE DEF new
  <2> QED BY <2>1, <2>2, CallerKeeps
<1>4. CASE ConnectOne(c)
  <2>1. PICK m \in call[c].todo, connects \in BOOLEAN :
          /\ session' = [session EXCEPT ![m] = IF connects /\ ~@.open THEN Connected ELSE @]
          /\ call' = [call EXCEPT ![c].todo = @ \ {m}]
    BY <1>4 DEF ConnectOne
  <2> DEFINE new == [call[c] EXCEPT !.todo = call[c].todo \ {m}]
  <2>2. call[c] \in [op : {"connect"}, todo : SUBSET Managers]
    BY <1>4, ConnectType DEF ConnectOne
  <2>3. new \notin ManagerCalls /\ new.todo = call[c].todo \ {m}
    BY <2>2 DEF ManagerCalls
  <2>4. config = Unlocked /\ \A x \in call[c].todo : InPool(x)
    BY <2>2 DEF PoolShape, ConnectHolds
  <2>5. call' = [call EXCEPT ![c] = new]
    BY <2>1
  <2>6. UNCHANGED <<managers, flags, made, config, asked>>
    BY <1>4 DEF ConnectOne
  <2>7. \A x \in Managers : session'[x].open => session[x].open \/ InPool(x)
    BY <2>1, <2>4 DEF TypeOK
  <2> HIDE DEF new
  <2> QED BY <2>3, <2>4, <2>5, <2>6, <2>7, CallerKeeps
<1>5. CASE Connects(c)
  <2>1. /\ UNCHANGED <<managers, flags, made, session, config, asked>>
        /\ call' = [call EXCEPT ![c] = Idle]
    BY <1>5 DEF Connects
  <2>2. Idle \notin ManagerCalls /\ Idle.op # "connect"
    BY DEF Idle, ManagerCalls
  <2> QED BY <2>1, <2>2, CallerKeeps
<1> QED BY <1>1, <1>2, <1>3, <1>4, <1>5 DEF CallerStep

LEMMA StopAllShape ==
  ASSUME PoolInv, Stop PROVE PoolShape' /\ ConnectedIsInPool'
<1>1. /\ \A k \in Kinds : managers'[k] = None /\ flags'[k] = None
      /\ \A m \in Managers : session'[m].open => session[m].open /\ ~InPool(m)
      /\ UNCHANGED <<call, config>> /\ config = Unlocked
      /\ \A c \in Callers : call[c].op # "connect"
      /\ asked' = [pp |-> 0, sni |-> FALSE]
  BY DEF Stop, Closed, ReadLocked
<1>2. \A m \in Managers : ~InPool(m)'
  BY <1>1, PoolAssumption DEF InPool
<1>3. Distinct' /\ FlagsFollow' /\ CallsHold' /\ ConnectHolds'
  BY <1>1, <1>2 DEF Distinct, FlagsFollow, CallsHold, ConnectHolds, ManagerCalls
<1>4. Progress'
  BY <1>1 DEF Progress, PPAs, SNIAs, Kinds
<1>5. ConnectedIsInPool'
  BY <1>1 DEF PoolInv, ConnectedIsInPool
<1> QED BY <1>3, <1>4, <1>5 DEF PoolShape

LEMMA NextShape == PoolInv /\ [Next]_vars => PoolInv'
<1> SUFFICES ASSUME PoolInv, [Next]_vars PROVE PoolInv' OBVIOUS
<1>1. TypeOK'
  BY NextTypes DEF PoolInv
<1>2. ASSUME NEW m \in Managers, MonitorCloses(m)
      PROVE  PoolShape' /\ ConnectedIsInPool'
  <2>1. /\ UNCHANGED <<managers, flags, made, call, config, asked>>
        /\ \A x \in Managers : session'[x].open => session[x].open
    BY <1>2 DEF MonitorCloses, PoolInv, TypeOK, Closed
  <2> QED BY <2>1 DEF PoolInv, PoolShape, Distinct, FlagsFollow, CallsHold, ConnectHolds,
       Progress, PPAs, SNIAs, InPool, ConnectedIsInPool
<1>3. ASSUME UNCHANGED vars PROVE PoolShape' /\ ConnectedIsInPool'
  BY <1>3 DEF vars, PoolInv, PoolShape, Distinct, FlagsFollow, CallsHold, ConnectHolds,
     Progress, PPAs, SNIAs, InPool, ConnectedIsInPool
<1>4. PoolShape' /\ ConnectedIsInPool'
  BY <1>2, <1>3, ConfigureShape, CallerShape, StopAllShape DEF Next
<1> QED BY <1>1, <1>4 DEF PoolInv

LEMMA PoolInvHolds == Spec => []PoolInv
<1>1. Init => PoolInv
  BY InitTypes, InitShape DEF PoolInv
<1> QED BY <1>1, NextShape, PTL DEF Spec

(***************************************************************************)
(* No manager outside the pool is ever connected: what ConfigureSessions   *)
(* or Stop stopped stays stopped, however callers are interleaved.         *)
(***************************************************************************)
THEOREM StoppedStaysStopped == Spec => []ConnectedIsInPool
<1>1. PoolInv => ConnectedIsInPool
  BY DEF PoolInv
<1> QED BY <1>1, PoolInvHolds, PTL

(***************************************************************************)
(* Between two ConfigureSessions the sessions are those the last one that  *)
(* succeeded asked for, made with the flags it asked for.                  *)
(***************************************************************************)
THEOREM ConfigurationIsFollowed == Spec => []SessionsFollowConfig
<1>1. ASSUME PoolInv PROVE SessionsFollowConfig
  <2> SUFFICES ASSUME config = Unlocked, asked # None
               PROVE  /\ (managers["pp"] # None) = (asked.pp > 0)
                      /\ (managers["sni"] # None) = asked.sni
                      /\ managers["pp"] # None => made[managers["pp"]] = PPFlags(asked.pp)
                      /\ managers["sni"] # None => made[managers["sni"]] = SNIFlags
    BY DEF SessionsFollowConfig
  <2>1. PPAs(asked.pp) /\ SNIAs(asked.sni)
    BY <1>1 DEF PoolInv, PoolShape, Progress
  <2>2. asked.sni \in BOOLEAN
    BY <1>1 DEF PoolInv, TypeOK, Flags
  <2>3. \A k \in Kinds : managers[k] # None => made[managers[k]] = flags[k]
    BY <1>1 DEF PoolInv, PoolShape, FlagsFollow
  <2>4. (managers["pp"] # None) = (asked.pp > 0)
    BY <2>1 DEF PPAs
  <2>5. (managers["sni"] # None) = asked.sni
    BY <2>1, <2>2 DEF SNIAs
  <2> QED BY <2>1, <2>3, <2>4, <2>5 DEF PPAs, SNIAs, Kinds
<1> QED BY <1>1, PoolInvHolds, PTL

(***************************************************************************)
(* A StartForwarding that succeeds is on the manager its kind has now,     *)
(* made with the flags its kind stands for.                                *)
(***************************************************************************)
THEOREM StartsOnItsKind == Spec => ForwardsOnItsKind
<1>1. ASSUME PoolInv, NEW c \in Callers, Started(c)
      PROVE  managers[call[c].kind] = call[c].m
             /\ made[managers[call[c].kind]] = flags[call[c].kind]
  <2>1. call[c] \in ManagerCalls /\ session[call[c].m].open
    BY <1>1, CallType DEF Started, Calling, PoolInv
  <2>2. call[c].m \in Managers /\ call[c].kind \in Kinds /\ call[c].m # None
    BY <2>1, PoolAssumption DEF ManagerCalls
  <2>3. managers[call[c].kind] = call[c].m
    BY <1>1, <2>1, <2>2 DEF PoolInv, ConnectedIsInPool, PoolShape, CallsHold
  <2> QED BY <1>1, <2>2, <2>3 DEF PoolInv, PoolShape, FlagsFollow
<1>2. PoolInv =>
        [\A c \in Callers :
           Started(c) => LET k == call[c].kind IN
                         managers[k] = call[c].m /\ made[managers[k]] = flags[k]]_vars
  BY <1>1
<1> QED BY <1>2, PoolInvHolds, PTL DEF ForwardsOnItsKind

-------------------------------------------------------------------------------
\* The pool implements one table per kind.

\* A connection that is closed has left nothing behind.
ClosedIsEmpty == \A m \in Managers : session[m].open \/ session[m] = Closed

TableInv == PoolInv /\ ClosedIsEmpty

LEMMA InitEmpty == Init => ClosedIsEmpty
BY DEF Init, ClosedIsEmpty, Connected, Closed

LEMMA NextEmpty == TypeOK /\ ClosedIsEmpty /\ [Next]_vars => ClosedIsEmpty'
<1> SUFFICES ASSUME TypeOK, ClosedIsEmpty, [Next]_vars, NEW m \in Managers
             PROVE  session'[m].open \/ session'[m] = Closed
  BY DEF ClosedIsEmpty
<1>1. session[m].open \/ session[m] = Closed
  BY DEF ClosedIsEmpty
<1>2. Connected.open
  BY DEF Connected, Closed
<1>3. ASSUME NEW v \in Versions \cup {0}, NEW sni \in BOOLEAN, ConfigureSessions(v, sni)
      PROVE  session'[m].open \/ session'[m] = Closed
  BY <1>1, <1>3 DEF ConfigureSessions
<1>4. ASSUME NEW k \in {"pp", "sni"}, ReconcileKind(k)
      PROVE  session'[m].open \/ session'[m] = Closed
  <2>1. CASE KindUnchanged(k) \/ FactoryFails(k)
    BY <1>1, <2>1 DEF KindUnchanged, FactoryFails
  <2>2. CASE StopKind(k)
    BY <1>1, <2>2 DEF StopKind, TypeOK
  <2>3. CASE OpenKind(k)
    BY <1>1, <1>2, <2>3 DEF OpenKind, TypeOK
  <2> QED BY <1>4, <2>1, <2>2, <2>3 DEF ReconcileKind
<1>5. ASSUME NEW c \in Callers, CallerStep(c)
      PROVE  session'[m].open \/ session'[m] = Closed
  <2>1. CASE Started(c)
    BY <1>1, <2>1 DEF Started, TypeOK
  <2>2. CASE Stopped(c)
    BY <1>1, <2>2 DEF Stopped, TypeOK
  <2>3. CASE ConnectOne(c)
    BY <1>1, <1>2, <2>3 DEF ConnectOne, TypeOK
  <2>4. CASE UNCHANGED session
    BY <1>1, <2>4
  <2> QED BY <1>5, <2>1, <2>2, <2>3, <2>4
       DEF CallerStep, LookUp, Refused, Connect, Connects
<1>6. ASSUME NEW x \in Managers, MonitorCloses(x)
      PROVE  session'[m].open \/ session'[m] = Closed
  BY <1>1, <1>6 DEF MonitorCloses, TypeOK
<1>7. CASE Stop
  BY <1>1, <1>7 DEF Stop
<1>8. CASE UNCHANGED vars
  BY <1>1, <1>8 DEF vars
<1> QED BY <1>3, <1>4, <1>5, <1>6, <1>7, <1>8 DEF Next

LEMMA ViewType == ASSUME TypeOK, NEW j \in Kinds PROVE View(j) \in Sessions
BY SessionTypes DEF TypeOK, View

\* A kind that has no open session closes, or was closed.
LEMMA ViewCloses ==
  ASSUME TableInv, NEW j \in Kinds, View(j)' = Closed
  PROVE  [Table(j)!Next]_(View(j))
<1>1. CASE View(j).open
  <2>1. Table(j)!Close
    BY <1>1 DEF Table!Close, Table!Empty, Table!NoAddr, Table!Keys, Keys, Closed
  <2> QED BY <2>1 DEF Table!Next
<1>2. CASE ~View(j).open
  <2>1. View(j) = Closed
    BY <1>2 DEF View, TableInv, ClosedIsEmpty, PoolInv, TypeOK
  <2> QED BY <2>1
<1> QED BY <1>1, <1>2

LEMMA ViewOpens ==
  ASSUME NEW j \in Kinds, View(j) = Closed, View(j)' = Connected
  PROVE  Table(j)!Next
<1>1. Table(j)!Open
  BY DEF Table!Open, Closed, Connected
<1> QED BY <1>1 DEF Table!Next

LEMMA ReconcileMaps ==
  ASSUME TableInv, NEW k \in {"pp", "sni"}, ReconcileKind(k), NEW j \in Kinds
  PROVE  [Table(j)!Next]_(View(j))
<1> USE DEF TableInv
<1>1. CASE KindUnchanged(k) \/ FactoryFails(k)
  BY <1>1 DEF KindUnchanged, FactoryFails, View
<1>2. CASE StopKind(k)
  <2>1. CASE j = k
    <3>1. View(j)' = Closed
      BY <1>2, <2>1 DEF StopKind, View, PoolInv, TypeOK
    <3> QED BY <3>1, ViewCloses
  <2>2. CASE j # k
    <3>1. managers'[j] = managers[j] /\ (managers[j] # None => managers[j] # managers[k])
      BY <1>2, <2>2 DEF StopKind, PoolInv, TypeOK, PoolShape, Distinct, Kinds
    <3>2. View(j)' = View(j)
      BY <1>2, <3>1 DEF StopKind, View, PoolInv, TypeOK
    <3> QED BY <3>2
  <2> QED BY <2>1, <2>2
<1>3. CASE OpenKind(k)
  <2>1. PICK m \in Managers, connects \in BOOLEAN :
          /\ Fresh(m) /\ managers[k] = None
          /\ managers' = [managers EXCEPT ![k] = m]
          /\ session' = [session EXCEPT ![m] = IF connects THEN Connected ELSE Closed]
    BY <1>3 DEF OpenKind
  <2>2. CASE j = k
    <3>1. View(j) = Closed /\ View(j)' \in {Connected, Closed}
      BY <2>1, <2>2, PoolAssumption DEF View, PoolInv, TypeOK
    <3> QED BY <3>1, ViewOpens, ViewCloses
  <2>3. CASE j # k
    <3>1. managers'[j] = managers[j] /\ managers[j] # m
      BY <2>1, <2>3 DEF PoolInv, TypeOK, Fresh, InPool
    <3>2. View(j)' = View(j)
      BY <2>1, <3>1 DEF View, PoolInv, TypeOK
    <3> QED BY <3>2
  <2> QED BY <2>2, <2>3
<1> QED BY <1>1, <1>2, <1>3 DEF ReconcileKind

\* The manager a call finds connected is the one its kind has.
LEMMA CallMeetsItsKind ==
  ASSUME PoolInv, NEW c \in Callers, call[c] \in ManagerCalls, session[call[c].m].open
  PROVE  /\ call[c].m \in Managers /\ call[c].kind \in Kinds
         /\ managers[call[c].kind] = call[c].m
         /\ \A j \in Kinds : j # call[c].kind => managers[j] # call[c].m
<1>1. call[c].m \in Managers /\ call[c].kind \in Kinds /\ call[c].m # None
  BY PoolAssumption DEF ManagerCalls
<1>2. managers[call[c].kind] = call[c].m
  BY <1>1 DEF PoolInv, ConnectedIsInPool, PoolShape, CallsHold
<1> QED BY <1>1, <1>2 DEF PoolInv, PoolShape, Distinct

LEMMA StartedMaps ==
  ASSUME TableInv, NEW c \in Callers, Started(c), NEW j \in Kinds
  PROVE  [Table(j)!Next]_(View(j))
<1> DEFINE m == call[c].m
           fwd == call[c].fwd
           key == KeyOf(call[c].fwd)
<1>1. call[c] \in ManagerCalls /\ session[m].open /\ session[m].table[key] = None
      /\ managers' = managers
  BY CallType DEF Started, Calling, TableInv, PoolInv
<1>2. PICK uris \in SUBSET URIs :
        /\ MayStore(fwd, uris)
        /\ session' = [session EXCEPT ![m] =
             [open |-> TRUE, table |-> [@.table EXCEPT ![key] = fwd],
              addr |-> [@.addr EXCEPT ![key] = uris]]]
  BY DEF Started
<1>3. /\ m \in Managers /\ fwd \in Requests /\ key \in Keys
      /\ managers[call[c].kind] = m /\ (j # call[c].kind => managers[j] # m)
  BY <1>1, CallMeetsItsKind DEF TableInv, ManagerCalls, Keys
<1>4. m # None
  BY <1>3, PoolAssumption
<1>5. CASE j = call[c].kind
  <2>1. View(j) = session[m] /\ View(j)' = session'[m]
    BY <1>1, <1>3, <1>4, <1>5 DEF View
  <2>2. session'[m] = [open |-> TRUE, table |-> [session[m].table EXCEPT ![key] = fwd],
                       addr |-> [session[m].addr EXCEPT ![key] = uris]]
    BY <1>2, <1>3 DEF TableInv, PoolInv, TypeOK
  <2>3. session[m].open = TRUE
    BY <1>1, <1>3 DEF TableInv, PoolInv, TypeOK, Sessions
  <2>4. /\ View(j)'.open = TRUE
        /\ View(j)'.table = [View(j).table EXCEPT ![key] = fwd]
        /\ View(j)'.addr = [View(j).addr EXCEPT ![key] = uris]
    BY <2>1, <2>2
  <2>5. Table(j)!Enter(fwd, uris)
    BY <1>1, <1>2, <2>1, <2>3, <2>4 DEF Table!Enter
  <2> QED BY <1>2, <1>3, <2>5 DEF Table!Next
<1>6. CASE j # call[c].kind
  <2>1. View(j)' = View(j)
    BY <1>1, <1>2, <1>3, <1>6 DEF View, TableInv, PoolInv, TypeOK
  <2> QED BY <2>1
<1> QED BY <1>5, <1>6

LEMMA StoppedMaps ==
  ASSUME TableInv, NEW c \in Callers, Stopped(c), NEW j \in Kinds
  PROVE  [Table(j)!Next]_(View(j))
<1> DEFINE m == call[c].m
           key == KeyOf(call[c].fwd)
<1>1. call[c] \in ManagerCalls /\ session[m].open /\ session[m].table[key] # None
      /\ managers' = managers
      /\ session' = [session EXCEPT ![m] =
             [open |-> TRUE, table |-> [@.table EXCEPT ![key] = None],
              addr |-> [@.addr EXCEPT ![key] = {}]]]
  BY CallType DEF Stopped, Calling, TableInv, PoolInv
<1>2. /\ m \in Managers /\ key \in Keys
      /\ managers[call[c].kind] = m /\ (j # call[c].kind => managers[j] # m)
  BY <1>1, CallMeetsItsKind DEF TableInv, ManagerCalls, Keys
<1>3. m # None
  BY <1>2, PoolAssumption
<1>4. CASE j = call[c].kind
  <2>1. View(j) = session[m] /\ View(j)' = session'[m]
    BY <1>1, <1>2, <1>3, <1>4 DEF View
  <2>2. session'[m] = [open |-> TRUE, table |-> [session[m].table EXCEPT ![key] = None],
                       addr |-> [session[m].addr EXCEPT ![key] = {}]]
    BY <1>1, <1>2 DEF TableInv, PoolInv, TypeOK
  <2>3. session[m].open = TRUE
    BY <1>1, <1>2 DEF TableInv, PoolInv, TypeOK, Sessions
  <2>4. /\ View(j)'.open = TRUE
        /\ View(j)'.table = [View(j).table EXCEPT ![key] = None]
        /\ View(j)'.addr = [View(j).addr EXCEPT ![key] = {}]
    BY <2>1, <2>2
  <2>5. Table(j)!Remove(key)
    BY <1>1, <2>1, <2>3, <2>4 DEF Table!Remove
  <2> QED BY <1>2, <2>5 DEF Table!Next, Table!Keys, Keys
<1>5. CASE j # call[c].kind
  <2>1. View(j)' = View(j)
    BY <1>1, <1>2, <1>5 DEF View, TableInv, PoolInv, TypeOK
  <2> QED BY <2>1
<1> QED BY <1>4, <1>5

LEMMA ConnectMaps ==
  ASSUME TableInv, NEW c \in Callers, ConnectOne(c), NEW j \in Kinds
  PROVE  [Table(j)!Next]_(View(j))
<1>1. PICK m \in call[c].todo, connects \in BOOLEAN :
        session' = [session EXCEPT ![m] = IF connects /\ ~@.open THEN Connected ELSE @]
  BY DEF ConnectOne
<1>2. m \in Managers /\ managers' = managers
  BY ConnectType DEF ConnectOne, TableInv, PoolInv
<1>3. View(j)' = View(j) \/ (~View(j).open /\ View(j)' = Connected)
  BY <1>1, <1>2 DEF View, TableInv, PoolInv, TypeOK
<1>4. ~View(j).open => View(j) = Closed
  BY DEF View, TableInv, ClosedIsEmpty, PoolInv, TypeOK
<1> QED BY <1>3, <1>4, ViewOpens

LEMMA NextMaps ==
  ASSUME TableInv, [Next]_vars, NEW j \in Kinds
  PROVE  [Table(j)!Next]_(View(j))
<1>1. ASSUME NEW v \in Versions \cup {0}, NEW sni \in BOOLEAN, ConfigureSessions(v, sni)
      PROVE  [Table(j)!Next]_(View(j))
  BY <1>1 DEF ConfigureSessions, View
<1>2. ASSUME NEW c \in Callers, CallerStep(c)
      PROVE  [Table(j)!Next]_(View(j))
  <2>1. CASE UNCHANGED <<managers, session>>
    BY <2>1 DEF View
  <2> QED BY <1>2, <2>1, StartedMaps, StoppedMaps, ConnectMaps
       DEF CallerStep, LookUp, Refused, Calling, Connect, Connects
<1>3. ASSUME NEW m \in Managers, MonitorCloses(m)
      PROVE  [Table(j)!Next]_(View(j))
  <2>1. View(j)' = View(j) \/ View(j)' = Closed
    BY <1>3 DEF MonitorCloses, View, TableInv, PoolInv, TypeOK
  <2> QED BY <2>1, ViewCloses
<1>4. ASSUME Stop PROVE [Table(j)!Next]_(View(j))
  <2>1. View(j)' = Closed
    BY <1>4 DEF Stop, View
  <2> QED BY <2>1, ViewCloses
<1>5. CASE UNCHANGED vars
  BY <1>5 DEF vars, View
<1> QED BY <1>1, <1>2, <1>3, <1>4, <1>5, ReconcileMaps DEF Next

(***************************************************************************)
(* The pool implements one ForwardingTable per kind: to its callers, the   *)
(* managers that are stopped and rebuilt behind it are one session that    *)
(* closes and opens.                                                       *)
(***************************************************************************)
THEOREM PoolImplements == Spec => ImplementsTables
<1>1. Init => TableInv
  BY InitTypes, InitShape, InitEmpty DEF TableInv, PoolInv
<1>2. TableInv /\ [Next]_vars => TableInv'
  BY NextShape, NextEmpty DEF TableInv, PoolInv
<1>3. TableInv /\ [Next]_vars => [\A k \in Kinds : [Table(k)!Next]_(View(k))]_vars
  BY NextMaps
<1> QED BY <1>1, <1>2, <1>3, PTL DEF Spec, ImplementsTables
===============================================================================
