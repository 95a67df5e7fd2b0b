------------------------------ MODULE SessionPool ------------------------------
(***************************************************************************)
(* SSHSessionPool (ssh/ssh_session_pool.go): up to three tunnel managers,  *)
(* one per session kind, that are opened, stopped and replaced while the   *)
(* controllers use them.                                                   *)
(*                                                                         *)
(* mu is a read-write lock.  ConfigureSessions and Stop hold it for        *)
(* writing, Connect for reading, through every call they make of a         *)
(* manager.  StartForwarding and StopForwarding hold it only to look the   *)
(* manager up and call it afterwards, when it may be stopped and replaced. *)
(*                                                                         *)
(* A call of a manager is one step of ForwardingTable, the specification   *)
(* TunnelManager implements; "session" has one table per manager.  The     *)
(* identity of a manager nobody refers to any more is used again.          *)
(***************************************************************************)
EXTENDS AddressMatch, FiniteSets

CONSTANTS
  Managers,      \* identities of managers
  Callers,       \* goroutines that call the pool
  Versions,      \* PROXY protocol versions a GatewayClass may ask for
  Requests,      \* ForwardingConfigs
  URIs,          \* what the server may announce
  None           \* absence: of a manager, flags or forwarding

Kinds    == {"plain", "pp", "sni"}
KeyOf(fwd) == [host |-> fwd.host, port |-> fwd.port]
Keys     == {KeyOf(fwd) : fwd \in Requests}
Flags    == [pp : Versions \cup {0}, sni : BOOLEAN]
Sessions == [open : BOOLEAN, table : [Keys -> Requests \cup {None}],
             addr : [Keys -> SUBSET URIs]]

Closed    == [open |-> FALSE, table |-> [k \in Keys |-> None],
              addr |-> [k \in Keys |-> {}]]
Connected == [Closed EXCEPT !.open = TRUE]

ASSUME PoolAssumption ==
  /\ Versions \subseteq Nat \ {0}
  /\ None \notin Managers \cup Requests \cup Flags

VARIABLES
  managers,   \* p.managers: [Kinds -> Managers \cup {None}]
  flags,      \* p.flags, the flags each kind was opened with
  made,       \* [Managers -> the flags the factory was given], while it is in the pool
  session,    \* [Managers -> Sessions]
  call,       \* [Callers -> the pool call in progress, or Idle]
  config,     \* the ConfigureSessions that holds mu, or Unlocked
  asked       \* what the last ConfigureSessions asked for, None if it failed

vars == <<managers, flags, made, session, call, config, asked>>

Idle     == [op |-> "idle"]
Unlocked == [step |-> "unlocked"]

PlainFlags   == [pp |-> 0, sni |-> FALSE]
PPFlags(v)   == [pp |-> v, sni |-> FALSE]
SNIFlags     == [pp |-> 0, sni |-> TRUE]

\* The calls a caller may be making of a manager it looked up.
ManagerCalls == [op : {"start", "stop"}, kind : Kinds, m : Managers, fwd : Requests]

InPool(m) == \E k \in Kinds : managers[k] = m

\* Callers that refer to a manager outside the lock, or hold the read lock.
Refers(c, m) == \/ call[c] \in ManagerCalls /\ call[c].m = m
                \/ call[c].op = "connect" /\ m \in call[c].todo

\* Mutant: Connect copies the managers and releases the lock.
ReadLocked_Never == FALSE

ReadLocked == \E c \in Callers : call[c].op = "connect"

Fresh(m) == ~InPool(m) /\ \A c \in Callers : ~Refers(c, m)

\* newSessionPoolWithFactory: the plain manager, connected or not.
Init ==
  \E m \in Managers, connects \in BOOLEAN :
    /\ managers = [k \in Kinds |-> IF k = "plain" THEN m ELSE None]
    /\ flags = [k \in Kinds |-> IF k = "plain" THEN PlainFlags ELSE None]
    /\ made = [x \in Managers |-> PlainFlags]
    /\ session = [x \in Managers |-> IF x = m /\ connects THEN Connected ELSE Closed]
    /\ call = [c \in Callers |-> Idle]
    /\ config = Unlocked
    /\ asked = [pp |-> 0, sni |-> FALSE]

-------------------------------------------------------------------------------
\* ConfigureSessions.

Want(k)    == IF k = "pp" THEN config.pp > 0 ELSE config.sni
Desired(k) == IF k = "pp" THEN PPFlags(config.pp) ELSE SNIFlags

\* reconcileKind has this kind left to deal with.
At(k) == config.step = k

Return(result) == config' = Unlocked /\ asked' = result

\* Mutant: the plain kind is reconciled too.
NextKind_Plain(k) ==
  /\ config' = [config EXCEPT !.step = IF k = "pp" THEN "sni" ELSE "plain"]
  /\ UNCHANGED asked

\* reconcileKind returned nil.
NextKind(k) ==
  IF k = "pp" THEN config' = [config EXCEPT !.step = "sni"] /\ UNCHANGED asked
              ELSE Return([pp |-> config.pp, sni |-> config.sni])

ConfigureSessions(v, sni) ==
  /\ config = Unlocked /\ ~ReadLocked
  /\ config' = [step |-> "pp", pp |-> v, sni |-> sni]
  /\ UNCHANGED <<managers, flags, made, session, call, asked>>

\* Mutant: the version of an open session is not compared.
Stale_Never(k) == ~Want(k)

Stale(k) == ~Want(k) \/ flags[k] # Desired(k)

\* The session of this kind is as it should be.
KindUnchanged(k) ==
  /\ At(k)
  /\ IF Want(k) THEN managers[k] # None /\ ~Stale(k) ELSE managers[k] = None
  /\ NextKind(k)
  /\ UNCHANGED <<managers, flags, made, session, call>>

\* Mutant: the manager is dropped but not stopped.
StopKind_Drops(k) ==
  /\ At(k) /\ managers[k] # None /\ Stale(k)
  /\ managers' = [managers EXCEPT ![k] = None]
  /\ flags' = [flags EXCEPT ![k] = None]
  /\ IF Want(k) THEN UNCHANGED <<config, asked>> ELSE NextKind(k)
  /\ UNCHANGED <<made, session, call>>

\* existing.Stop() and the two deletes; a version that flipped is opened next.
StopKind(k) ==
  /\ At(k) /\ managers[k] # None /\ Stale(k)
  /\ session' = [session EXCEPT ![managers[k]] = Closed]
  /\ managers' = [managers EXCEPT ![k] = None]
  /\ flags' = [flags EXCEPT ![k] = None]
  /\ made' = [made EXCEPT ![managers[k]] = PlainFlags]
  /\ IF Want(k) THEN UNCHANGED <<config, asked>> ELSE NextKind(k)
  /\ UNCHANGED call

\* openLocked: a manager whose first Connect fails is kept all the same.
OpenKind(k) ==
  /\ At(k) /\ Want(k) /\ managers[k] = None
  /\ \E m \in Managers, connects \in BOOLEAN :
       /\ Fresh(m)
       /\ managers' = [managers EXCEPT ![k] = m]
       /\ made' = [made EXCEPT ![m] = Desired(k)]
       /\ session' = [session EXCEPT ![m] = IF connects THEN Connected ELSE Closed]
  /\ flags' = [flags EXCEPT ![k] = Desired(k)]
  /\ NextKind(k)
  /\ UNCHANGED call

\* The factory fails: ConfigureSessions returns, sni perhaps not looked at.
FactoryFails(k) ==
  /\ At(k) /\ Want(k) /\ managers[k] = None
  /\ Return(None)
  /\ UNCHANGED <<managers, flags, made, session, call>>

ReconcileKind(k) ==
  KindUnchanged(k) \/ StopKind(k) \/ OpenKind(k) \/ FactoryFails(k)

-------------------------------------------------------------------------------
\* The calls that use the managers.

\* Mutant: the lookup returns whatever manager there is.
Lookup_AnyKind(k, m) == InPool(m)

Lookup(k, m) == managers[k] = m

\* StartForwarding and StopForwarding up to RUnlock; ErrSessionNotEnabled, when
\* there is no manager, changes nothing.
LookUp(c, op, k, fwd) ==
  /\ call[c] = Idle /\ config = Unlocked
  /\ \E m \in Managers :
       /\ Lookup(k, m)
       /\ call' = [call EXCEPT ![c] = [op |-> op, kind |-> k, m |-> m, fwd |-> fwd]]
  /\ UNCHANGED <<managers, flags, made, session, config, asked>>

Calling(c, op) ==
  /\ call[c].op = op
  /\ call' = [call EXCEPT ![c] = Idle]
  /\ UNCHANGED <<managers, flags, made, config, asked>>

Started(c) ==
  /\ Calling(c, "start")
  /\ LET m == call[c].m
         fwd == call[c].fwd
         key == KeyOf(fwd)
     IN /\ session[m].open /\ session[m].table[key] = None
        /\ \E uris \in SUBSET URIs :
             /\ MayStore(fwd, uris)
             /\ session' = [session EXCEPT ![m] =
                  [open |-> TRUE, table |-> [@.table EXCEPT ![key] = fwd],
                   addr |-> [@.addr EXCEPT ![key] = uris]]]

Stopped(c) ==
  /\ Calling(c, "stop")
  /\ LET m == call[c].m
         key == KeyOf(call[c].fwd)
     IN /\ session[m].open /\ session[m].table[key] # None
        /\ session' = [session EXCEPT ![m] =
             [open |-> TRUE, table |-> [@.table EXCEPT ![key] = None],
              addr |-> [@.addr EXCEPT ![key] = {}]]]

\* The manager is not connected, knows the key already or does not know it, or
\* the server says no.
Refused(c) ==
  /\ Calling(c, "start") \/ Calling(c, "stop")
  /\ UNCHANGED session

\* Connect walks over the managers with the read lock held.
Connect(c) ==
  /\ call[c] = Idle /\ config = Unlocked
  /\ call' = [call EXCEPT ![c] =
       [op |-> "connect", todo |-> {m \in Managers : InPool(m)}]]
  /\ UNCHANGED <<managers, flags, made, session, config, asked>>

\* m.Connect(), which leaves a connected manager alone, and may fail.
ConnectOne(c) ==
  /\ call[c].op = "connect"
  /\ \E m \in call[c].todo, connects \in BOOLEAN :
       /\ session' = [session EXCEPT ![m] =
            IF connects /\ ~@.open THEN Connected ELSE @]
       /\ call' = [call EXCEPT ![c].todo = @ \ {m}]
  /\ UNCHANGED <<managers, flags, made, config, asked>>

Connects(c) ==
  /\ call[c].op = "connect" /\ call[c].todo = {}
  /\ call' = [call EXCEPT ![c] = Idle]
  /\ UNCHANGED <<managers, flags, made, session, config, asked>>

\* Mutant: a lost connection leaves its forwardings behind.
MonitorCloses_KeepsForwardings(m) ==
  /\ session[m].open
  /\ session' = [session EXCEPT ![m].open = FALSE]
  /\ UNCHANGED <<managers, flags, made, call, config, asked>>

\* A manager's monitor gives its connection up.
MonitorCloses(m) ==
  /\ session[m].open
  /\ session' = [session EXCEPT ![m] = Closed]
  /\ UNCHANGED <<managers, flags, made, call, config, asked>>

\* Stop: every manager is stopped and forgotten, the plain one too.
Stop ==
  /\ config = Unlocked /\ ~ReadLocked
  /\ session' = [m \in Managers |-> IF InPool(m) THEN Closed ELSE session[m]]
  /\ managers' = [k \in Kinds |-> None]
  /\ flags' = [k \in Kinds |-> None]
  /\ made' = [m \in Managers |-> PlainFlags]
  /\ asked' = [pp |-> 0, sni |-> FALSE]
  /\ UNCHANGED <<call, config>>

-------------------------------------------------------------------------------
CallerStep(c) ==
  \/ \E op \in {"start", "stop"}, k \in Kinds, fwd \in Requests : LookUp(c, op, k, fwd)
  \/ Started(c) \/ Stopped(c) \/ Refused(c)
  \/ Connect(c) \/ ConnectOne(c) \/ Connects(c)

Next ==
  \/ \E v \in Versions \cup {0}, sni \in BOOLEAN : ConfigureSessions(v, sni)
  \/ \E k \in {"pp", "sni"} : ReconcileKind(k)
  \/ \E c \in Callers : CallerStep(c)
  \/ \E m \in Managers : MonitorCloses(m)
  \/ Stop

Spec == Init /\ [][Next]_vars

-------------------------------------------------------------------------------
Calls == {Idle} \cup ManagerCalls \cup [op : {"connect"}, todo : SUBSET Managers]

Configs == {Unlocked} \cup [step : {"pp", "sni"}, pp : Versions \cup {0}, sni : BOOLEAN]

(***************************************************************************)
(* The types of the pool's maps, of the managers' tables, of the calls and *)
(* of the ConfigureSessions in progress.                                   *)
(***************************************************************************)
TypeOK ==
  /\ managers \in [Kinds -> Managers \cup {None}]
  /\ flags \in [Kinds -> Flags \cup {None}]
  /\ made \in [Managers -> Flags]
  /\ session \in [Managers -> Sessions]
  /\ call \in [Callers -> Calls]
  /\ config \in Configs
  /\ asked \in Flags \cup {None}

(***************************************************************************)
(* Only a manager that is in the pool is connected: none is left running   *)
(* when its session is disabled or rebuilt, and none that was stopped is   *)
(* ever connected again, by a Connect that met it before or by anybody     *)
(* else.  A monitor of the tunnel manager relies on it: it closes whatever *)
(* client the manager has when its own keepalive fails.                    *)
(***************************************************************************)
ConnectedIsInPool == \A m \in Managers : session[m].open => InPool(m)

(***************************************************************************)
(* A forwarding that a controller starts through the pool is on a session  *)
(* with the flags its kind stands for: a StartForwarding that looked its   *)
(* manager up before ConfigureSessions replaced it never registers one on  *)
(* a session of another PROXY protocol version, or of another kind.        *)
(***************************************************************************)
ForwardsOnItsKind ==
  [][\A c \in Callers :
       Started(c) => LET k == call[c].kind IN
                     managers[k] = call[c].m /\ made[managers[k]] = flags[k]]_vars

(***************************************************************************)
(* Between two ConfigureSessions the pool has exactly the sessions the     *)
(* last one asked for, opened with the flags it asked for, if it returned  *)
(* no error.                                                               *)
(***************************************************************************)
SessionsFollowConfig ==
  config = Unlocked /\ asked # None =>
    /\ (managers["pp"] # None) = (asked.pp > 0)
    /\ (managers["sni"] # None) = asked.sni
    /\ managers["pp"] # None => made[managers["pp"]] = PPFlags(asked.pp)
    /\ managers["sni"] # None => made[managers["sni"]] = SNIFlags

-------------------------------------------------------------------------------
(***************************************************************************)
(* What a caller sees of one kind: the table of the manager in the pool,   *)
(* a closed one when there is none.                                        *)
(***************************************************************************)
View(k) == IF managers[k] = None THEN Closed ELSE session[managers[k]]

Table(k) == INSTANCE ForwardingTable WITH
  open <- View(k).open, table <- View(k).table, addr <- View(k).addr,
  NoFwd <- None, Acceptable <- MayStore

(***************************************************************************)
(* For its callers the pool is one ForwardingTable per kind, although the  *)
(* managers behind it are stopped and rebuilt: a replaced session is seen  *)
(* to close before the new one opens, and calls of a manager that was      *)
(* dropped meanwhile leave the new one alone.  The plain session may be    *)
(* connected from the start.                                               *)
(***************************************************************************)
ImplementsTables == [][\A k \in Kinds : [Table(k)!Next]_(View(k))]_vars
===============================================================================
