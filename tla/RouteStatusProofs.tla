--------------------------- MODULE RouteStatusProofs ---------------------------
(***************************************************************************)
(* Theorems about RouteStatus, for any parents, entries and bounds.        *)
(***************************************************************************)
EXTENDS RouteStatus, TLAPS

(***************************************************************************)
(* The inductive invariant.                                                *)
(***************************************************************************)

\* Each edit of a user is a generation.
GenerationsCounted == server # Absent => server.gen <= edits + 1

\* The cache and the finalizer: an object that is being deleted does not come
\* back, and only this controller takes the finalizer off.
CacheIsBehind ==
  /\ synced => cache = server
  /\ cache # Absent /\ cache.deleting => server = Absent \/ server.deleting
  /\ cache # Absent /\ cache.owned /\ ~cache.deleting => server # Absent /\ server.owned

\* a and b differ in the entry for parent p at most.
Alike(a, b, p) ==
  /\ a.spec = b.spec /\ a.gen = b.gen
  /\ a.owned = b.owned /\ a.deleting = b.deleting
  /\ a.status.theirs = b.status.theirs
  /\ \A q \in Parents \ {p} : a.status.ours[q] = b.status.ours[q]

\* A write that the API server takes is one of a copy like its own object.  An
\* update whose answer was lost leaves a copy that is not written any more.
FreshCopy ==
  job # Idle /\ job.fresh /\ job.pc # "refetch" =>
    server # Absent /\ Alike(job.copy, server, job.parent)

\* While a route is taken down, it is being deleted for everybody.
DeletionIsFinal ==
  job # Idle /\ job.pc \in {"remove", "disown"} =>
    /\ server = Absent \/ server.deleting
    /\ cache = Absent \/ cache.deleting

RouteInv ==
  /\ TypeOK /\ GenerationsCounted /\ CacheIsBehind
  /\ FreshCopy /\ DeletionIsFinal /\ AttachesOnlyOwned

-------------------------------------------------------------------------------
\* Objects.

LEMMA LiveTypes ==
  ASSUME NEW o \in Live
  PROVE  /\ o # Absent /\ o \in Objects
         /\ o.gen \in Gens /\ o.spec \in RouteSpecs /\ o.status \in Status
         /\ o.owned \in BOOLEAN /\ o.deleting \in BOOLEAN
BY DEF Live, Objects, Absent, Gens

LEMMA LiveIffPresent ==
  ASSUME NEW o \in Objects, o # Absent PROVE o \in Live
BY DEF Objects

\* An object with its finalizer, and one with the status of a copy.
LEMMA WithFinalizer ==
  ASSUME NEW o \in Live
  PROVE  /\ [o EXCEPT !.owned = TRUE] \in Live
         /\ [o EXCEPT !.owned = TRUE].gen = o.gen
         /\ [o EXCEPT !.owned = TRUE].spec = o.spec
         /\ [o EXCEPT !.owned = TRUE].owned
         /\ [o EXCEPT !.owned = TRUE].deleting = o.deleting
         /\ [o EXCEPT !.owned = TRUE].status = o.status
BY DEF Live

LEMMA WithStatusOf ==
  ASSUME NEW o \in Live, NEW st \in Status
  PROVE  /\ [o EXCEPT !.status = st] \in Live
         /\ [o EXCEPT !.status = st].gen = o.gen
         /\ [o EXCEPT !.status = st].spec = o.spec
         /\ [o EXCEPT !.status = st].owned = o.owned
         /\ [o EXCEPT !.status = st].deleting = o.deleting
         /\ [o EXCEPT !.status = st].status = st
BY DEF Live

LEMMA EntryTypes ==
  ASSUME NEW old \in Entries \cup {None}, NEW outcome, NEW gen \in Gens
  PROVE  Entry(old, outcome, gen) \in Entries
<1>1. [ok |-> outcome = "accepted", gen |-> gen] \in Conditions
  BY DEF Conditions
<1>2. old # None => old.resolved \in Conditions \cup {None}
  BY DEF Entries
<1> QED BY <1>1, <1>2 DEF Entry, Entries

\* A copy with a new entry for parent p.
LEMMA WithEntry ==
  ASSUME NEW o \in Live, NEW p \in Parents, NEW e \in Entries
  PROVE  /\ [o EXCEPT !.status.ours[p] = e] \in Live
         /\ Alike([o EXCEPT !.status.ours[p] = e], o, p)
<1> DEFINE ours == [o.status.ours EXCEPT ![p] = e]
           st == [o.status EXCEPT !.ours = ours]
<1>1. o.status \in Status
  BY LiveTypes
<1>2. /\ ours \in [Parents -> Entries \cup {None}]
      /\ \A q \in Parents \ {p} : ours[q] = o.status.ours[q]
  BY <1>1 DEF Status
<1>3. st \in Status /\ st.theirs = o.status.theirs /\ st.ours = ours
  <2> HIDE DEF ours
  <2> QED BY <1>1, <1>2 DEF Status
<1>4. [o EXCEPT !.status.ours[p] = e] = [o EXCEPT !.status = st]
  OBVIOUS
<1> DEFINE n == [o EXCEPT !.status = st]
<1>5. /\ n \in Live /\ n.gen = o.gen /\ n.spec = o.spec /\ n.owned = o.owned
      /\ n.deleting = o.deleting /\ n.status = st
  <2> HIDE DEF st
  <2> QED BY <1>3, WithStatusOf
<1>6. Alike(n, o, p)
  <2> HIDE DEF n, st, ours
  <2> QED BY <1>2, <1>3, <1>5 DEF Alike
<1> HIDE DEF n
<1> QED BY <1>4, <1>5, <1>6 DEF n

-------------------------------------------------------------------------------
\* Jobs.

Pcs == {"own", "set", "update", "refetch", "again", "remove", "disown"}

LEMMA JobTypes ==
  ASSUME NEW j \in Jobs, j # Idle
  PROVE  /\ j.pc \in Pcs /\ j.copy \in Live /\ j.fresh \in BOOLEAN
         /\ j.parent \in Parents /\ j.outcome \in GatewayStates
         /\ j.tries \in 0..(Steps - 1)
BY DEF Jobs, Pcs

LEMMA NewJob ==
  ASSUME NEW q \in Pcs, NEW o \in Live, NEW f \in BOOLEAN, NEW p \in Parents,
         NEW g \in GatewayStates, NEW t \in 0..(Steps - 1)
  PROVE  LET j == [pc |-> q, copy |-> o, fresh |-> f, parent |-> p,
                   outcome |-> g, tries |-> t]
         IN j \in Jobs /\ j # Idle
BY DEF Jobs, Pcs, Idle

LEMMA IdleTypes == Idle \in Jobs /\ Idle.pc = "idle"
BY DEF Jobs, Idle

\* What the invariant says of a reconciliation that works on object o.
JobInv(j, o, c) ==
  j # Idle =>
    /\ j.fresh /\ j.pc # "refetch" => o # Absent /\ Alike(j.copy, o, j.parent)
    /\ j.pc \in {"remove", "disown"} =>
         (o = Absent \/ o.deleting) /\ (c = Absent \/ c.deleting)
    /\ j.pc \in {"set", "update", "refetch", "again"} => o # Absent /\ o.owned

LEMMA JobInvariant ==
  JobInv(job, server, cache) <=> FreshCopy /\ DeletionIsFinal /\ AttachesOnlyOwned
BY DEF JobInv, FreshCopy, DeletionIsFinal, AttachesOnlyOwned

LEMMA JobInvariantNext ==
  JobInv(job', server', cache') <=> FreshCopy' /\ DeletionIsFinal' /\ AttachesOnlyOwned'
BY DEF JobInv, FreshCopy, DeletionIsFinal, AttachesOnlyOwned

-------------------------------------------------------------------------------
\* What users and other controllers do.

LEMMA StaleCopy ==
  ASSUME NEW j \in Jobs, j # Idle
  PROVE  /\ [j EXCEPT !.fresh = FALSE] \in Jobs
         /\ [j EXCEPT !.fresh = FALSE].pc = j.pc
         /\ ~[j EXCEPT !.fresh = FALSE].fresh
<1> DEFINE Busy == [pc : Pcs, copy : Live, fresh : BOOLEAN, parent : Parents,
                    outcome : GatewayStates, tries : 0..(Steps - 1)]
           r == [j EXCEPT !.fresh = FALSE]
<1>1. j \in Busy
  BY DEF Jobs, Pcs
<1>2. r \in Busy /\ r.pc = j.pc /\ ~r.fresh
  BY <1>1
<1> HIDE DEF r
<1>3. r \in Jobs
  BY <1>2 DEF Jobs, Pcs
<1> QED BY <1>2, <1>3 DEF r

LEMMA StaleJob ==
  ASSUME RouteInv
  PROVE  /\ Stale \in Jobs
         /\ Stale # Idle => job # Idle /\ ~Stale.fresh /\ Stale.pc = job.pc
<1>1. job \in Jobs
  BY DEF RouteInv, TypeOK
<1> QED BY <1>1, IdleTypes, StaleCopy DEF Stale

\* A write that keeps the finalizer, and leaves no object that is not owned.
LEMMA OutsideWrites ==
  ASSUME RouteInv, Outside, server # Absent, job' = Stale, UNCHANGED gateway,
         NEW o \in Objects, Write(o),
         o # Absent =>
           /\ o.gen <= edits + 2 /\ o.owned = server.owned
           /\ server.deleting => o.deleting,
         o = Absent => ~server.owned /\ ~server.deleting
  PROVE  RouteInv'
<1>1. TypeOK'
  <2>1. edits' \in 0..MaxEdits
    BY RouteAssumption DEF RouteInv, TypeOK, Outside
  <2>2. server' \in Objects /\ synced' \in BOOLEAN /\ job' \in Jobs
    BY StaleJob DEF Write
  <2> QED BY <2>1, <2>2 DEF RouteInv, TypeOK, Outside
<1>2. GenerationsCounted' /\ CacheIsBehind'
  <2>1. edits' + 1 = edits + 2
    BY DEF Outside, RouteInv, TypeOK
  <2> QED BY <2>1 DEF RouteInv, GenerationsCounted, CacheIsBehind, Outside, Write
<1>3. JobInv(job', server', cache')
  BY StaleJob DEF JobInv, RouteInv, FreshCopy, DeletionIsFinal, AttachesOnlyOwned,
                  Outside, Write
<1> QED BY <1>1, <1>2, <1>3, JobInvariantNext DEF RouteInv

LEMMA EditSpecStep ==
  ASSUME RouteInv, NEW spec \in RouteSpecs, EditSpec(spec) PROVE RouteInv'
<1> DEFINE o == [server EXCEPT !.spec = spec, !.gen = @ + 1]
<1>1. server \in Live /\ server # Absent /\ server.gen <= edits + 1 /\ edits < MaxEdits
      /\ edits \in Nat
  BY LiveIffPresent DEF EditSpec, Outside, RouteInv, TypeOK, GenerationsCounted
<1>2. server.gen + 1 \in Gens /\ server.gen + 1 <= edits + 2
  BY <1>1, LiveTypes, RouteAssumption DEF Gens
<1>3. o \in Live /\ o.gen = server.gen + 1 /\ o.owned = server.owned
      /\ o.deleting = server.deleting
  BY <1>1, <1>2 DEF Live
<1> HIDE DEF o
<1>4. o \in Objects /\ o # Absent
  BY <1>3, LiveTypes
<1>5. Outside /\ Write(o) /\ job' = Stale /\ UNCHANGED gateway
  BY DEF EditSpec, o
<1> QED BY <1>1, <1>2, <1>3, <1>4, <1>5, OutsideWrites

LEMMA TheyWriteStep ==
  ASSUME RouteInv, NEW theirs \in Theirs, TheyWrite(theirs) PROVE RouteInv'
<1> DEFINE st == [server.status EXCEPT !.theirs = theirs]
           o  == [server EXCEPT !.status = st]
<1>1. server \in Live /\ server # Absent /\ server.gen <= edits + 1 /\ edits \in Nat
  BY LiveIffPresent DEF TheyWrite, RouteInv, TypeOK, GenerationsCounted
<1>2. st \in Status
  BY <1>1, LiveTypes DEF Status
<1>3. Outside /\ Write(o) /\ job' = Stale /\ UNCHANGED gateway
  BY DEF TheyWrite
<1> HIDE DEF st
<1>4. o \in Live /\ o.gen = server.gen /\ o.owned = server.owned
      /\ o.deleting = server.deleting
  BY <1>1, <1>2, WithStatusOf
<1> HIDE DEF o
<1>5. o \in Objects /\ o # Absent /\ o.gen <= edits + 2
  BY <1>1, <1>4, LiveTypes DEF Gens
<1> QED BY <1>1, <1>3, <1>4, <1>5, OutsideWrites

LEMMA DeleteStep == ASSUME RouteInv, Delete PROVE RouteInv'
<1> DEFINE o == [server EXCEPT !.deleting = TRUE, !.gen = @ + 1]
<1>1. server \in Live /\ server # Absent /\ server.gen <= edits + 1 /\ edits < MaxEdits
      /\ edits \in Nat /\ ~server.deleting
  BY LiveIffPresent DEF Delete, Outside, RouteInv, TypeOK, GenerationsCounted
<1>2. server.gen + 1 \in Gens /\ server.gen + 1 <= edits + 2
  BY <1>1, LiveTypes, RouteAssumption DEF Gens
<1>3. o \in Live /\ o.gen = server.gen + 1 /\ o.owned = server.owned /\ o.deleting
  BY <1>1, <1>2 DEF Live
<1>4. Outside /\ job' = Stale /\ UNCHANGED gateway /\ Write(IF server.owned THEN o ELSE Absent)
  BY DEF Delete
<1> HIDE DEF o
<1>5. o \in Objects /\ o # Absent /\ Absent \in Objects
  BY <1>3, LiveTypes DEF Objects
<1> QED BY <1>1, <1>2, <1>3, <1>4, <1>5, OutsideWrites

LEMMA OtherSteps ==
  ASSUME RouteInv,
         \/ \E state \in GatewayStates : GatewayChanges(state)
         \/ Sync \/ Resync
  PROVE  RouteInv'
<1>1. ASSUME NEW state \in GatewayStates, GatewayChanges(state) PROVE RouteInv'
  <2>1. TypeOK' /\ edits' = edits + 1 /\ edits \in Nat
    BY <1>1, RouteAssumption DEF GatewayChanges, Outside, RouteInv, TypeOK
  <2>2. GenerationsCounted'
    <3>1. server # Absent => server.gen \in Nat
      BY LiveIffPresent, LiveTypes DEF RouteInv, TypeOK, Gens
    <3> QED BY <1>1, <2>1, <3>1 DEF GatewayChanges, RouteInv, GenerationsCounted
  <2> QED BY <1>1, <2>1, <2>2
          DEF GatewayChanges, Outside, RouteInv, CacheIsBehind, FreshCopy,
              DeletionIsFinal, AttachesOnlyOwned
<1>2. CASE Sync
  BY <1>2 DEF Sync, RouteInv, TypeOK, GenerationsCounted, CacheIsBehind, FreshCopy,
              DeletionIsFinal, AttachesOnlyOwned
<1>3. CASE Resync
  BY <1>3 DEF Resync, RouteInv, TypeOK, GenerationsCounted, CacheIsBehind, FreshCopy,
              DeletionIsFinal, AttachesOnlyOwned
<1> QED BY <1>1, <1>2, <1>3

-------------------------------------------------------------------------------
\* What the reconciler does.

\* A step that reads, and one that writes an object which is owned if the
\* server's is.
LEMMA Reads ==
  ASSUME RouteInv, Worker, Local, due' \in BOOLEAN, job' \in Jobs,
         JobInv(job', server, cache)
  PROVE  RouteInv'
<1>1. TypeOK' /\ GenerationsCounted' /\ CacheIsBehind'
  BY DEF Worker, Local, RouteInv, TypeOK, GenerationsCounted, CacheIsBehind
<1>2. JobInv(job', server', cache')
  BY DEF Worker, Local
<1> QED BY <1>1, <1>2, JobInvariantNext DEF RouteInv

LEMMA Writes ==
  ASSUME RouteInv, Worker, due' \in BOOLEAN, job' \in Jobs, faults' \in 0..MaxFaults,
         NEW o \in Live, server # Absent,
         o.gen = server.gen, o.deleting = server.deleting, server.owned => o.owned,
         \/ UNCHANGED <<server, synced>>
         \/ Take(o),
         JobInv(job', server', cache)
  PROVE  RouteInv'
<1>1. server' \in Objects /\ server' # Absent /\ synced' \in BOOLEAN
      /\ server'.gen = server.gen /\ server'.deleting = server.deleting
      /\ (server.owned => server'.owned) /\ (synced' => synced /\ server' = server)
  <2>1. server' \in Objects /\ server' # Absent
        /\ server'.gen = server.gen /\ server'.deleting = server.deleting
        /\ (server.owned => server'.owned)
    BY LiveTypes DEF Take, RouteInv, TypeOK
  <2>2. synced' \in BOOLEAN /\ (synced' => synced /\ server' = server)
    <3>1. CASE UNCHANGED <<server, synced>>
      BY <3>1 DEF RouteInv, TypeOK
    <3>2. CASE Take(o)
      <4>1. synced' \in BOOLEAN
        BY <3>2 DEF Take
      <4>2. synced' => synced /\ server' = server
        BY <3>2, Zenon DEF Take
      <4> QED BY <4>1, <4>2
    <3> QED BY <3>1, <3>2
  <2> QED BY <2>1, <2>2
<1>2. TypeOK' /\ GenerationsCounted' /\ CacheIsBehind'
  BY <1>1 DEF Worker, RouteInv, TypeOK, GenerationsCounted, CacheIsBehind
<1>3. JobInv(job', server', cache')
  BY DEF Worker
<1> QED BY <1>2, <1>3, JobInvariantNext DEF RouteInv

LEMMA FaultTypes ==
  ASSUME RouteInv, NEW o, Saved(o) \/ NotSaved(o)
  PROVE  /\ faults' \in 0..MaxFaults
         /\ UNCHANGED <<server, synced>> \/ (job.fresh /\ Take(o))
BY RouteAssumption DEF RouteInv, TypeOK, Saved, NotSaved

LEMMA WorkerJob ==
  ASSUME RouteInv, job # Idle
  PROVE  /\ job \in Jobs /\ job.pc \in Pcs /\ job.copy \in Live /\ job.fresh \in BOOLEAN
         /\ job.parent \in Parents /\ job.outcome \in GatewayStates
BY JobTypes DEF RouteInv, TypeOK

LEMMA BusyJob == \A q \in Pcs : job.pc = q => job # Idle
BY IdleTypes DEF Pcs

\* The job after a step: where it is, and with which copy.
Busy == [pc : Pcs, copy : Live, fresh : BOOLEAN, parent : Parents,
         outcome : GatewayStates, tries : 0..(Steps - 1)]

LEMMA BusyTypes == Jobs = {Idle} \cup Busy
BY DEF Jobs, Busy, Pcs

\* j, at q, with the copy c of the object that is as fresh as f says.
Becomes(r, j, q, c, f) ==
  /\ r \in Jobs /\ r.pc = q /\ r.copy = c /\ r.fresh = f /\ r.parent = j.parent

LEMMA JobAt ==
  ASSUME NEW j \in Jobs, j # Idle, NEW q \in Pcs
  PROVE  Becomes([j EXCEPT !.pc = q], j, q, j.copy, j.fresh)
<1>1. j \in Busy
  BY BusyTypes
<1>2. [j EXCEPT !.pc = q] \in Busy
  BY <1>1 DEF Busy
<1> QED BY <1>1, <1>2, BusyTypes DEF Becomes, Busy

LEMMA JobWithCopy ==
  ASSUME NEW j \in Jobs, j # Idle, NEW q \in Pcs, NEW c \in Live
  PROVE  Becomes([j EXCEPT !.pc = q, !.copy = c], j, q, c, j.fresh)
<1>1. j \in Busy
  BY BusyTypes
<1>2. [j EXCEPT !.pc = q, !.copy = c] \in Busy
  BY <1>1 DEF Busy
<1> QED BY <1>1, <1>2, BusyTypes DEF Becomes, Busy

LEMMA JobWithOutcome ==
  ASSUME NEW j \in Jobs, j # Idle, NEW g \in GatewayStates
  PROVE  /\ [j EXCEPT !.outcome = g] # Idle
         /\ Becomes([j EXCEPT !.outcome = g], j, j.pc, j.copy, j.fresh)
<1>1. j \in Busy
  BY BusyTypes
<1>2. [j EXCEPT !.outcome = g] \in Busy /\ [j EXCEPT !.outcome = g].pc = j.pc
  BY <1>1 DEF Busy
<1>3. j.pc # "idle"
  BY <1>1 DEF Busy, Pcs
<1> QED BY <1>1, <1>2, <1>3, IdleTypes, BusyTypes DEF Becomes, Busy

LEMMA JobFetched ==
  ASSUME NEW j \in Jobs, j # Idle, NEW q \in Pcs, NEW c \in Live, NEW f \in BOOLEAN
  PROVE  Becomes([j EXCEPT !.pc = q, !.fresh = f, !.copy = c], j, q, c, f)
<1>1. j \in Busy
  BY BusyTypes
<1>2. [j EXCEPT !.pc = q, !.fresh = f, !.copy = c] \in Busy
  BY <1>1 DEF Busy
<1> QED BY <1>1, <1>2, BusyTypes DEF Becomes, Busy

LEMMA JobAgain ==
  ASSUME NEW j \in Jobs, j # Idle, NEW q \in Pcs, j.tries + 1 # Steps
  PROVE  Becomes([j EXCEPT !.pc = q, !.tries = @ + 1], j, q, j.copy, j.fresh)
<1>1. j \in Busy
  BY BusyTypes
<1>2. j.tries + 1 \in 0..(Steps - 1)
  BY <1>1, RouteAssumption DEF Busy
<1>3. [j EXCEPT !.pc = q, !.tries = @ + 1] \in Busy
  BY <1>1, <1>2 DEF Busy
<1> QED BY <1>1, <1>3, BusyTypes DEF Becomes, Busy

LEMMA SkipStep == ASSUME RouteInv, Skip PROVE RouteInv'
<1>1. Worker /\ Local /\ due' \in BOOLEAN /\ job' \in Jobs /\ job' = job
  BY DEF Skip, RouteInv, TypeOK
<1> QED BY <1>1, Reads, JobInvariant DEF RouteInv

\* The copy is the cache's; what it takes down is being deleted everywhere, and
\* what it attaches has the finalizer.
LEMMA ReconcileStep == ASSUME RouteInv, Reconcile PROVE RouteInv'
<1> DEFINE q == IF cache.deleting THEN "remove" ELSE IF cache.owned THEN "set" ELSE "own"
<1>1. cache \in Live /\ cache # Absent /\ synced \in BOOLEAN /\ gateway \in GatewayStates
  BY LiveIffPresent DEF Reconcile, RouteInv, TypeOK
<1>2. q \in Pcs /\ cache.spec.parent \in Parents /\ 0 \in 0..(Steps - 1)
  BY <1>1, LiveTypes, RouteAssumption DEF Pcs, RouteSpecs
<1>3. job' = [pc |-> q, copy |-> cache, fresh |-> synced, parent |-> cache.spec.parent,
              outcome |-> gateway, tries |-> 0]
  BY DEF Reconcile
<1>4. q = "remove" => cache.deleting
  OBVIOUS
<1>5. q = "set" => cache.owned /\ ~cache.deleting
  OBVIOUS
<1>6. q \in {"own", "set", "remove"}
  OBVIOUS
<1> HIDE DEF q
<1>7. job' \in Jobs
  BY <1>1, <1>2, <1>3, NewJob
<1>8. JobInv(job', server, cache)
  <2>1. synced => server # Absent /\ Alike(cache, server, cache.spec.parent)
    BY <1>1 DEF RouteInv, CacheIsBehind, Alike
  <2> QED BY <1>1, <1>3, <1>4, <1>5, <1>6, <2>1 DEF JobInv, RouteInv, CacheIsBehind
<1> QED BY <1>7, <1>8, Reads DEF Reconcile, RouteInv, TypeOK

LEMMA AddFinalizerStep ==
  ASSUME RouteInv, AddFinalizer
  PROVE  /\ RouteInv'
         /\ server' # server => server # Absent /\ server' = Owned
<1> DEFINE c == [job.copy EXCEPT !.owned = TRUE]
<1>1. job # Idle /\ job.pc = "own"
  BY BusyJob DEF AddFinalizer, Pcs
<1>2. job \in Jobs /\ job.copy \in Live /\ job.parent \in Parents
  BY <1>1, WorkerJob
<1>3. faults' \in 0..MaxFaults /\ (UNCHANGED <<server, synced>> \/ (job.fresh /\ Take(Owned)))
  BY FaultTypes DEF AddFinalizer
<1>4. job.fresh => server # Absent /\ server \in Live /\ Alike(job.copy, server, job.parent)
  BY <1>1, LiveIffPresent DEF RouteInv, TypeOK, FreshCopy
<1>5. CASE UNCHANGED <<server, synced>> /\ job' = Idle /\ due' = TRUE
  <2>1. TypeOK' /\ GenerationsCounted' /\ CacheIsBehind' /\ JobInv(job', server', cache')
    BY <1>3, <1>5, IdleTypes
       DEF AddFinalizer, Worker, RouteInv, TypeOK, GenerationsCounted, CacheIsBehind, JobInv
  <2> QED BY <1>5, <2>1, JobInvariantNext DEF RouteInv
<1>6. CASE job.fresh /\ Take(Owned)
  <2>1. server \in Live /\ server # Absent /\ Alike(job.copy, server, job.parent)
    BY <1>4, <1>6
  <2>2. /\ Owned \in Live /\ Owned.gen = server.gen /\ Owned.deleting = server.deleting
        /\ Owned.spec = server.spec /\ Owned.owned /\ Owned.status = server.status
        /\ Owned # Absent
    BY <2>1, WithFinalizer, LiveTypes DEF Owned
  <2>3. /\ c \in Live /\ c.gen = job.copy.gen /\ c.deleting = job.copy.deleting
        /\ c.spec = job.copy.spec /\ c.owned /\ c.status = job.copy.status
    BY <1>2, WithFinalizer
  <2>4. job' = Idle \/ job' = [job EXCEPT !.pc = "set", !.copy = c]
    BY DEF AddFinalizer, Finish
  <2>5. due' \in BOOLEAN /\ Worker
    BY DEF AddFinalizer, Finish, RouteInv, TypeOK
  <2> HIDE DEF c
  <2>6. job' # Idle => Becomes(job', job, "set", c, job.fresh)
    BY <1>1, <1>2, <2>3, <2>4, JobWithCopy DEF Pcs
  <2>7. Alike(c, Owned, job.parent)
    BY <2>1, <2>2, <2>3 DEF Alike
  <2>8. job' \in Jobs /\ JobInv(job', Owned, cache)
    BY <2>2, <2>6, <2>7, IdleTypes DEF JobInv, Becomes
  <2>9. server' = Owned
    BY <1>6 DEF Take
  <2>10. RouteInv'
    BY <1>3, <1>6, <2>1, <2>2, <2>5, <2>8, <2>9, Writes
  <2> QED BY <2>1, <2>9, <2>10
<1> QED BY <1>3, <1>5, <1>6 DEF AddFinalizer, Finish, Saved

LEMMA SetRouteStep == ASSUME RouteInv, SetRoute PROVE RouteInv'
<1> DEFINE e == Entry(job.copy.status.ours[job.parent], gateway, job.copy.gen)
           c == [job.copy EXCEPT !.status.ours[job.parent] = e]
           j == [job EXCEPT !.outcome = gateway]
<1>1. job # Idle /\ job.pc = "set" /\ gateway \in GatewayStates
  BY BusyJob DEF SetRoute, Pcs, RouteInv, TypeOK
<1>2. job \in Jobs /\ job.copy \in Live /\ job.parent \in Parents
  BY <1>1, WorkerJob
<1>3. e \in Entries
  <2>1. job.copy.status.ours[job.parent] \in Entries \cup {None} /\ job.copy.gen \in Gens
    BY <1>2, LiveTypes DEF Status
  <2> QED BY <2>1, EntryTypes
<1>4. j # Idle /\ Becomes(j, job, "set", job.copy, job.fresh)
  BY <1>1, <1>2, JobWithOutcome
<1>5. job' = Idle \/ job' = [j EXCEPT !.pc = "update", !.copy.status.ours[job.parent] = e]
  BY DEF SetRoute, Finish
<1>6. [j EXCEPT !.pc = "update", !.copy.status.ours[job.parent] = e] =
        [j EXCEPT !.pc = "update",
                  !.copy = [j.copy EXCEPT !.status.ours[job.parent] = e]]
  OBVIOUS
<1> HIDE DEF e, j
<1>7. [j.copy EXCEPT !.status.ours[job.parent] = e] = c
  BY <1>4 DEF Becomes
<1>8. c \in Live /\ Alike(c, job.copy, job.parent)
  BY <1>2, <1>3, WithEntry
<1> HIDE DEF c
<1>9. job' # Idle => Becomes(job', j, "update", c, j.fresh)
  <2>1. Becomes([j EXCEPT !.pc = "update", !.copy = c], j, "update", c, j.fresh)
    <3>1. j \in Jobs /\ j # Idle
      BY <1>4 DEF Becomes
    <3>2. "update" \in Pcs
      BY DEF Pcs
    <3> QED BY <1>8, <3>1, <3>2, JobWithCopy
  <2> QED BY <1>5, <1>6, <1>7, <2>1
<1>10. job' # Idle => Becomes(job', job, "update", c, job.fresh)
  BY <1>4, <1>9 DEF Becomes
<1>11. server # Absent /\ server.owned
       /\ (job.fresh => Alike(job.copy, server, job.parent))
  BY <1>1 DEF RouteInv, AttachesOnlyOwned, FreshCopy
<1>12. job.fresh => Alike(c, server, job.parent)
  BY <1>8, <1>11 DEF Alike
<1>13. job' \in Jobs /\ JobInv(job', server, cache)
  BY <1>10, <1>11, <1>12, IdleTypes DEF JobInv, Becomes
<1>14. due' \in BOOLEAN /\ Worker /\ Local
  BY DEF SetRoute, Finish, RouteInv, TypeOK
<1> QED BY <1>13, <1>14, Reads

\* Both updates of writeRouteParentStatus, taken or not.
LEMMA Updates ==
  ASSUME RouteInv, job # Idle, job.pc \in {"update", "again"}, Worker, due' \in BOOLEAN,
         Saved(WithStatus) \/ NotSaved(WithStatus),
         job' \in Jobs,
         job' # Idle => \/ job'.pc = "refetch"
                        \/ job'.pc = "update" /\ ~job'.fresh
  PROVE  /\ RouteInv'
         /\ server' # server => server # Absent /\ Alike(server', server, job.parent)
<1>1. server \in Live /\ server # Absent /\ server.owned
  BY LiveIffPresent DEF RouteInv, TypeOK, AttachesOnlyOwned
<1>2. job.copy.status \in Status
  BY WorkerJob, LiveTypes
<1>3. /\ WithStatus \in Live /\ WithStatus # Absent /\ WithStatus.gen = server.gen
      /\ WithStatus.owned = server.owned /\ WithStatus.deleting = server.deleting
      /\ WithStatus.spec = server.spec /\ WithStatus.status = job.copy.status
  BY <1>1, <1>2, WithStatusOf, LiveTypes DEF WithStatus
<1>4. faults' \in 0..MaxFaults
      /\ (UNCHANGED <<server, synced>> \/ (job.fresh /\ Take(WithStatus)))
  BY FaultTypes
<1>5. server' = server \/ (server' = WithStatus /\ job.fresh)
  BY <1>4 DEF Take
<1>6. JobInv(job', server', cache)
  BY <1>1, <1>3, <1>5 DEF JobInv
<1>7. RouteInv'
  BY <1>1, <1>3, <1>4, <1>6, Writes
<1>8. job.fresh => Alike(job.copy, server, job.parent)
  BY DEF RouteInv, FreshCopy
<1>9. job.fresh => Alike(WithStatus, server, job.parent)
  BY <1>3, <1>8 DEF Alike
<1> QED BY <1>1, <1>5, <1>7, <1>9

LEMMA UpdateStatusStep ==
  ASSUME RouteInv, UpdateStatus
  PROVE  /\ RouteInv'
         /\ server' # server => server # Absent /\ Alike(server', server, job.parent)
<1>1. job # Idle /\ job.pc = "update"
  BY BusyJob DEF UpdateStatus, Pcs
<1>2. job' = Idle \/ job' = [job EXCEPT !.pc = "refetch"]
  BY DEF UpdateStatus, Finish
<1>3. job' \in Jobs /\ (job' # Idle => job'.pc = "refetch")
  <2>1. Becomes([job EXCEPT !.pc = "refetch"], job, "refetch", job.copy, job.fresh)
    BY <1>1, WorkerJob, JobAt DEF Pcs
  <2> QED BY <1>2, <2>1, IdleTypes DEF Becomes
<1>4. Worker /\ due' \in BOOLEAN /\ (Saved(WithStatus) \/ NotSaved(WithStatus))
  BY DEF UpdateStatus, Finish, RouteInv, TypeOK
<1> QED BY <1>1, <1>3, <1>4, Updates

LEMMA UpdateAgainStep ==
  ASSUME RouteInv, UpdateAgain
  PROVE  /\ RouteInv'
         /\ server' # server => server # Absent /\ Alike(server', server, job.parent)
<1>1. job # Idle /\ job.pc = "again"
  BY BusyJob DEF UpdateAgain, Pcs
<1>2. \/ job' = Idle
      \/ /\ job' = [job EXCEPT !.pc = "update", !.tries = @ + 1]
         /\ ~job.fresh /\ job.tries + 1 # Steps
  BY DEF UpdateAgain, Finish
<1>3. job' \in Jobs /\ (job' # Idle => job'.pc = "update" /\ ~job'.fresh)
  <2>1. job.tries + 1 # Steps =>
          Becomes([job EXCEPT !.pc = "update", !.tries = @ + 1], job, "update", job.copy, job.fresh)
    BY <1>1, WorkerJob, JobAgain DEF Pcs
  <2> QED BY <1>2, <2>1, IdleTypes DEF Becomes
<1>4. Worker /\ due' \in BOOLEAN /\ (Saved(WithStatus) \/ NotSaved(WithStatus))
  BY DEF UpdateAgain, Finish, RouteInv, TypeOK
<1> QED BY <1>1, <1>3, <1>4, Updates

\* The object fetched again is the cache's, perhaps with the entry put into it.
LEMMA RefetchStep == ASSUME RouteInv, Refetch PROVE RouteInv'
<1>1. job # Idle /\ job.pc = "refetch"
  BY BusyJob DEF Refetch, Pcs
<1>2. job \in Jobs /\ job.parent \in Parents /\ server # Absent /\ server.owned
  BY <1>1, WorkerJob DEF RouteInv, AttachesOnlyOwned
<1>3. due' \in BOOLEAN /\ Worker /\ Local /\ synced \in BOOLEAN
  BY DEF Refetch, Finish, RouteInv, TypeOK
<1>4. CASE cache = Absent
  <2>1. job' = Idle
    BY <1>4 DEF Refetch, Finish
  <2> QED BY <1>3, <2>1, IdleTypes, Reads DEF JobInv
<1>5. CASE cache # Absent
  <2>1. cache \in Live
    BY <1>5, LiveIffPresent DEF RouteInv, TypeOK
  <2>2. Refetched(cache) \in Live /\ Alike(Refetched(cache), cache, job.parent)
    <3> DEFINE e == Entry(cache.status.ours[job.parent], job.outcome, cache.gen)
    <3>1. cache.status.ours[job.parent] \in Entries \cup {None} /\ cache.gen \in Gens
      BY <1>2, <2>1, LiveTypes DEF Status
    <3>2. e \in Entries
      BY <3>1, EntryTypes
    <3>3. Refetched(cache) = [cache EXCEPT !.status.ours[job.parent] = e]
      BY DEF Refetched, setOurRouteParentStatus
    <3> HIDE DEF e
    <3> QED BY <1>2, <2>1, <3>2, <3>3, WithEntry
  <2>3. PICK o \in {Refetched(cache), cache} :
          job' = [job EXCEPT !.pc = "again", !.fresh = synced, !.copy = o]
    BY <1>5 DEF Refetch
  <2>4. o \in Live /\ Alike(o, cache, job.parent)
    BY <2>1, <2>2 DEF Alike
  <2>5. Becomes(job', job, "again", o, synced)
    BY <1>1, <1>2, <1>3, <2>3, <2>4, JobFetched DEF Pcs
  <2>6. synced => cache = server
    BY DEF RouteInv, CacheIsBehind
  <2>7. JobInv(job', server, cache) /\ job' \in Jobs
    BY <1>2, <2>4, <2>5, <2>6 DEF JobInv, Becomes
  <2> QED BY <1>3, <2>7, Reads
<1> QED BY <1>4, <1>5

LEMMA RemoveRouteStep == ASSUME RouteInv, RemoveRoute PROVE RouteInv'
<1>1. job # Idle /\ job.pc = "remove"
  BY BusyJob DEF RemoveRoute, Pcs
<1>2. job' = Idle \/ job' = [job EXCEPT !.pc = "disown"]
  BY DEF RemoveRoute, Finish
<1>3. job' \in Jobs /\ (job' # Idle => Becomes(job', job, "disown", job.copy, job.fresh))
  <2>1. Becomes([job EXCEPT !.pc = "disown"], job, "disown", job.copy, job.fresh)
    BY <1>1, WorkerJob, JobAt DEF Pcs
  <2> QED BY <1>2, <2>1, IdleTypes DEF Becomes
<1>4. JobInv(job', server, cache)
  BY <1>1, <1>3 DEF RouteInv, FreshCopy, DeletionIsFinal, JobInv, Becomes
<1>5. due' \in BOOLEAN /\ Worker /\ Local
  BY DEF RemoveRoute, Finish, RouteInv, TypeOK
<1> QED BY <1>3, <1>4, <1>5, Reads

LEMMA RemoveFinalizerStep ==
  ASSUME RouteInv, RemoveFinalizer
  PROVE  RouteInv' /\ (server' # server => server' = Absent)
<1>1. job # Idle /\ job.pc = "disown" /\ job' = Idle /\ due' = TRUE /\ Worker
  BY BusyJob DEF RemoveFinalizer, Finish, Pcs
<1>2. faults' \in 0..MaxFaults /\ (UNCHANGED <<server, synced>> \/ (job.fresh /\ Take(Absent)))
  BY FaultTypes DEF RemoveFinalizer
<1>3. server' = server \/ server' = Absent
  BY <1>2 DEF Take
<1>4. cache = Absent \/ cache.deleting
  BY <1>1 DEF RouteInv, DeletionIsFinal
<1>5. synced' \in BOOLEAN /\ (synced' => synced /\ server' = server)
  <2>1. CASE UNCHANGED <<server, synced>>
    BY <2>1 DEF RouteInv, TypeOK
  <2>2. CASE Take(Absent)
    <3>1. synced' \in BOOLEAN
      BY <2>2 DEF Take
    <3>2. synced' => synced /\ server' = server
      BY <2>2, Zenon DEF Take
    <3> QED BY <3>1, <3>2
  <2> QED BY <1>2, <2>1, <2>2
<1>6. TypeOK'
  BY <1>1, <1>2, <1>3, <1>5, IdleTypes DEF Worker, RouteInv, TypeOK, Objects
<1>7. GenerationsCounted' /\ CacheIsBehind'
  BY <1>1, <1>3, <1>4, <1>5 DEF Worker, RouteInv, GenerationsCounted, CacheIsBehind
<1>8. JobInv(job', server', cache')
  BY <1>1 DEF JobInv
<1> QED BY <1>3, <1>6, <1>7, <1>8, JobInvariantNext DEF RouteInv

-------------------------------------------------------------------------------
\* The theorems.

LEMMA InitRoute == Init => RouteInv
<1> SUFFICES ASSUME Init PROVE RouteInv OBVIOUS
<1>1. PICK spec \in RouteSpecs, theirs \in Theirs : server = NewObject(spec, theirs)
  BY DEF Init
<1>2. NoStatus(theirs) \in Status
  BY DEF NoStatus, Status
<1>3. server \in Live /\ server.gen = 1 /\ ~server.owned /\ ~server.deleting
  <2>1. 1 \in Gens
    BY RouteAssumption DEF Gens
  <2> QED BY <1>1, <1>2, <2>1 DEF NewObject, Live
<1>4. server \in Objects /\ job \in Jobs
  BY <1>3, LiveTypes, IdleTypes DEF Init
<1>5. TypeOK
  BY <1>4, RouteAssumption DEF Init, TypeOK
<1> QED BY <1>3, <1>5 DEF Init, RouteInv, GenerationsCounted, CacheIsBehind, FreshCopy,
                           DeletionIsFinal, AttachesOnlyOwned

LEMMA WorkerInv == ASSUME RouteInv, WorkerStep PROVE RouteInv'
BY SkipStep, ReconcileStep, AddFinalizerStep, SetRouteStep, UpdateStatusStep, RefetchStep,
   UpdateAgainStep, RemoveRouteStep, RemoveFinalizerStep DEF WorkerStep

LEMMA NextRoute == RouteInv /\ [Next]_vars => RouteInv'
<1> SUFFICES ASSUME RouteInv, [Next]_vars PROVE RouteInv' OBVIOUS
<1>1. ASSUME UNCHANGED vars PROVE RouteInv'
  BY <1>1 DEF vars, RouteInv, TypeOK, GenerationsCounted, CacheIsBehind, FreshCopy,
              DeletionIsFinal, AttachesOnlyOwned
<1>2. ASSUME Next PROVE RouteInv'
  BY <1>2, EditSpecStep, TheyWriteStep, DeleteStep, OtherSteps, WorkerInv DEF Next
<1> QED BY <1>1, <1>2

LEMMA RouteInvariant == Spec => []RouteInv
<1> QED BY InitRoute, NextRoute, PTL DEF Spec

(***************************************************************************)
(* The object, its copies and the reconciliation keep their types, and a   *)
(* status is tried at most Steps times.                                    *)
(***************************************************************************)
THEOREM RouteTypesHold == Spec => []TypeOK
<1>1. RouteInv => TypeOK
  BY DEF RouteInv
<1> QED BY <1>1, RouteInvariant, PTL

(***************************************************************************)
(* A route is attached only while its object carries the finalizer,        *)
(* whatever copy of it the reconciler has seen.                            *)
(***************************************************************************)
THEOREM FinalizerBeforeRoute == Spec => []AttachesOnlyOwned
<1>1. RouteInv => AttachesOnlyOwned
  BY DEF RouteInv
<1> QED BY <1>1, RouteInvariant, PTL

\* What is skipped is not ours, or the cache is behind.
LEMMA NextWatched ==
  ASSUME RouteInv, OwnedIsWatched, [Next]_vars PROVE OwnedIsWatched'
<1>1. synced => cache = server
  BY DEF RouteInv, CacheIsBehind
<1>2. CASE UNCHANGED vars
  BY <1>2 DEF vars, OwnedIsWatched
<1>3. ASSUME \/ \E spec \in RouteSpecs : EditSpec(spec)
             \/ \E theirs \in Theirs : TheyWrite(theirs)
             \/ Delete
      PROVE  OwnedIsWatched'
  BY <1>3 DEF EditSpec, TheyWrite, Delete, Write, OwnedIsWatched
<1>4. ASSUME \/ \E state \in GatewayStates : GatewayChanges(state)
             \/ Sync \/ Resync
      PROVE  OwnedIsWatched'
  BY <1>4 DEF GatewayChanges, Outside, Sync, Resync, OwnedIsWatched
<1>5. CASE Skip
  BY <1>1, <1>5 DEF Skip, Worker, Local, OwnedIsWatched
<1>6. CASE Reconcile
  BY <1>6 DEF Reconcile, Worker, Local, OwnedIsWatched
<1>7. CASE SetRoute \/ Refetch \/ RemoveRoute
  BY <1>7 DEF SetRoute, Refetch, RemoveRoute, Finish, Local, OwnedIsWatched
<1>8. CASE AddFinalizer \/ UpdateStatus \/ UpdateAgain \/ RemoveFinalizer
  <2>1. due' = due \/ due'
    BY <1>8 DEF AddFinalizer, UpdateStatus, UpdateAgain, RemoveFinalizer, Finish
  <2>2. \E o : Saved(o) \/ NotSaved(o)
    BY <1>8 DEF AddFinalizer, UpdateStatus, UpdateAgain, RemoveFinalizer
  <2>3. UNCHANGED <<server, synced>> \/ \E o : Take(o)
    BY <2>2 DEF Saved, NotSaved
  <2>4. ASSUME NEW o, Take(o) PROVE UNCHANGED <<server, synced>> \/ ~synced'
    <3>1. CASE synced /\ o = server
      BY <2>4, <3>1, Zenon DEF Take
    <3>2. CASE ~(synced /\ o = server)
      BY <2>4, <3>2, Zenon DEF Take
    <3> QED BY <3>1, <3>2
  <2>5. UNCHANGED <<server, synced>> \/ ~synced'
    BY <2>3, <2>4
  <2> QED BY <2>1, <2>5 DEF OwnedIsWatched
<1> QED BY <1>2, <1>3, <1>4, <1>5, <1>6, <1>7, <1>8 DEF Next, WorkerStep

(***************************************************************************)
(* A route that carries our finalizer is watched until it does not: what   *)
(* is skipped was not ours in the cache, and then either not at the API    *)
(* server, or the cache is behind and its event still to come.             *)
(***************************************************************************)
THEOREM OwnedAreWatched == Spec => []OwnedIsWatched
<1>1. Init => OwnedIsWatched
  BY DEF Init, OwnedIsWatched
<1> QED BY <1>1, RouteInvariant, NextWatched, PTL DEF Spec

\* A step of the reconciler changes the finalizer, its own entry, or nothing.
LEMMA WorkerKeeps ==
  ASSUME RouteInv, WorkerStep, server' # server, server' # Absent
  PROVE  /\ server'.spec = server.spec /\ server'.gen = server.gen
         /\ server'.deleting = server.deleting
         /\ server'.status.theirs = server.status.theirs
         /\ \A p \in Parents \ {job.parent} :
              server'.status.ours[p] = server.status.ours[p]
<1>1. CASE AddFinalizer
  <2>1. server \in Live /\ server' = Owned
    BY <1>1, AddFinalizerStep, LiveIffPresent DEF RouteInv, TypeOK
  <2> QED BY <2>1, WithFinalizer DEF Owned
<1>2. CASE UpdateStatus \/ UpdateAgain
  BY <1>2, UpdateStatusStep, UpdateAgainStep DEF Alike
<1>3. CASE RemoveFinalizer
  BY <1>3, RemoveFinalizerStep
<1>4. CASE Skip \/ Reconcile \/ SetRoute \/ Refetch \/ RemoveRoute
  BY <1>4 DEF Skip, Reconcile, SetRoute, Refetch, RemoveRoute, Local
<1> QED BY <1>1, <1>2, <1>3, <1>4 DEF WorkerStep

(***************************************************************************)
(* A write of this controller touches nothing that is somebody else's,     *)
(* whatever copy it started from and whatever answer was lost.             *)
(***************************************************************************)
THEOREM OthersAreKept == Spec => OthersKept
<1>1. RouteInv /\ [Next]_vars =>
        [WorkerStep /\ server' # server /\ server' # Absent =>
           /\ server'.spec = server.spec /\ server'.gen = server.gen
           /\ server'.deleting = server.deleting
           /\ server'.status.theirs = server.status.theirs
           /\ \A p \in Parents \ {job.parent} :
                server'.status.ours[p] = server.status.ours[p]]_vars
  BY WorkerKeeps
<1> QED BY <1>1, RouteInvariant, PTL DEF Spec, OthersKept

===============================================================================
