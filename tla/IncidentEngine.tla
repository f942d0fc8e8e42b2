--------------------------- MODULE IncidentEngine ---------------------------
(***************************************************************************)
(* The incident engine: internal/incidents (engine.go, id.go, rebuild.go,  *)
(* retention.go), the SQLite rows it owns (internal/coldstore/             *)
(* incident_store.go) and the boot sequence that restarts it               *)
(* (cmd/ingest/main.go).                                                   *)
(*                                                                         *)
(* Every tick reads the failed events of the recent index, opens or        *)
(* refreshes an incident for each spiking error family, and moves the      *)
(* incidents it did not see to "recovering" and later "resolved".  A tick  *)
(* works on a snapshot of the in-memory map `active`, then applies its     *)
(* rows one by one: SQLite first, then the map, then the notifier.  The    *)
(* process can die between any two of those steps; SQLite survives, the    *)
(* map is reloaded.                                                        *)
(*                                                                         *)
(* Data: an incident row keeps the fields decisions are made from.  Its    *)
(* env and family are those of its id, since StableID hashes them.  Which  *)
(* recent deploy the classifier suspects is an input.  The traffic and     *)
(* latency detectors, evidence, severity and samples are not modelled.     *)
(***************************************************************************)
EXTENDS Integers, FiniteSets, FiniteSetsExt, Functions

CONSTANTS
    Families,       \* error families (service, step, error code)
    Envs,           \* environments events are tagged with
    Deploys,        \* deployments the classifier can suspect
    DeployedAt,     \* when each of them was made
    None,           \* no deployment, no row
    MinCount,       \* Config.MinCount
    MinRate,        \* Config.MinRate, failures per unit of time; 0 is off
    MinLift,        \* Config.MinLift
    Window,         \* Config.Window
    ResolveAfter,   \* Config.ResolveAfter
    DeployWindow,   \* Config.DeployCorrelationWindow
    IdBucket,       \* id.go idBucket
    ReplayWindow,   \* what a rebuild replays: the hot window, at least 4 windows
    Retention,      \* age at which resolved rows are pruned
    MaxDelay,       \* bound: how long after its ts_start an event arrives
    MaxTime,        \* bound: the clock stops here
    MaxEvents,      \* bound: failed events in a behaviour
    MaxFaults       \* bound: crashes and failed Upserts in a behaviour

ASSUME TimesAssumption ==
    /\ {MinCount, MinLift, Window, ResolveAfter, DeployWindow, IdBucket}
           \subseteq Nat \ {0}
    /\ {MinRate, Retention, MaxDelay, MaxTime, MaxEvents, MaxFaults} \subseteq Nat
    /\ ReplayWindow \in Nat /\ ReplayWindow >= 4 * Window
    /\ None \notin Deploys /\ DeployedAt \in [Deploys -> Nat]

VARIABLES
    now,            \* the wall clock
    events,         \* failed events in the WAL and the recent index
    store,          \* the incidents table: id -> row
    active,         \* Engine.active: id -> row, the in-memory map
    up,             \* the process is running and ticking
    rows,           \* derived rows ApplyLive has still to apply
    written,        \* the row Upsert has stored and ApplyLive has not finished
    told,           \* id -> the last notification the engine handed out
    unannounced,    \* ids that opened or resolved with no notification
    faults          \* crashes and failed Upserts so far

vars == <<now, events, store, active, up, rows, written, told, unannounced,
          faults>>

NoTime == -1

Times == 0..MaxTime

Ids == [env : Envs, family : Families, bucket : 0..(MaxTime \div IdBucket)]

Incidents == [status : {"active", "recovering", "resolved"},
              startedAt : Times, lastSeenAt : Times,
              resolvedAt : Times \cup {NoTime}, suspect : Deploys \cup {None}]

DerivedRows == [id : Ids, inc : Incidents, existed : BOOLEAN]

-----------------------------------------------------------------------------
(* Reading the index.                                                      *)

(* Windows include both ends, so an event on a boundary counts twice.      *)
Failures(f, since, until) ==
    {e \in events : e.family = f /\ since <= e.ts /\ e.ts <= until}

Median3(a, b, c) == Max({Min({a, b}), Min({Max({a, b}), c})})

Baseline(f) ==
    LET Prior(i) == Cardinality(Failures(f, now - (i + 2) * Window,
                                            now - (i + 1) * Window))
    IN  Median3(Prior(0), Prior(1), Prior(2))

Spiking(f) ==
    LET count == Cardinality(Failures(f, now - Window, now))
    IN  /\ count >= MinCount
        /\ count >= MinRate * Window
        /\ Baseline(f) > 0 => count >= MinLift * Baseline(f)

Samples(f) == Failures(f, now - Window, now)

EarliestEventTime(f) == Min({e.ts : e \in Samples(f)})

(* Events come newest first; among equal timestamps any can be first.      *)
FirstEventEnvs(f) ==
    {e.env : e \in {d \in Samples(f) : \A x \in Samples(f) : x.ts <= d.ts}}

-----------------------------------------------------------------------------
(* Deriving the rows of a cycle from a seed (a snapshot of `active`).      *)

\* Mutant: the start is not truncated to its bucket.
StableIDExact(env, f, t) == [env |-> env, family |-> f, bucket |-> t]

StableID(env, f, t) == [env |-> env, family |-> f, bucket |-> t \div IdBucket]

Open(s) == {id \in DOMAIN s : s[id].status # "resolved"}

FindByFamilyIn(seed, env, f) == {id \in Open(seed) : id.env = env /\ id.family = f}

\* Mutant: no look-up by family, only by id.
BuildIncidentById(seed, f, env, deploy) ==
    LET id      == StableID(env, f, EarliestEventTime(f))
        existed == id \in DOMAIN seed
    IN  [id |-> id, existed |-> existed,
         inc |-> [status     |-> "active",
                  startedAt  |-> IF existed THEN seed[id].startedAt
                                 ELSE EarliestEventTime(f),
                  lastSeenAt |-> now,
                  resolvedAt |-> NoTime,
                  suspect    |-> IF deploy = None /\ existed THEN seed[id].suspect
                                 ELSE deploy]]

(* A family that has an open incident keeps it: its start and its id.      *)
BuildIncidentFromSeed(seed, f, env, deploy) ==
    LET prior     == FindByFamilyIn(seed, env, f)
        startedAt == IF prior = {} THEN EarliestEventTime(f)
                     ELSE seed[CHOOSE p \in prior : TRUE].startedAt
        stable    == StableID(env, f, startedAt)
        id        == IF stable \in DOMAIN seed \/ prior = {} THEN stable
                     ELSE CHOOSE p \in prior : TRUE
        existed   == id \in DOMAIN seed
    IN  [id |-> id, existed |-> existed,
         inc |-> [status     |-> "active",
                  startedAt  |-> IF existed THEN seed[id].startedAt ELSE startedAt,
                  lastSeenAt |-> now,
                  resolvedAt |-> NoTime,
                  suspect    |-> IF deploy = None /\ existed THEN seed[id].suspect
                                 ELSE deploy]]

\* Mutant: an incident not seen for ResolveAfter is resolved, active or not.
DeriveMissingAtOnce(seed, seen) ==
    LET missing == DOMAIN seed \ seen
        due     == {id \in missing : now - seed[id].lastSeenAt >= ResolveAfter}
        Row(id, inc) == [id |-> id, inc |-> inc, existed |-> TRUE]
    IN  {Row(id, [seed[id] EXCEPT !.status = "resolved", !.resolvedAt = now]) :
            id \in due}
        \cup
        {Row(id, [seed[id] EXCEPT !.status = "recovering"]) :
            id \in {m \in missing \ due : seed[m].status = "active"}}

(* Seed rows this cycle did not see.  One that is recovering and not yet   *)
(* due yields no row at all.                                               *)
DeriveMissing(seed, seen) ==
    LET missing   == DOMAIN seed \ seen
        Row(id, inc) == [id |-> id, inc |-> inc, existed |-> TRUE]
    IN  {Row(id, [seed[id] EXCEPT !.status = "recovering"]) :
            id \in {m \in missing : seed[m].status = "active"}}
        \cup
        {Row(id, [seed[id] EXCEPT !.status = "resolved", !.resolvedAt = now]) :
            id \in {m \in missing : /\ seed[m].status = "recovering"
                                    /\ now - seed[m].lastSeenAt >= ResolveAfter}}

(* env and deploy give, for each family, the environment of its first      *)
(* sample and the deployment the classifier suspects.                      *)
Derive(seed, env, deploy) ==
    LET spikes == {BuildIncidentFromSeed(seed, f, env[f], deploy[f]) :
                      f \in {g \in Families : Spiking(g)}}
    IN  spikes \cup DeriveMissing(seed, {r.id : r \in spikes})

(* The classifier can only suspect a deployment that queryDeploys returns. *)
QueryDeploys == {d \in Deploys : /\ now - DeployWindow <= DeployedAt[d]
                                 /\ DeployedAt[d] <= now}

Verdicts == [Families -> QueryDeploys \cup {None}]

Readings == {env \in [Families -> Envs] :
                \A f \in Families : Spiking(f) => env[f] \in FirstEventEnvs(f)}

-----------------------------------------------------------------------------
(* The incidents table.  A conflicting insert leaves started_at alone and  *)
(* never clears suspect_deploy_id.                                         *)

Put(s, id, inc) == [i \in DOMAIN s \cup {id} |-> IF i = id THEN inc ELSE s[i]]

\* Mutant: suspect_deploy_id = excluded.suspect_deploy_id.
UpsertOverwrites(s, id, inc) ==
    Put(s, id, IF id \notin DOMAIN s THEN inc
               ELSE [inc EXCEPT !.startedAt = s[id].startedAt])

UpsertIncident(s, id, inc) ==
    Put(s, id,
        IF id \notin DOMAIN s THEN inc
        ELSE [inc EXCEPT !.startedAt = s[id].startedAt,
                         !.suspect = IF inc.suspect = None THEN s[id].suspect
                                     ELSE inc.suspect])

UpsertAll(s, derived) ==
    [id \in DOMAIN s \cup {r.id : r \in derived} |->
        IF \E r \in derived : r.id = id
        THEN UpsertIncident(s, id, (CHOOSE r \in derived : r.id = id).inc)[id]
        ELSE s[id]]

ReplaceNonResolved(s, derived) ==
    UpsertAll(Restrict(s, DOMAIN s \ Open(s)), derived)

\* Mutant: WHERE status = 'active'.
ListOnlyActive(s) == Restrict(s, {id \in DOMAIN s : s[id].status = "active"})

ListActive(s) == Restrict(s, Open(s))

-----------------------------------------------------------------------------

Nothing == [id \in {} |-> None]

Init ==
    /\ now = 0 /\ events = {} /\ faults = 0
    /\ store = Nothing /\ active = Nothing
    /\ up = FALSE /\ rows = {} /\ written = None
    /\ told = [id \in Ids |-> "none"]
    /\ unannounced = {}

Clock ==
    /\ now < MaxTime
    /\ now' = now + 1
    /\ UNCHANGED <<events, store, active, up, rows, written, told, unannounced,
                   faults>>

(* A failed event reaches the index.  Its ts_start is when the request     *)
(* began, so it can lie in the past.                                       *)
Fail(f, env, ts) ==
    /\ Cardinality(events) < MaxEvents
    /\ now - MaxDelay <= ts /\ ts <= now
    /\ events' = events \cup {[family |-> f, env |-> env, ts |-> ts]}
    /\ UNCHANGED <<now, store, active, up, rows, written, told, unannounced,
                   faults>>

Idle == up /\ rows = {} /\ written = None

(* Engine.Tick up to ApplyLive: derive reads, and changes nothing.         *)
Tick(env, deploy) ==
    /\ Idle
    /\ UNCHANGED <<now, events, store, active, up, written, told, unannounced,
                   faults>>
    /\ rows' = Derive(active, env, deploy)

(* ApplyLive takes the spiking rows first, then the missing ones.          *)
NextRows == IF \E r \in rows : r.inc.status = "active"
            THEN {r \in rows : r.inc.status = "active"} ELSE rows

Upsert(r) ==
    /\ up /\ written = None /\ r \in NextRows
    /\ store' = UpsertIncident(store, r.id, r.inc)
    /\ written' = r
    /\ rows' = rows \ {r}
    /\ UNCHANGED <<now, events, active, up, told, unannounced, faults>>

\* Mutant: the map is updated before the table.
UpsertFailsRemembered ==
    /\ up /\ written = None /\ rows # {} /\ faults < MaxFaults
    /\ \E r \in NextRows : active' = Put(active, r.id, r.inc)
    /\ rows' = {}
    /\ faults' = faults + 1
    /\ UNCHANGED <<now, events, store, up, written, told, unannounced>>

(* SQLite refuses a row: ApplyLive returns, and drops the rows after it.   *)
UpsertFails ==
    /\ up /\ written = None /\ rows # {} /\ faults < MaxFaults
    /\ rows' = {}
    /\ faults' = faults + 1
    /\ UNCHANGED <<now, events, store, active, up, written, told, unannounced>>

\* Mutant: an id is announced once, so a reopened incident is not.
OpensFirst(r) == r.inc.status = "active" /\ ~r.existed /\ told[r.id] = "none"

Opens(r) == r.inc.status = "active" /\ ~r.existed
Resolves(r) == r.inc.status = "resolved"

(* The rest of ApplyLive's loop body: forget or remember, then notify.     *)
Remember ==
    /\ up /\ written # None
    /\ LET id == written.id
           announced == Opens(written) \/ Resolves(written)
       IN  /\ active' = IF Resolves(written)
                        THEN Restrict(active, DOMAIN active \ {id})
                        ELSE Put(active, id, written.inc)
           /\ told' = IF announced
                      THEN [told EXCEPT ![id] = IF Opens(written) THEN "opened"
                                                ELSE "resolved"]
                      ELSE told
           /\ unannounced' = IF announced THEN unannounced \ {id}
                             ELSE unannounced
    /\ written' = None
    /\ UNCHANGED <<now, events, store, up, rows, faults>>

\* Mutant: the age of a row is that of its last sighting, whatever its status.
PruneOlderThan ==
    /\ up
    /\ store' = Restrict(store, {id \in DOMAIN store :
                                    store[id].lastSeenAt >= now - Retention})
    /\ UNCHANGED <<now, events, active, up, rows, written, told, unannounced,
                   faults>>

(* RunRetention deletes old resolved rows, at any moment of a tick.        *)
PruneResolvedOlderThan ==
    /\ up
    /\ store' = Restrict(store, {id \in DOMAIN store :
                    ~ (/\ store[id].status = "resolved"
                       /\ store[id].resolvedAt < now - Retention)})
    /\ UNCHANGED <<now, events, active, up, rows, written, told, unannounced,
                   faults>>

Crash ==
    /\ up /\ faults < MaxFaults
    /\ up' = FALSE
    /\ active' = Nothing /\ rows' = {} /\ written' = None
    /\ unannounced' = IF written # None /\ (Opens(written) \/ Resolves(written))
                      THEN unannounced \cup {written.id} ELSE unannounced
    /\ faults' = faults + 1
    /\ UNCHANGED <<now, events, store, told>>

-----------------------------------------------------------------------------
(* Starting the engine, before any tick.  Whether a rebuild is asked for   *)
(* is a setting of each start.                                             *)

ReplaySince == now - ReplayWindow

Start(table) ==
    /\ ~up
    /\ up' = TRUE
    /\ store' = table
    /\ active' = ListActive(table)
    /\ UNCHANGED <<now, events, rows, written, told, faults>>

Bootstrap == Start(store) /\ UNCHANGED unannounced

(* The replay projected events, failed ones or not: derive over them,      *)
(* replace every open row by the derived ones, notify nobody.              *)
Rebuild(env, deploy) ==
    LET table == ReplaceNonResolved(store, Derive(ListActive(store), env, deploy))
    IN  /\ Start(table)
        /\ unannounced' = unannounced \cup (Open(table) \ Open(store))
                          \cup {id \in Open(store) : /\ id \in DOMAIN table
                                                     /\ id \notin Open(table)}

(* The replay projected nothing: active rows older than what was replayed  *)
(* are moved to recovering, those whose Upsert fails are left.             *)
TransitionStale(done) ==
    /\ \A e \in events : e.ts < ReplaySince
    /\ done \subseteq {id \in Open(store) : /\ store[id].status = "active"
                                            /\ store[id].startedAt < ReplaySince}
    /\ done # {}
    /\ Start([id \in DOMAIN store |->
                IF id \in done THEN [store[id] EXCEPT !.status = "recovering"]
                ELSE store[id]])
    /\ UNCHANGED unannounced

TickOnce == \E env \in Readings, deploy \in Verdicts : Tick(env, deploy)
UpsertOne == \E r \in rows : Upsert(r)
Boot == \/ Bootstrap
        \/ \E env \in Readings, deploy \in Verdicts : Rebuild(env, deploy)
        \/ \E done \in SUBSET DOMAIN store : TransitionStale(done)

Next ==
    \/ Clock
    \/ \E f \in Families, env \in Envs, ts \in Times : Fail(f, env, ts)
    \/ TickOnce
    \/ UpsertOne
    \/ UpsertFails
    \/ Remember
    \/ PruneResolvedOlderThan
    \/ Crash
    \/ Boot

Spec == Init /\ [][Next]_vars

(* The clock runs, and the engine's one goroutine goes on: the process is  *)
(* restarted, its ticker fires, a tick that has begun is applied.  These   *)
(* steps exclude each other, so fairness of their disjunction is fairness  *)
(* of each.  Crashes and failed Upserts are finitely many because          *)
(* MaxFaults bounds them.                                                  *)
EngineStep == Bootstrap \/ TickOnce \/ UpsertOne \/ Remember

FairSpec == Spec /\ WF_vars(Clock) /\ WF_vars(EngineStep)

-----------------------------------------------------------------------------

(* The types of the state: ids carry the bucket of their start, rows hold  *)
(* times the clock has shown (engine.go:99, types of Incident).            *)
TypeOK ==
    /\ now \in Times /\ faults \in 0..MaxFaults /\ up \in BOOLEAN
    /\ events \subseteq [family : Families, env : Envs, ts : Times]
    /\ DOMAIN store \subseteq Ids /\ \A id \in DOMAIN store : store[id] \in Incidents
    /\ DOMAIN active \subseteq Ids /\ \A id \in DOMAIN active : active[id] \in Incidents
    /\ rows \subseteq DerivedRows /\ written \in DerivedRows \cup {None}
    /\ told \in [Ids -> {"none", "opened", "resolved"}]
    /\ unannounced \subseteq Ids

(* Between ticks the in-memory map holds exactly the open rows of the      *)
(* table, with their status and last sighting, whatever Upserts failed,    *)
(* whatever was pruned, and after every restart.  The start may differ:    *)
(* a reopened id keeps its old started_at in SQLite (incident_store.go:    *)
(* 105), but both lie in the id's bucket.                                  *)
CacheMatchesStore ==
    Idle =>
        /\ DOMAIN active = Open(store)
        /\ \A id \in Open(store) :
              /\ active[id].status = store[id].status
              /\ active[id].lastSeenAt = store[id].lastSeenAt
              /\ active[id].startedAt \div IdBucket = id.bucket
              /\ store[id].startedAt \div IdBucket = id.bucket

(* One environment never has two open incidents for one error family       *)
(* (findByFamilyIn, engine.go:926), at any moment, so the operator never   *)
(* sees a failure twice.                                                   *)
OneOpenPerFamily ==
    \A a, b \in Open(store) : a.env = b.env /\ a.family = b.family => a = b

(* Once ApplyLive has finished a row, the last notification about an       *)
(* incident says what the table says: opened while it is open, resolved    *)
(* when it is resolved.  Only a rebuild and a crash between the Upsert and *)
(* the notifier leave one unannounced (engine.go:529).                     *)
NotificationsExact ==
    up /\ written = None =>
        \A id \in DOMAIN store \ unannounced :
            told[id] = IF store[id].status = "resolved" THEN "resolved"
                       ELSE "opened"

(* A row only ever takes the transitions open, recover, reopen, resolve:   *)
(* never straight from active to resolved, and never back to recovering    *)
(* once resolved (deriveMissing, engine.go:469).                           *)
Lifecycle ==
    [][\A id \in DOMAIN store' :
          IF id \in DOMAIN store
          THEN <<store[id].status, store'[id].status>> \notin
                   {<<"active", "resolved">>, <<"resolved", "recovering">>}
          ELSE store'[id].status = "active"]_vars

(* Rows leave the table only when they are resolved, with one exception: a *)
(* rebuild drops an incident that is recovering and not yet due, because   *)
(* deriveMissing yields no row for it (engine.go:483, :549).               *)
LostOnlyByRebuild ==
    [][\A id \in DOMAIN store \ DOMAIN store' :
          \/ store[id].status = "resolved"
          \/ /\ ~up
             /\ store[id].status = "recovering"
             /\ now - store[id].lastSeenAt < ResolveAfter]_vars

(* "Once set it is never cleared" (engine.go:751): a row keeps a suspect   *)
(* deployment through re-classification, recovery, reopening and restarts. *)
SuspectSticky ==
    [][\A id \in DOMAIN store \cap DOMAIN store' :
          store[id].suspect # None => store'[id].suspect # None]_vars

(* An incident whose family stays quiet does not stay open: when the last  *)
(* failures are older than a window and ResolveAfter, it is resolved or    *)
(* gone.  The clock stops at MaxTime, so this speaks of behaviours that    *)
(* are quiet at the end.                                                   *)
Quiet(f) == now = MaxTime /\ Failures(f, MaxTime - Window - ResolveAfter, MaxTime) = {}

QuietResolves ==
    \A f \in Families :
        <>[]Quiet(f) => <>[](\A id \in Open(store) : id.family # f)
=============================================================================
