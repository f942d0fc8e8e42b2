# Waylog: models and proofs

TLA+ models of Waylog's ingest server and SDKs, checked with TLC on small
instances and, for the core, proved with TLAPS for every instance.  Paths
below are relative to the repository; `PROJECT.json` maps every definition to
the lines it models.

## The system

| Part | State | Operations | What makes it hard |
|---|---|---|---|
| Go SDK (`pkg/waylog/v2`, `pkg/transport/http`) | a request being recorded; two byte-budgeted queues; one worker | Submit, takeReadyBatches, flushBatch, requeueFront, Shutdown | overflow, retries, shutdown against a sleeping worker |
| TypeScript SDK (`packages/waylog-ts`) | the same, on one event loop | submit, flush, retry, shutdown | a shutdown while a flush is awaiting |
| Ingest path (`internal/ingest/v2`) | event-id LRU, recent index | IngestRaw, PruneOlderThan, ReplayWAL | concurrent handlers, retries of stored events, crashes between log and index |
| Write-ahead log (`internal/eventlog/v2`) | files, the open file, bytes written | WriteRaw, rotation, New, Close, Replay, retention | torn writes, failing fsync, failing rotation, power loss |
| Plan execution (`internal/ingest/plan_store.go`, `handler.go`) | plans with their event logs and subscriber channels | Create, Publish, Complete, Subscribe, Unsubscribe, eviction, Close | channels closed by one goroutine while another sends |
| Incident engine (`internal/incidents`, `internal/coldstore/incident_store.go`) | rows in SQLite, a map of the open ones | Tick, ApplyLive, ApplyRebuild, Bootstrap, retention | ticks cut short, restarts, reused ids, notifications |
| Idempotency cache (`internal/ingest/dedup.go`) | entries, requests in flight | AcquireOrWait, Complete | waiters, expiry, conflicting bodies |
| Legacy log, pipeline, cold store, client (`internal/eventlog`, `internal/ingest/pipeline.go`, `internal/coldstore`, `pkg/client.go`) | commit queue, batch channel, flush loop | Write, Enqueue, Stop, Close | close against late senders, lost batches |
| Signals, deployments, alerts, triage, tools, MCP, CLI | SQLite tables, or none | inserts, queries, rendering | mostly stateless |

Events flow from an SDK's queue over HTTP to the ingest path, which logs each
event, remembers its id, and projects it into the recent index.  The incident
engine reads the index on a ticker.  On restart the index and the LRU are
rebuilt from the log, and the engine's map from SQLite.  Plans run tools over
the same index and stream their progress to clients.

The properties that matter: what was acknowledged is in the log and visible;
nothing is shown or called a duplicate that is not logged; a restart rebuilds
what was there; a queue loses nothing uncounted and comes to rest; a stream
gets every event once and ends; the operator is told of every incident, once,
and it resolves.

## Modules

**EventLog** models `eventlog/v2/writer.go` and `eventlog/retention.go` over a
model of files: complete lines, bytes after the last newline, how much fsync
has covered, creation and modification times.  A line is an event or `Garbage`.
A JSON body reaches the log as the client sent it and only its end is trimmed,
so a document sent over several lines (the constant `MultiLine`) becomes lines
of which none parses; they are one `Garbage` line in the model.  A write can be
refused, be torn, fail to sync, or fail in the close or the open of a rotation.
It has no Init: Ingest composes it.

**Ingest** adds the handlers (`Receive`, `Reject`, `Duplicate`, `Commit`,
`CommitFails`, `Project`, `ProjectPanics`, `Respond`), the LRU (`AddLocked`,
`Without`), the index as the set of events it holds, the prune loop, the
retention loop, crashes with and without power loss, a crash in the middle of a
write, and boot: open a new file, replay line by line, serve, or exit because
replay failed (`ReplayFails`).  Event times come from the client and are not
bounded, as in `validateEvent`.  The retention loop takes two steps: it
evaluates `ActivePath()` (`RetainStart`), then lists the directory, reads the
clock and deletes (`Retain`); handlers may rotate in between.  `accepted`,
`acked`, `expired` and `panicked` are history: what clients were told, what
retention took, and whose projection panicked in this process.

**EventStore** is what clients may rely on: stored before shown, stored before
acknowledged, kept through failures.  `Ingest!ImplementsEventStore` maps the
log to what the directory holds and the view to the index.

**SdkQueue** models `pkg/transport/http/queue.go` with the outcomes of
`batch.go`: two queues with one byte budget, priority events displacing ok
ones, the worker's select, batches, retries put back at the front after a
sleep, and shutdown.  An event that cannot be encoded stays in its batch and is
counted each time, as in `flushBatch`; `DropsCounted` bounds the recount.
Single-post mode, which has no queue, is left out.

**PlanStore** models `internal/ingest/plan_store.go` and the control flow of
`executePlanWithProgress` and `PlanStream`: every lock section is a step, every
send on a channel after the lock was released is a step of its own, and a send
on a closed channel ends the goroutine as the panic does.

**IncidentEngine** models the error-family half of `internal/incidents`: window
counts with both ends included, the median baseline, ids in five-minute
buckets, the derived rows, and `ApplyLive` as Upsert, then map and notifier,
with failures and crashes between them; retention; and the three ways a start
treats the table: plain, rebuilt from a replay, and stale rows when the replay
is empty.  `told` and `unannounced` are history: what the notifier was told.

`MC*` modules fix instances.  Definitions whose comment begins "Mutant:" are
wrong versions of the definition after them; each property is violated when
one of them takes its place.

## Runs

| Run | Shows |
|---|---|
| `ingest` | two handlers; a one-line and a multi-line body, times behind and ahead of the server's clock; retries, duplicates, rotation, failing write, fsync, close and open, projector panics, a crash at any step, replay, pruning, retention: OneLineDurable, NothingUnlogged, AckedVisible, IndexRebuildable, and that the path implements EventStore |
| `ingest_power` | torn writes, failing fsync, projector panics, power loss: TornWriteLosesOne |
| `ingest_live` | EventuallyVisible under fairness, with crashes, failed replays and panics; ReplayOrderMatches: replay rebuilds the LRU in the order the process had it |
| `ingest_multiline` | violates AckedDurable: a body of several lines is acknowledged and unreadable |
| `ingest_unsynced` | violates AckedDurable: a replayed line no fsync covers makes a retry a duplicate, and a power loss takes it |
| `ingest_retention` | violates IndexAlwaysRebuildable: retention goes by a file's creation time |
| `sdk_queue` | DropsCounted, BytesExact, PostsBounded, DrainedEmpty, RetryPutBack, PriorityLast, and under fairness Settles and Drains |
| `plan_store` | StoreExact, RunningKept, LogComplete, ClosedOnce, RegisteredLive, EachOnce, LateReplayExact |
| `plan_live` | StreamEnds, ReplayEnds under fairness |
| `plan_replay_order` | violates ReplayBeforeLive: a live event overtakes the replay |
| `plan_publish_panic` | violates PublishFansOut: a send on a channel its client closed |
| `incidents` | CacheMatchesStore, OneOpenPerFamily, NotificationsExact, Lifecycle, LostOnlyByRebuild, SuspectSticky, and under fairness QuietResolves |

The violated properties state what a document or a comment says; `findings` in
`PROJECT.json` quotes each.

### Bounds

* Ingest: two handlers give every race on one id.  In `ingest` a file holds one
  record, so every write rotates; two records are a write and its retry, or two
  events in two files; one crash; retention and the hot window are one unit of
  a clock that reaches two, so files grow older than the events they hold and
  an event can be ahead of its file.  `ingest_power` has files of two records,
  three records and two crashes, the second of which loses what the first left
  unsynced.  `ingest_live` has three events, one of them multi-line, for a cache
  of two, and two crashes or failed boots.
* SdkQueue: any four of six events: two of each class whose sizes overflow a
  budget of three (two for OK events) by enqueueing and by putting back, one too
  large for its budget, one that cannot be encoded.  Batches of two; one retry
  is enough to be put back and to run out.
* PlanStore: three plans compete for two places; two streams on one plan race each
  other, replay and shutdown.  Streams are interchangeable, hence the symmetry
  in the safety run; the liveness run has one stream and no symmetry.
* IncidentEngine: one family in two environments gives two rows in a tick; two
  failed events and five units of time are enough to open, recover, resolve and
  reopen an id, and to let a row go stale; one crash or failed Upsert.

### Fairness

Weak fairness on the steps of goroutines that Go schedules: projecting, replay,
the worker, executors, the engine's loop.  Posts end because the HTTP client
has a timeout; a select chooses at random, hence strong fairness for the
worker's stop case.  A supervisor restarts the process.  No client has to send,
leave or shut down; crashes and failed Upserts are bounded, so they stop.

## Proofs

`IngestProofs` proves, for every number of handlers,
events, files, batches and faults, and every value of the time constants:

* **TypeCorrect**: `Spec => []TypeOK`.  Inductive with one fact added: a
  handler that is projecting has an event to project (`TypeInv`).
* **AckedDurableCorrect**: `Spec => [](OneLineDurable /\ NothingUnlogged)` when
  writes are not torn and crashes lose no power.
* **AcceptedDurableCorrect**: `Spec => []AcceptedDurable` with `SyncOnWrite`,
  power losses included, when writes are not torn and the file system keeps the
  directory entry of a file it synced.
* **IngestImplementsEventStore**: `Spec => ImplementsEventStore`,
  **IndexRebuildableCorrect**: `Spec => []IndexRebuildable` and
  **AckedVisibleCorrect**: `Spec => []AckedVisible`, each under the conditions
  of AckedDurableCorrect.

The exceptions.  An acknowledged event can be missing from the log in three
ways: its body has several lines (`ingest_multiline`), a torn write spoilt its
line (`ingest_power` bounds the loss), or it was acknowledged as a duplicate of
a line no fsync covered and the power went (`ingest_unsynced`); and, on a file
system that needs it, because nothing syncs the directory.  The first is in the
statements (`\ MultiLine`), the others are hypotheses.  AckedVisible and
IndexRebuildable also except events whose time is further ahead of their file's
mtime than `replayRotationSlack` (`ClockAhead`), events retention deleted, and,
for AckedVisible, events whose projection panicked.

OneLineDurable alone is not inductive: an acknowledged event was earlier an
event of a request, and before that a line of a file.  `ProcessInv` says that
every event acknowledged, indexed, cached, counted by a request or waiting to
be projected is logged, or is multi-line; `LogInv` says that fsync never covers
more lines than there are and that the open file exists and ends in a newline,
so that the next record is a line of its own.  That it exists rests on
`ScanInv`: a file the retention scan did not read as active was opened after
the scan began, hence is too young to be deleted.  The step that carries the
weight is the lemma `NothingLost`: whatever the process does, no logged event
stops being logged, except into `expired`.  It rests on one lemma per file
operation (`WriteOkKeeps`, `WriteErrKeeps`, `OpenKeeps`, `CloseKeeps`,
`CrashKeeps`, `RetainKeeps`), each an instance of `Extended`: the new version of
a file holds what the old one held.  For power losses `PowerInv` replaces
"logged" by "in a synced line".  The refinement shows each step to be a step
or a stutter of EventStore with the same lemmas.  AckedVisible needs in addition
that replay, at every position, has loaded what lies before it, and that a file
replay passes over cannot hold an event of the window unless its time is ahead
of the file.

Only model-checked: every property of SdkQueue, PlanStore and IncidentEngine;
ReplayOrderMatches and TornWriteLosesOne; and all liveness, which the prover
does not reach.

## Not modelled, and the plan

Abstractions to know of: files replay in the order of their creation (two
files last written in one tick of the file system's clock would be ordered by
name); an event is its id, so two bodies with one id do not occur; an incident
id does not collide.

Timing.  The retention loop is assumed not to be suspended for longer than
`EVENT_LOG_RETENTION` (72 hours by default) between evaluating `ActivePath()`
and reading the clock; without that a file opened in between could be deleted
while it is being written.  Its ticker fires at most once in a unit of the
clock, which is therefore at least five minutes.

Unreachable and left out: PlanStream's return when the response writer is not an
`http.Flusher` (the server wraps none of net/http's writers, which are), and
`Client.Submit` of a client without a URL, which does nothing.  IncidentEngine
assumes that a family has at most 200 failures in a window, the limit of the
sample that gives an incident its start and environment.

Next, in this order:

1. *RecentIndex*: the maps by trace and service, aggregates under insert and
   prune, cursors; refined by the set Ingest uses.
2. *SdkRequest*: steps, logs and errors of concurrent goroutines against the
   end of a request, the budget, the anchor; the middleware's panics and
   timeouts.
3. *Transport (TypeScript)*: flush and shutdown on one event loop, with the
   same promises as SdkQueue.
4. *DedupCache*: owners, waiters, expiry; composed with plan execution.
5. *GroupCommit*, *BatchWriter*, *Client*: the legacy writer, cold store and
   client, each against its close.
6. *Anomalies*: the traffic and latency detectors with their count of
   consecutive ticks, added to IncidentEngine; delivery of notifications.
7. *Deployments and signals*: idempotent inserts, retention, correlation.
8. Pure functions against reference definitions: percentile, lift and severity,
   anchor and linkage, sample selection, cursors, plan references, classifier.

Hazards these will cover, besides the ones `PROJECT.json` lists: windows that
include both ends (`internal/ingest/v2/reader.go:168`); notifications delivered
by a goroutine each (`internal/notify/notify.go:63`); a timer that is not armed
again after a shutdown (`transport.ts:170`); a rotation whose open fails in the
legacy log (`internal/eventlog/writer.go:214`); a lost cold-store batch that
moves no counter (`event_writer.go:126`); a conflicting body that waits for the
owner (`internal/ingest/dedup.go:230`); an evicted rate-limit key that returns
with a full bucket (`ratelimit.go:61`); the 121 minutes a window of 120 spans
(`internal/ingest/handler.go:71`); aggregates under pruning
(`internal/ingest/v2/index.go:166`).

Then theorems: the byte accounting and the counting of drops in SdkQueue, CacheMatchesStore and
OneOpenPerFamily for the incident engine, StoreExact and ClosedOnce for plans.

Left out for good: rendering, prompts and model providers, authentication,
command-line programs, metrics registration and the demonstration services.
`PROJECT.json` lists every part with its status.
