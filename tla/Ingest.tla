------------------------------- MODULE Ingest -------------------------------
(***************************************************************************)
(* The schema-2.0 ingest path: concurrent POST /v1/events handlers         *)
(* (internal/ingest/v2/handler.go), the event_id LRU (dedup.go), the log   *)
(* (module EventLog), the recent index (index.go), replay at boot          *)
(* (replay.go) and the prune and retention loops of cmd/ingest/main.go,    *)
(* with crashes and restarts.                                              *)
(*                                                                         *)
(* The recent index is the set of events it holds; the maps and aggregates *)
(* it derives from them are left out.                                      *)
(***************************************************************************)
EXTENDS EventLog, FiniteSets

CONSTANTS
    Handlers,       \* goroutines serving POST /v1/events
    Batches,        \* the request bodies clients send: sequences of events
    Invalid,        \* events the schema rejects
    Ts,             \* TsEnd of each event, set by the client's clock
    Capacity,       \* WAYLOG_V2_DEDUP_CAPACITY
    HotWindow,      \* GRAPH_HOT_WINDOW
    RotationSlack,  \* replayRotationSlack
    PowerLoss,      \* whether a crash may be a power loss
    MaxTime,        \* bound: the clock
    MaxLines,       \* bound: records written to the log
    MaxCrashes      \* bound: crashes and failed boots

ASSUME BatchesAssumption == Batches \subseteq Seq(Events)
\* Only a JSON request, which has one event, can have newlines in the document.
ASSUME OneDocumentAssumption ==
    \A batch \in Batches : Len(batch) > 1 => Range(batch) \cap MultiLine = {}
ASSUME InvalidAssumption == Invalid \subseteq Events
ASSUME TsAssumption == Ts \in [Events -> Nat]
ASSUME CapacityAssumption == Capacity \in Nat \ {0}
ASSUME WindowAssumption == HotWindow \in Nat \ {0}
ASSUME SlackAssumption == RotationSlack \in Nat
ASSUME PowerLossAssumption == PowerLoss \in BOOLEAN
ASSUME BoundsAssumption ==
    MaxTime \in Nat /\ MaxLines \in Nat /\ MaxCrashes \in Nat

VARIABLES
    proc,           \* "down", "replay" (ReplayWAL before serving) or "up"
    since,          \* v2ReplaySince, during replay
    cursor,         \* replay position: <<file, line>>, during replay
    dedup,          \* event ids, newest first
    index,          \* events of the recent index
    req,            \* each handler: where it is and what is left of its batch
    keep,           \* the file the retention loop read as active, NoScan between scans
    scanAt,         \* when the loop's ticker last fired, or was started
    accepted,       \* events a 200 response counted Accepted
    acked,          \* events a 200 response counted Accepted or Duplicate
    expired,        \* events with a line in a file retention deleted
    panicked,       \* events whose projection panicked in this process
    writes,         \* records written so far
    crashes

bootVars == <<proc, since, cursor>>
memVars == <<dedup, index>>
scanVars == <<keep, scanAt>>
ghostVars == <<accepted, acked, expired, panicked>>
bounds == <<writes, crashes>>
vars == <<logVars, bootVars, memVars, req, scanVars, ghostVars, bounds>>

NoScan == -1

Idle == [pc |-> "idle", rest |-> <<>>, new |-> {}, dup |-> {}]

Request ==
    [pc   : {"idle", "loop", "project"},
     rest : Seq(Events),         \* events the loop has not finished with
     new  : SUBSET Events,       \* events counted Accepted
     dup  : SUBSET Events]       \* events counted Duplicate

TypeOK ==
    /\ LogTypeOK
    /\ proc \in {"down", "replay", "up"}
    /\ since \in Int
    /\ cursor \in (Nat \ {0}) \X (Nat \ {0})
    /\ dedup \in Seq(Events)
    /\ index \in SUBSET Events
    /\ req \in [Handlers -> Request]
    /\ keep \in Nat \cup {NoScan}
    /\ scanAt \in Nat
    /\ accepted \in SUBSET Events
    /\ acked \in SUBSET Events
    /\ expired \in SUBSET Events
    /\ panicked \in SUBSET Events
    /\ writes \in Nat
    /\ crashes \in Nat

-----------------------------------------------------------------------------
(***************************************************************************)
(* Dedup.addLocked and Dedup.Remove.                                       *)
(***************************************************************************)
Without(d, e) ==
    IF e \in Range(d)
      THEN LET i == CHOOSE i \in DOMAIN d : d[i] = e
           IN  SubSeq(d, 1, i - 1) \o SubSeq(d, i + 1, Len(d))
      ELSE d

AddLocked(d, e) ==
    IF e \in Range(d)
      THEN <<e>> \o Without(d, e)
      ELSE IF Len(d) >= Capacity
             THEN <<e>> \o SubSeq(d, 1, Capacity - 1)
             ELSE <<e>> \o d

-----------------------------------------------------------------------------
Init ==
    /\ now = 0
    /\ files = <<EmptyFile>>
    /\ f = "open"
    /\ active = 1
    /\ bytesWritten = 0
    /\ proc = "up"
    /\ since = 0 - HotWindow
    /\ cursor = <<1, 1>>
    /\ dedup = <<>>
    /\ index = {}
    /\ req = [p \in Handlers |-> Idle]
    /\ keep = NoScan
    /\ scanAt = 0
    /\ accepted = {}
    /\ acked = {}
    /\ expired = {}
    /\ panicked = {}
    /\ writes = 0
    /\ crashes = 0

-----------------------------------------------------------------------------
(***************************************************************************)
(* A handler (IngestRaw).  Each event of the batch is validated, committed *)
(* under the dedup lock (which holds over the log write), and projected    *)
(* after the lock is released.                                             *)
(***************************************************************************)
Current(p) == Head(req[p].rest)

Serving(p, where) == proc = "up" /\ req[p].pc = where

HasEvent(p) == Serving(p, "loop") /\ req[p].rest # <<>>

\* The loop goes on with the next event; new and dup are what it counted.
Advance(p, new, dup) ==
    req' = [req EXCEPT ![p] = [pc   |-> "loop",
                               rest |-> Tail(req[p].rest),
                               new  |-> req[p].new \cup new,
                               dup  |-> req[p].dup \cup dup]]

Abort(p) == req' = [req EXCEPT ![p] = Idle]

Receive(p, batch) ==
    /\ Serving(p, "idle")
    /\ req' = [req EXCEPT ![p] = [pc |-> "loop", rest |-> batch,
                                new |-> {}, dup |-> {}]]
    /\ UNCHANGED <<logVars, bootVars, memVars, scanVars, ghostVars, bounds>>

\* ctx.Err(): the client went away.
Cancelled(p) ==
    /\ HasEvent(p)
    /\ Abort(p)
    /\ UNCHANGED <<logVars, bootVars, memVars, scanVars, ghostVars, bounds>>

Reject(p) ==
    /\ HasEvent(p)
    /\ Current(p) \in Invalid
    /\ Advance(p, {}, {})
    /\ UNCHANGED <<logVars, bootVars, memVars, scanVars, ghostVars, bounds>>

\* Mutant: a hit moves the id to the front.
DuplicatePromotes(p) ==
    /\ HasEvent(p)
    /\ Current(p) \notin Invalid
    /\ Current(p) \in Range(dedup)
    /\ dedup' = AddLocked(dedup, Current(p))
    /\ Advance(p, {}, {Current(p)})
    /\ UNCHANGED <<logVars, bootVars, index, scanVars, ghostVars, bounds>>

\* AddIfNew finds the id.
Duplicate(p) ==
    /\ HasEvent(p)
    /\ Current(p) \notin Invalid
    /\ Current(p) \in Range(dedup)
    /\ Advance(p, {}, {Current(p)})
    /\ UNCHANGED <<logVars, bootVars, memVars, scanVars, ghostVars, bounds>>

\* AddIfNew runs the commit and records the id because it succeeded.
Commit(p) ==
    /\ HasEvent(p)
    /\ Current(p) \notin Invalid
    /\ Current(p) \notin Range(dedup)
    /\ writes < MaxLines
    /\ WriteOk(Current(p))
    /\ dedup' = AddLocked(dedup, Current(p))
    /\ req' = [req EXCEPT ![p].pc = "project"]
    /\ writes' = writes + 1
    /\ UNCHANGED <<bootVars, index, scanVars, ghostVars, crashes>>

\* Mutant: the id is recorded whether or not the commit succeeded.
CommitFailsRemembers(p) ==
    /\ HasEvent(p)
    /\ Current(p) \notin Invalid
    /\ Current(p) \notin Range(dedup)
    /\ writes < MaxLines
    /\ WriteErr(Current(p))
    /\ dedup' = AddLocked(dedup, Current(p))
    /\ Abort(p)
    /\ writes' = writes + 1
    /\ UNCHANGED <<bootVars, index, scanVars, ghostVars, crashes>>

\* The commit fails: 503, and the rest of the batch is abandoned.
CommitFails(p) ==
    /\ HasEvent(p)
    /\ Current(p) \notin Invalid
    /\ Current(p) \notin Range(dedup)
    /\ writes < MaxLines
    /\ WriteErr(Current(p))
    /\ Abort(p)
    /\ writes' = writes + 1
    /\ UNCHANGED <<bootVars, memVars, scanVars, ghostVars, crashes>>

Project(p) ==
    /\ Serving(p, "project")
    /\ index' = index \cup {Current(p)}
    /\ Advance(p, {Current(p)}, {})
    /\ UNCHANGED <<logVars, bootVars, dedup, scanVars, ghostVars, bounds>>

\* projectEvent recovers a panic of the projector: roll the id back, 503.
ProjectPanics(p) ==
    /\ Serving(p, "project")
    /\ "panic" \in Faults
    /\ dedup' = Without(dedup, Current(p))
    /\ panicked' = panicked \cup {Current(p)}
    /\ Abort(p)
    /\ UNCHANGED <<logVars, bootVars, index, scanVars, accepted, acked, expired, bounds>>

\* The 200 envelope.
Respond(p) ==
    /\ Serving(p, "loop")
    /\ req[p].rest = <<>>
    /\ accepted' = accepted \cup req[p].new
    /\ acked' = acked \cup req[p].new \cup req[p].dup
    /\ Abort(p)
    /\ UNCHANGED <<logVars, bootVars, memVars, scanVars, expired, panicked, bounds>>

-----------------------------------------------------------------------------
(***************************************************************************)
(* Background loops.                                                       *)
(***************************************************************************)
Fresh(e, cutoff) == ~(Ts[e] < cutoff)

\* RecentIndex.PruneOlderThan(time.Now().Add(-graphHotWindow)).
PruneIndex ==
    /\ proc = "up"
    /\ index' = {e \in index : Fresh(e, now - HotWindow)}
    /\ index' # index
    /\ UNCHANGED <<logVars, bootVars, dedup, req, scanVars, ghostVars, bounds>>

\* The event-log retention loop evaluates v2Wal.ActivePath() when its ticker
\* fires (a unit of the clock is not shorter than the ticker's five minutes)
\* ...
RetainStart ==
    /\ proc = "up"
    /\ keep = NoScan
    /\ now > scanAt
    /\ keep' = active
    /\ scanAt' = now
    /\ UNCHANGED <<logVars, bootVars, memVars, req, ghostVars, bounds>>

\* ... and PruneOlderThan then reads the directory and the clock and deletes
\* files; handlers may have rotated the log in between.
Retain ==
    /\ keep # NoScan
    /\ \E deleted \in SUBSET DOMAIN files :
         /\ PruneLog(deleted, keep)
         /\ expired' = expired \cup
              {e \in Events : \E k \in deleted : e \in Range(FileLines(files[k]))}
    /\ keep' = NoScan
    /\ UNCHANGED <<bootVars, memVars, req, scanAt, accepted, acked, panicked, bounds>>

\* Timing assumption: the retention loop is not suspended for longer than
\* EVENT_LOG_RETENTION between reading the active path and the clock.
Tick ==
    /\ now < MaxTime
    /\ keep # NoScan => now < scanAt + Retention
    /\ now' = now + 1
    /\ UNCHANGED <<files, f, active, bytesWritten, bootVars, memVars, req,
                   scanVars, ghostVars, bounds>>

-----------------------------------------------------------------------------
(***************************************************************************)
(* Crash, shutdown and boot.                                               *)
(***************************************************************************)
NotReplaying ==
    /\ since' = 0 - HotWindow
    /\ cursor' = <<1, 1>>

Stop ==
    /\ proc' = "down"
    /\ NotReplaying
    /\ dedup' = <<>>
    /\ index' = {}
    /\ req' = [p \in Handlers |-> Idle]
    /\ keep' = NoScan /\ scanAt' = 0
    /\ panicked' = {}
    /\ crashes' = crashes + 1
    /\ UNCHANGED <<now, accepted, acked, expired, writes>>

Crash ==
    /\ proc # "down"
    /\ crashes < MaxCrashes
    /\ \E lost \in {FALSE, PowerLoss} : LogCrash(lost)
    /\ Stop

\* The process dies inside WriteRaw: some or all of the record is in the
\* file, and no fsync has covered it.
CrashMidWrite(p) ==
    /\ HasEvent(p)
    /\ Current(p) \notin Invalid \cup Range(dedup)
    /\ f = "open"
    /\ crashes < MaxCrashes
    /\ \E file \in TornFiles(files[active], Current(p))
                     \cup {Appended(files[active], Current(p))} :
         files' = [files EXCEPT ![active] = file]
    /\ f' = "nil" /\ active' = 0 /\ bytesWritten' = 0
    /\ Stop

\* main returns: the deferred v2Wal.Close runs; handlers that outlived
\* server.Shutdown's five seconds may still be running.
CloseWriter ==
    /\ proc = "up"
    /\ crashes < MaxCrashes
    /\ CloseLog
    /\ UNCHANGED <<bootVars, memVars, req, scanVars, ghostVars, bounds>>

\* eventlogv2.New, then ReplayWAL from time.Now().Add(-graphHotWindow).
Boot ==
    /\ proc = "down"
    /\ OpenLog
    /\ proc' = "replay"
    /\ since' = now - HotWindow
    /\ cursor' = <<1, 1>>
    /\ UNCHANGED <<now, memVars, req, scanVars, ghostVars, bounds>>

-----------------------------------------------------------------------------
(***************************************************************************)
(* ReplayWAL, line by line.  Files come oldest first: mtimes follow the    *)
(* order of creation because a file is written only until the next one is  *)
(* opened (two files last written in one tick of the file system's clock   *)
(* would be replayed in the order of their names instead).                 *)
(***************************************************************************)
\* Mutant: a file is selected by the time in its name, like in retention.
ReplayableCreated(file) == ~file.gone /\ ~(file.created < since - RotationSlack)

Replayable(file) == ~file.gone /\ ~(file.mtime < since - RotationSlack)

ReplayFile == files[cursor[1]]

\* No more lines here, or a file Replay does not select.
SkipFile ==
    /\ proc = "replay"
    /\ cursor[1] <= Len(files)
    /\ ~Replayable(ReplayFile) \/ cursor[2] > Len(FileLines(ReplayFile))
    /\ cursor' = <<cursor[1] + 1, 1>>
    /\ UNCHANGED <<logVars, proc, since, memVars, req, scanVars, ghostVars, bounds>>

\* Mutant: replay fills the cache but not the index.
ReplayLineUnprojected ==
    /\ proc = "replay"
    /\ cursor[1] <= Len(files)
    /\ Replayable(ReplayFile)
    /\ cursor[2] <= Len(FileLines(ReplayFile))
    /\ LET line == FileLines(ReplayFile)[cursor[2]]
       IN  dedup' = IF line # Garbage /\ Fresh(line, since)
                      THEN AddLocked(dedup, line) ELSE dedup
    /\ cursor' = <<cursor[1], cursor[2] + 1>>
    /\ UNCHANGED <<logVars, proc, since, index, req, scanVars, ghostVars, bounds>>

ReplayLine ==
    /\ proc = "replay"
    /\ cursor[1] <= Len(files)
    /\ Replayable(ReplayFile)
    /\ cursor[2] <= Len(FileLines(ReplayFile))
    /\ LET line == FileLines(ReplayFile)[cursor[2]]
           kept == line # Garbage /\ Fresh(line, since)
       IN  /\ dedup' = IF kept THEN AddLocked(dedup, line) ELSE dedup
           /\ index' = IF kept THEN index \cup {line} ELSE index
    /\ cursor' = <<cursor[1], cursor[2] + 1>>
    /\ UNCHANGED <<logVars, proc, since, req, scanVars, ghostVars, bounds>>

\* ReplayWAL returns an error: os.Exit(1), without the deferred Close.
ReplayFails ==
    /\ proc = "replay"
    /\ "read" \in Faults
    /\ crashes < MaxCrashes
    /\ LogCrash(FALSE)
    /\ Stop

\* Replay reached the end: the server starts listening.
Serve ==
    /\ proc = "replay"
    /\ cursor[1] > Len(files)
    /\ proc' = "up"
    /\ NotReplaying
    /\ scanAt' = now
    /\ UNCHANGED <<logVars, memVars, req, keep, ghostVars, bounds>>

-----------------------------------------------------------------------------
HandlerStep(p) ==
    \/ \E batch \in Batches : Receive(p, batch)
    \/ Cancelled(p)
    \/ Reject(p)
    \/ Duplicate(p)
    \/ Commit(p)
    \/ CommitFails(p)
    \/ Project(p)
    \/ ProjectPanics(p)
    \/ Respond(p)
    \/ CrashMidWrite(p)

Next ==
    \/ \E p \in Handlers : HandlerStep(p)
    \/ PruneIndex
    \/ RetainStart
    \/ Retain
    \/ Tick
    \/ Crash
    \/ CloseWriter
    \/ Boot
    \/ SkipFile
    \/ ReplayLine
    \/ ReplayFails
    \/ Serve

Spec == Init /\ [][Next]_vars

(***************************************************************************)
(* Go runs every runnable goroutine eventually, and a supervisor restarts  *)
(* the process; nothing obliges a client to send or the clock to advance.  *)
(***************************************************************************)
Fairness ==
    /\ WF_vars(Boot) /\ WF_vars(SkipFile) /\ WF_vars(ReplayLine)
    /\ WF_vars(Serve)
    /\ \A p \in Handlers : WF_vars(Project(p))

FairSpec == Spec /\ Fairness

-----------------------------------------------------------------------------
(***************************************************************************)
(* Properties.                                                             *)
(***************************************************************************)

\* Durability (docs/internals.md, "Every event must be durably logged before
\* it enters the recent index"): an event a client was told 200 for, as
\* accepted or as a duplicate, is readable in the log until retention deletes
\* its file, whatever crashes, restarts, failed writes and retries came
\* between.
AckedDurable == acked \subseteq OnDisk \cup expired

\* The same for the bodies that are one line: a body of several lines is
\* acknowledged like any other, but replay skips all of its lines.
OneLineDurable == acked \ MultiLine \subseteq OnDisk \cup expired

\* The same for events counted Accepted, which IngestRaw itself wrote and
\* synced before it answered.
AcceptedDurable == accepted \ MultiLine \subseteq OnDisk \cup expired

\* The index and the dedup cache never run ahead of the log: what a query can
\* return, or a retry can be told is a duplicate, is on disk if it was sent
\* as one line.
NothingUnlogged ==
    (index \cup Range(dedup)) \ MultiLine \subseteq OnDisk \cup expired

Pending(e) == \E p \in Handlers : req[p].pc = "project" /\ Current(p) = e

Holds(k, e) == ~files[k].gone /\ e \in Range(FileLines(files[k]))

\* The client's clock was so far ahead that replay may pass over a file with
\* the event although its time is in the hot window: validateEvent puts no
\* bound on ts_end, and replayRotationSlack allows five minutes.
ClockAhead(e) ==
    \E k \in DOMAIN files : Holds(k, e) /\ Ts[e] > files[k].mtime + RotationSlack

\* Not brought back by a restart: ReplayWAL can only load a line that parses,
\* from a file it selects.
Unreplayable(e) == e \in MultiLine \cup expired \/ ClockAhead(e)

\* While the server is up, an acknowledged event whose time is in the hot
\* window is in the index, or a handler is about to project it (a duplicate
\* is acknowledged before the first copy is projected), unless its projection
\* panicked (after which a duplicate acknowledged meanwhile stays invisible
\* until the client retries or the server restarts).  It survives restarts
\* because replay reads every file that can hold such an event.
AckedVisible ==
    proc = "up" =>
        \A e \in acked :
            \/ e \in index
            \/ Pending(e)
            \/ e \in panicked
            \/ ~Fresh(e, now - HotWindow)
            \/ Unreplayable(e)

\* What ReplayWAL would load if the process restarted now.
ReplaySet ==
    {e \in Events :
        /\ Fresh(e, now - HotWindow)
        /\ \E k \in DOMAIN files :
             /\ Holds(k, e)
             /\ ~(files[k].mtime < now - HotWindow - RotationSlack)}

\* The index "can be rebuilt from the log": a restart now would bring back
\* every event of the hot window that the index shows, except bodies of
\* several lines, events of a clock too far ahead, and what retention has
\* deleted.
IndexRebuildable ==
    proc = "up" =>
        \A e \in index :
            e \in ReplaySet \/ ~Fresh(e, now - HotWindow) \/ Unreplayable(e)

\* The same without the allowance for retention, which is configured to keep
\* files longer than the hot window.
IndexAlwaysRebuildable ==
    proc = "up" => {e \in index : Fresh(e, now - HotWindow)} \subseteq ReplaySet

\* Whatever writes are torn, fsyncs fail and power is lost, each broken line in
\* the log costs at most one accepted event: the one whose record was appended
\* behind torn bytes.  Without a broken line this is AcceptedDurable.  (Stated
\* for a log that retention has not deleted broken lines from, and for a file
\* system that keeps the directory entry of a file it has synced.)
GarbageLines ==
    UNION {{<<k, i>> : i \in {j \in DOMAIN files[k].lines :
                                  files[k].lines[j] = Garbage}} :
              k \in DOMAIN files}

TornWriteLosesOne ==
    Cardinality(accepted \ (OnDisk \cup expired)) <= Cardinality(GarbageLines)

\* Replay and the projecting handlers make every acknowledged event visible,
\* however often the process crashes or exits because replay failed, unless it
\* leaves the hot window, cannot be replayed, or its projection panicked.
EventuallyVisible ==
    <>[](\A e \in acked :
            e \in index \cup panicked \/ ~Fresh(e, now - HotWindow) \/ Unreplayable(e))

-----------------------------------------------------------------------------
(***************************************************************************)
(* Ingest implements EventStore for the bodies that are one line: the log  *)
(* is what the directory holds (events that retention deleted were         *)
(* stored), the view is the index.                                         *)
(***************************************************************************)
Promise == INSTANCE EventStore WITH
              Events <- Events \ MultiLine,
              log <- (OnDisk \cup expired) \ MultiLine,
              acked <- acked \ MultiLine,
              view <- index \ MultiLine

\* Every step of the ingest path is a step its clients may expect.
ImplementsEventStore == Promise!StoreSpec

=============================================================================
