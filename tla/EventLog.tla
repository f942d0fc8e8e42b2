------------------------------ MODULE EventLog ------------------------------
(***************************************************************************)
(* The schema-2.0 write-ahead log: internal/eventlog/v2/writer.go (Writer) *)
(* and internal/eventlog/retention.go (PruneOlderThan), over a model of    *)
(* the operating system's files.                                           *)
(*                                                                         *)
(* A log file is a sequence of complete lines and possibly a tail: bytes   *)
(* after the last newline, which a failed write can leave.  A line is the  *)
(* event whose JSON it holds, or Garbage when it does not parse.  WriteRaw *)
(* trims newlines from the end of a body only, so a JSON document sent     *)
(* over several lines becomes as many lines, none of which is an event.    *)
(*                                                                         *)
(* The module has no Init or Next of its own: module Ingest composes these *)
(* operations with the handlers that call them.                            *)
(*                                                                         *)
(* A definition whose comment begins "Mutant:" is a wrong version of the   *)
(* one after it, kept to show that a property can fail.                    *)
(***************************************************************************)
EXTENDS Integers, Sequences, Functions

CONSTANTS
    Events,         \* the event bodies clients send (one event_id each)
    MultiLine,      \* the bodies that have newlines inside the document
    Garbage,        \* a line that is not one JSON document
    NoTail,         \* nothing after the last newline
    MaxFileBytes,   \* Writer.maxFileBytes, one unit per record; 0: no rotation
    SyncOnWrite,    \* EVENT_LOG_SYNC
    Retention,      \* EVENT_LOG_RETENTION, in clock units
    Faults          \* which calls may fail in this instance

\* "dirent": a power loss takes a file whose directory entry no fsync covered;
\* "read": replay cannot read a file; "panic": the projector panics.
FaultKinds ==
    {"write", "torn", "sync", "close", "open", "dirent", "read", "panic"}

ASSUME MultiLineAssumption == MultiLine \subseteq Events
ASSUME GarbageAssumption == Garbage \notin Events
ASSUME NoTailAssumption == NoTail \notin Events \cup {Garbage}
ASSUME MaxFileBytesAssumption == MaxFileBytes \in Nat
ASSUME SyncAssumption == SyncOnWrite \in BOOLEAN
ASSUME RetentionAssumption == Retention \in Nat \ {0}
ASSUME FaultsAssumption == Faults \subseteq FaultKinds

VARIABLES
    now,            \* the wall clock
    files,          \* every log file ever created, oldest first
    f,              \* Writer.f: "open", "nil", or "bad" (closed but not nil)
    active,         \* the file Writer.f and activePath name; 0 for nil and ""
    bytesWritten    \* Writer.bytesWritten

logVars == <<now, files, f, active, bytesWritten>>

Line == Events \cup {Garbage}

File == [created : Nat,                  \* the timestamp in the file's name
         mtime   : Nat,
         lines   : Seq(Line),
         tail    : Line \cup {NoTail},
         synced  : Nat,                  \* how many lines fsync has covered
         gone    : BOOLEAN]              \* no longer in the directory

LogTypeOK ==
    /\ now \in Nat
    /\ files \in Seq(File)
    /\ f \in {"open", "nil", "bad"}
    /\ active \in 0 .. Len(files)
    /\ active = 0 <=> f = "nil"     \* activePath is cleared exactly with f
    /\ bytesWritten \in Nat

EmptyFile ==
    [created |-> now, mtime |-> now, lines |-> <<>>, tail |-> NoTail,
     synced |-> 0, gone |-> FALSE]

(***************************************************************************)
(* What a reader of the file gets: its lines, then the tail, which         *)
(* readReplayLine returns at EOF like any other line.                      *)
(***************************************************************************)
FileLines(file) ==
    IF file.tail = NoTail THEN file.lines ELSE Append(file.lines, file.tail)

\* The events the directory still holds in a readable form.
OnDisk ==
    {e \in Events : \E k \in DOMAIN files :
                        ~files[k].gone /\ e \in Range(FileLines(files[k]))}

-----------------------------------------------------------------------------
(***************************************************************************)
(* Writing one record.  The lines of a body that has several are one       *)
(* Garbage line here: what matters is that none parses.  A record written  *)
(* behind a tail ends the tail's line: the two together are one line, and  *)
(* it does not parse.                                                      *)
(***************************************************************************)
Record(file, e) == IF e \in MultiLine \/ file.tail # NoTail THEN Garbage ELSE e

Appended(file, e) ==
    [file EXCEPT !.lines = Append(@, Record(file, e)),
                 !.tail = NoTail,
                 !.mtime = now]

\* The record's first bytes are in the file, the last newline is not: a prefix
\* of the record, or all of it.  A body of several lines can also break off
\* behind a newline.
TornTail(file, e) ==
    IF e \in MultiLine \/ file.tail # NoTail THEN {Garbage} ELSE {e, Garbage}

TornFiles(file, e) ==
    {[file EXCEPT !.tail = t, !.mtime = now] : t \in TornTail(file, e)}
      \cup {Appended(file, x) : x \in {e} \cap MultiLine}

SyncedFile(file) == [file EXCEPT !.synced = Len(file.lines)]

\* Mutant: EVENT_LOG_SYNC is ignored.
WrittenFileUnsynced(e) == Appended(files[active], e)

WrittenFile(e) ==
    LET file == Appended(files[active], e)
    IN  IF SyncOnWrite THEN SyncedFile(file) ELSE file

RotationDue ==
    MaxFileBytes > 0 /\ bytesWritten + 1 >= MaxFileBytes

-----------------------------------------------------------------------------
(***************************************************************************)
(* Writer.WriteRaw, one operator per outcome.                              *)
(***************************************************************************)

\* f is nil, or the write itself fails before any byte reaches the file.
WriteRejected ==
    /\ f # "open" \/ "write" \in Faults
    /\ UNCHANGED logVars

\* The write fails after some bytes reached the file.
WriteTorn(e) ==
    /\ f = "open" /\ "torn" \in Faults
    /\ \E file \in TornFiles(files[active], e) :
         files' = [files EXCEPT ![active] = file]
    /\ UNCHANGED <<now, f, active, bytesWritten>>

\* The record is written whole and the fsync after it fails.
WriteSyncFails(e) ==
    /\ f = "open" /\ SyncOnWrite /\ "sync" \in Faults
    /\ files' = [files EXCEPT ![active] = Appended(@, e)]
    /\ bytesWritten' = bytesWritten + 1
    /\ UNCHANGED <<now, f, active>>

\* The record is written (and synced); the file is not full.
WriteNoRotate(e) ==
    /\ f = "open" /\ ~RotationDue
    /\ files' = [files EXCEPT ![active] = WrittenFile(e)]
    /\ bytesWritten' = bytesWritten + 1
    /\ UNCHANGED <<now, f, active>>

\* The record fills the file: rotateLocked closes it and opens the next one.
\* The fsync before the close may fail unnoticed.
WriteRotate(e) ==
    /\ f = "open" /\ RotationDue
    /\ \E file \in {WrittenFile(e), SyncedFile(WrittenFile(e))} :
         files' = Append([files EXCEPT ![active] = file], EmptyFile)
    /\ active' = Len(files) + 1
    /\ bytesWritten' = 0
    /\ UNCHANGED <<now, f>>

\* rotateLocked: Close fails; f still names the closed file.
WriteCloseFails(e) ==
    /\ f = "open" /\ RotationDue /\ "close" \in Faults
    /\ files' = [files EXCEPT ![active] = WrittenFile(e)]
    /\ bytesWritten' = bytesWritten + 1
    /\ f' = "bad"
    /\ UNCHANGED <<now, active>>

\* Mutant: activePath still names the file.
WriteOpenFailsKeepsPath(e) ==
    /\ f = "open" /\ RotationDue /\ "open" \in Faults
    /\ files' = [files EXCEPT ![active] = WrittenFile(e)]
    /\ bytesWritten' = bytesWritten + 1
    /\ f' = "nil"
    /\ UNCHANGED <<now, active>>

\* rotateLocked: the next file cannot be opened; f stays nil for good.
WriteOpenFails(e) ==
    /\ f = "open" /\ RotationDue /\ "open" \in Faults
    /\ files' = [files EXCEPT ![active] = WrittenFile(e)]
    /\ bytesWritten' = bytesWritten + 1
    /\ f' = "nil"
    /\ active' = 0
    /\ UNCHANGED now

WriteOk(e) == WriteNoRotate(e) \/ WriteRotate(e)

WriteErr(e) ==
    \/ WriteRejected
    \/ WriteTorn(e)
    \/ WriteSyncFails(e)
    \/ WriteCloseFails(e)
    \/ WriteOpenFails(e)

-----------------------------------------------------------------------------
\* Mutant: the last file is reopened for append.
OpenLogReusing ==
    /\ active' = Len(files)
    /\ f' = "open"
    /\ bytesWritten' = 0
    /\ UNCHANGED files

\* New: a process always starts a file of its own (O_CREATE|O_EXCL).
OpenLog ==
    /\ files' = Append(files, EmptyFile)
    /\ active' = Len(files) + 1
    /\ f' = "open"
    /\ bytesWritten' = 0

\* Writer.Close, at shutdown.
CloseLog ==
    /\ f # "nil"
    /\ f' = "nil"
    /\ active' = 0
    /\ \E file \in {files[active], SyncedFile(files[active])} :
         files' = [files EXCEPT ![active] = file]
    /\ UNCHANGED <<now, bytesWritten>>

(***************************************************************************)
(* PruneOlderThan: a file is deleted by the age of the timestamp in its    *)
(* name, the time it was created; the file whose path the caller passes is *)
(* skipped.                                                                *)
(***************************************************************************)
\* Mutant: a file as old as the cutoff goes too.
ExpiredEarly(k, keep) ==
    /\ k # keep
    /\ ~files[k].gone
    /\ files[k].created <= now - Retention

Expired(k, keep) ==
    /\ k # keep
    /\ ~files[k].gone
    /\ files[k].created < now - Retention

\* The expired files go in the order of their names (files created in the same
\* second in any order) until os.Remove fails on one.
PruneLog(deleted, keep) ==
    /\ \A k \in deleted : Expired(k, keep)
    /\ \A k \in deleted, j \in DOMAIN files :
          Expired(j, keep) /\ files[j].created < files[k].created => j \in deleted
    /\ files' = [k \in DOMAIN files |->
                    IF k \in deleted THEN [files[k] EXCEPT !.gone = TRUE] ELSE files[k]]
    /\ UNCHANGED <<now, f, active, bytesWritten>>

(***************************************************************************)
(* The operating system.  A process crash keeps what was written; a power  *)
(* loss may drop any suffix that no fsync has covered, and the whole file  *)
(* on a file system that does not write a new file's directory entry with  *)
(* the file (the Writer never syncs the directory).                        *)
(***************************************************************************)
Surviving(file) ==
    {[file EXCEPT !.lines = SubSeq(file.lines, 1, n), !.tail = NoTail] :
        n \in file.synced .. Len(file.lines)}
      \cup {file}
      \cup {[file EXCEPT !.gone = TRUE] : x \in {"dirent"} \cap Faults}

LogCrash(powerLoss) ==
    /\ IF powerLoss
         THEN \E fs \in [DOMAIN files -> UNION {Surviving(files[k]) :
                                                    k \in DOMAIN files}] :
                  /\ \A k \in DOMAIN files : fs[k] \in Surviving(files[k])
                  /\ files' = fs
         ELSE UNCHANGED files
    /\ f' = "nil"
    /\ active' = 0
    /\ bytesWritten' = 0
=============================================================================
