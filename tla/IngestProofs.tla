---------------------------- MODULE IngestProofs ----------------------------
(***************************************************************************)
(* Proofs about modules EventLog and Ingest, for any number of handlers,   *)
(* events, batches, crashes and rotations and any window, skew and slack.  *)
(*                                                                         *)
(* First what each operation of the log keeps, then that what the ingest   *)
(* path acknowledges is on disk: no step takes an event from the log, and  *)
(* what is indexed, cached or about to be acknowledged is logged.          *)
(*                                                                         *)
(* Then what clients may rely on when write errors leave no partial line   *)
(* and the host keeps its power: the path implements EventStore,           *)
(* acknowledged events are visible, and the recent index can be rebuilt    *)
(* from the log.                                                           *)
(***************************************************************************)
EXTENDS Ingest, SequenceTheorems, TLAPS

-----------------------------------------------------------------------------
(***************************************************************************)
(* Files.                                                                  *)
(***************************************************************************)

LEMMA RecordIsLine ==
    ASSUME NEW file, NEW e \in Events
    PROVE  /\ Record(file, e) \in Line
           /\ Record(file, e) \in {e, Garbage}
           /\ e \notin MultiLine /\ file.tail = NoTail => Record(file, e) = e
  BY Zenon DEF Record, Line

LEMMA AppendLine ==
    ASSUME NEW s \in Seq(Line), NEW r \in Line
    PROVE  /\ Append(s, r) \in Seq(Line) /\ Len(s) \in Nat /\ Len(Append(s, r)) = Len(s) + 1
           /\ Len(s) < Len(Append(s, r))
           /\ \A j \in 1 .. Len(s) : Append(s, r)[j] = s[j]
           /\ Append(s, r)[Len(Append(s, r))] = r
  BY AppendProperties, LenProperties

\* Writing a record keeps a file a file: the old lines, the record, no tail.
LEMMA AppendedFile ==
    ASSUME NEW file \in File, NEW e \in Events, now \in Nat
    PROVE  /\ Appended(file, e) \in File
           /\ Appended(file, e).tail = NoTail
           /\ Appended(file, e).gone = file.gone
           /\ Appended(file, e).synced = file.synced
           /\ Appended(file, e).lines \in Seq(Line)
           /\ Len(Appended(file, e).lines) \in Nat
           /\ Len(file.lines) < Len(Appended(file, e).lines)
           /\ \A j \in 1 .. Len(file.lines) :
                 Appended(file, e).lines[j] = file.lines[j]
           /\ e \notin MultiLine /\ file.tail = NoTail =>
                 Appended(file, e).lines[Len(Appended(file, e).lines)] = e
  <1> DEFINE old == file.lines
             rec == Record(file, e)
             new == Append(old, rec)
  <1>1. old \in Seq(Line) /\ rec \in Line
        /\ (e \notin MultiLine /\ file.tail = NoTail => rec = e)
    BY Zenon, RecordIsLine DEF File
  <1>2. /\ Appended(file, e).lines = new
        /\ Appended(file, e).tail = NoTail
        /\ Appended(file, e).gone = file.gone
        /\ Appended(file, e).synced = file.synced
    BY Zenon DEF Appended, File
  <1> HIDE DEF rec
  <1>3. /\ new \in Seq(Line) /\ Len(new) \in Nat /\ Len(old) < Len(new)
        /\ \A j \in 1 .. Len(old) : new[j] = old[j]
        /\ new[Len(new)] = rec
    <2>1. /\ new \in Seq(Line) /\ Len(old) < Len(new)
          /\ \A j \in 1 .. Len(old) : new[j] = old[j]
          /\ new[Len(new)] = rec
      BY Zenon, <1>1, AppendLine
    <2> HIDE DEF new
    <2> QED BY Zenon, <2>1, LenProperties
  <1> HIDE DEF new
  <1>4. Appended(file, e) \in File
    BY Zenon, <1>2, <1>3 DEF Appended, File, new, rec
  <1> QED
    BY Zenon, <1>1, <1>2, <1>3, <1>4

\* An fsync covers the lines written so far.
LEMMA SyncedIsFile ==
    ASSUME NEW file \in File
    PROVE  /\ SyncedFile(file) \in File
           /\ SyncedFile(file).lines = file.lines
           /\ SyncedFile(file).tail = file.tail
           /\ SyncedFile(file).gone = file.gone
           /\ SyncedFile(file).synced = Len(file.lines)
  <1>1. Len(file.lines) \in Nat
    BY Zenon, LenProperties DEF File
  <1> QED
    BY Zenon, <1>1 DEF SyncedFile, File

\* A torn record adds at most a broken line, and a tail.
LEMMA TornIsFile ==
    ASSUME NEW file \in File, NEW e \in Events, now \in Nat,
           NEW torn \in TornFiles(file, e)
    PROVE  /\ torn \in File
           /\ torn.lines \in {file.lines, Append(file.lines, Garbage)}
           /\ torn.synced = file.synced
           /\ torn.gone = file.gone
  <1>1. /\ Append(file.lines, Garbage) \in Seq(Line)
        /\ TornTail(file, e) \subseteq Line
    BY DEF File, Line, TornTail
  <1>2. CASE \E t \in TornTail(file, e) : torn = [file EXCEPT !.tail = t, !.mtime = now]
    BY Zenon, <1>1, <1>2 DEF File
  <1>3. CASE e \in MultiLine /\ torn = Appended(file, e)
    <2>1. torn = [file EXCEPT !.lines = Append(@, Garbage), !.tail = NoTail, !.mtime = now]
      BY Zenon, <1>3 DEF Appended, Record
    <2> QED
      BY Zenon, <1>1, <2>1 DEF File, Line
  <1> QED
    BY Zenon, <1>2, <1>3 DEF TornFiles

\* The old lines are where they were.
LEMMA TornLines ==
    ASSUME NEW old \in Seq(Line), NEW new \in {old, Append(old, Garbage)}
    PROVE  /\ Len(old) \in Nat /\ Len(new) \in Nat
           /\ Len(old) <= Len(new)
           /\ \A j \in 1 .. Len(old) : new[j] = old[j]
  BY LenProperties, AppendProperties DEF Line

LEMMA EmptyIsFile ==
    ASSUME now \in Nat
    PROVE  /\ EmptyFile \in File
           /\ EmptyFile.tail = NoTail
           /\ EmptyFile.synced = 0
           /\ EmptyFile.lines = <<>>
           /\ ~EmptyFile.gone
  BY DEF EmptyFile, File, Line

-----------------------------------------------------------------------------
(***************************************************************************)
(* What the log holds, and that writing to it loses nothing.               *)
(***************************************************************************)

\* An event that a power loss cannot take: one of its lines is synced.
Kept(e) ==
    \E k \in DOMAIN files :
        ~files[k].gone /\ \E j \in 1 .. files[k].synced : files[k].lines[j] = e

LogInv ==
    /\ LogTypeOK
    /\ \A k \in DOMAIN files : files[k].synced <= Len(files[k].lines)
    /\ active # 0 => files[active].tail = NoTail /\ ~files[active].gone

\* The new version of a file holds everything the old one did.
Extended(old, new) ==
    /\ new \in File
    /\ new.gone = old.gone
    /\ Len(old.lines) <= Len(new.lines)
    /\ \A j \in 1 .. Len(old.lines) : new.lines[j] = old.lines[j]
    /\ old.tail = NoTail \/ new.tail = old.tail
    /\ old.synced <= Len(old.lines)
    /\ old.synced <= new.synced
    /\ new.synced <= Len(new.lines)

LEMMA FileLinesRange ==
    ASSUME NEW file \in File, NEW e \in Events
    PROVE  e \in Range(FileLines(file)) <=>
              file.tail = e \/ \E j \in 1 .. Len(file.lines) : file.lines[j] = e
  <1>1. /\ file.lines \in Seq(Line) /\ file.tail \in Line \cup {NoTail}
        /\ Len(file.lines) \in Nat /\ DOMAIN file.lines = 1 .. Len(file.lines)
    BY Zenon, LenProperties DEF File
  <1>2. e # NoTail
    BY Zenon, NoTailAssumption
  <1>3. CASE file.tail = NoTail
    BY Zenon, <1>1, <1>2, <1>3 DEF FileLines, Range
  <1>4. CASE file.tail # NoTail
    <2> DEFINE all == Append(file.lines, file.tail)
               n == Len(file.lines)
    <2>1. file.tail \in Line
      BY Zenon, <1>1, <1>4
    <2>2. /\ all \in Seq(Line) /\ Len(all) = n + 1 /\ all[n + 1] = file.tail
          /\ \A j \in 1 .. n : all[j] = file.lines[j]
      BY <1>1, <2>1
    <2>3. DOMAIN all = 1 .. n + 1
      BY Zenon, <2>2, LenProperties
    <2>4. FileLines(file) = all
      BY Zenon, <1>4 DEF FileLines
    <2> HIDE DEF all
    <2>5. Range(all) = {all[j] : j \in 1 .. n + 1}
      BY Zenon, <2>3 DEF Range
    <2>6. ASSUME e \in Range(all)
          PROVE  file.tail = e \/ \E j \in 1 .. n : file.lines[j] = e
      <3>1. PICK j \in 1 .. n + 1 : all[j] = e
        BY Zenon, <2>5, <2>6
      <3>2. CASE j = n + 1
        BY Zenon, <3>1, <3>2, <2>2
      <3>3. CASE j # n + 1
        <4>1. j \in 1 .. n
          BY <3>3, <1>1
        <4> QED BY Zenon, <4>1, <3>1, <2>2
      <3> QED BY Zenon, <3>2, <3>3
    <2>7. ASSUME file.tail = e \/ \E j \in 1 .. n : file.lines[j] = e
          PROVE  e \in Range(all)
      <3>1. n + 1 \in 1 .. n + 1 /\ \A j \in 1 .. n : j \in 1 .. n + 1
        BY <1>1
      <3> QED BY Zenon, <2>2, <2>5, <2>7, <3>1
    <2> QED BY Zenon, <2>4, <2>6, <2>7
  <1> QED BY Zenon, <1>3, <1>4

\* If every file is extended, no event leaves the disk or becomes unsynced.
LEMMA ExtendedKeeps ==
    ASSUME files \in Seq(File), files' \in Seq(File),
           \A k \in DOMAIN files : k \in DOMAIN files' /\ Extended(files[k], files'[k])
    PROVE  \A e \in Events : /\ e \in OnDisk => e \in OnDisk'
                             /\ Kept(e) => Kept(e)'
  <1>0. /\ \A k \in DOMAIN files : files[k] \in File
        /\ \A k \in DOMAIN files' : files'[k] \in File
    BY Zenon, LenProperties, ElementOfSeq
  <1>1. ASSUME NEW e \in Events, e \in OnDisk
        PROVE  e \in OnDisk'
    <2>1. PICK k \in DOMAIN files : ~files[k].gone /\ e \in Range(FileLines(files[k]))
      BY Zenon, <1>1 DEF OnDisk
    <2>2. files[k] \in File /\ files'[k] \in File /\ Extended(files[k], files'[k])
      BY Zenon, <1>0
    <2>3. /\ Len(files[k].lines) \in Nat /\ Len(files'[k].lines) \in Nat
      BY Zenon, <2>2, LenProperties DEF File
    <2>4. files[k].tail = e \/ \E j \in 1 .. Len(files[k].lines) : files[k].lines[j] = e
      BY Zenon, <2>1, <2>2, FileLinesRange
    <2>5. files'[k].tail = e \/ \E j \in 1 .. Len(files'[k].lines) : files'[k].lines[j] = e
      <3>1. CASE files[k].tail = e
        BY Zenon, <3>1, <2>2, NoTailAssumption DEF Extended
      <3>2. CASE \E j \in 1 .. Len(files[k].lines) : files[k].lines[j] = e
        <4>1. PICK j \in 1 .. Len(files[k].lines) : files[k].lines[j] = e
          BY Zenon, <3>2
        <4>2. j \in 1 .. Len(files'[k].lines) /\ files'[k].lines[j] = e
          BY <4>1, <2>2, <2>3 DEF Extended
        <4> QED BY Zenon, <4>2
      <3> QED BY Zenon, <2>4, <3>1, <3>2
    <2>6. e \in Range(FileLines(files'[k]))
      BY Zenon, <2>5, <2>2, FileLinesRange
    <2> QED BY Zenon, <2>1, <2>2, <2>6 DEF OnDisk, Extended
  <1>2. ASSUME NEW e \in Events, Kept(e)
        PROVE  Kept(e)'
    <2>1. PICK k \in DOMAIN files :
             ~files[k].gone /\ \E j \in 1 .. files[k].synced : files[k].lines[j] = e
      BY Zenon, <1>2 DEF Kept
    <2>2. PICK j \in 1 .. files[k].synced : files[k].lines[j] = e
      BY Zenon, <2>1
    <2>3. files[k] \in File /\ Extended(files[k], files'[k])
      BY Zenon, <1>0
    <2>4. /\ Len(files[k].lines) \in Nat
          /\ files[k].synced \in Nat /\ files'[k].synced \in Nat
      BY Zenon, <1>0, <2>3, LenProperties DEF Extended, File
    <2>5. j \in 1 .. Len(files[k].lines) /\ j \in 1 .. files'[k].synced
      BY <2>2, <2>3, <2>4 DEF Extended
    <2>6. files'[k].lines[j] = e /\ ~files'[k].gone
      BY Zenon, <2>1, <2>2, <2>3, <2>5 DEF Extended
    <2> QED BY Zenon, <2>5, <2>6 DEF Kept
  <1> QED BY Zenon, <1>1, <1>2

LEMMA ExtendedSelf ==
    ASSUME LogInv, NEW k \in DOMAIN files
    PROVE  files[k] \in File /\ Extended(files[k], files[k])
  <1>1. files[k] \in File
    BY Zenon, LenProperties, ElementOfSeq DEF LogInv, LogTypeOK
  <1>2. Len(files[k].lines) \in Nat /\ files[k].synced \in Nat
    BY Zenon, <1>1, LenProperties DEF File
  <1> QED
    BY <1>1, <1>2 DEF Extended, LogInv

\* Replacing the active file by an extension of it extends every file.
LEMMA ActiveExtended ==
    ASSUME LogInv, active # 0,
           NEW file, Extended(files[active], file)
    PROVE  LET fs == [files EXCEPT ![active] = file]
           IN  /\ fs \in Seq(File)
               /\ Len(fs) = Len(files)
               /\ DOMAIN fs = DOMAIN files
               /\ fs[active] = file
               /\ ~file.gone
               /\ \A k \in DOMAIN files :
                     /\ Extended(files[k], fs[k])
                     /\ fs[k].synced <= Len(fs[k].lines)
  <1> DEFINE fs == [files EXCEPT ![active] = file]
  <1>1. files \in Seq(File) /\ active \in 1 .. Len(files) /\ file \in File
    BY DEF LogInv, LogTypeOK, Extended
  <1>2. DOMAIN files = 1 .. Len(files)
    BY Zenon, <1>1, LenProperties
  <1>3. /\ fs \in Seq(File) /\ Len(fs) = Len(files)
        /\ \A k \in 1 .. Len(files) : fs[k] = IF k = active THEN file ELSE files[k]
    BY <1>1, ExceptSeq
  <1>4. DOMAIN fs = DOMAIN files
    BY Zenon
  <1>5. ASSUME NEW k \in DOMAIN files
        PROVE  Extended(files[k], fs[k]) /\ fs[k].synced <= Len(fs[k].lines)
    <2>1. CASE k = active
      BY Zenon, <2>1, <1>2, <1>3 DEF Extended
    <2>2. CASE k # active
      BY Zenon, <2>2, <1>2, <1>3, ExtendedSelf DEF LogInv
    <2> QED BY Zenon, <2>1, <2>2
  <1>6. ~file.gone
    BY Zenon DEF LogInv, Extended
  <1> QED BY Zenon, <1>1, <1>2, <1>3, <1>4, <1>5, <1>6

\* The active file after WriteRaw wrote e: e is a line of it if it is one
\* line, and synced if EVENT_LOG_SYNC is set.
LEMMA WrittenExtends ==
    ASSUME LogInv, active # 0, NEW e \in Events
    PROVE  /\ \A file \in {Appended(files[active], e), WrittenFile(e),
                           SyncedFile(WrittenFile(e))} :
                 /\ Extended(files[active], file)
                 /\ file.tail = NoTail
                 /\ Len(file.lines) > 0
                 /\ e \notin MultiLine => file.lines[Len(file.lines)] = e
           /\ SyncOnWrite =>
                 \A file \in {WrittenFile(e), SyncedFile(WrittenFile(e))} :
                     file.synced = Len(file.lines)
  <1> DEFINE old == files[active]
             n == Len(old.lines)
             app == Appended(old, e)
             m == Len(app.lines)
  <1>1. active \in DOMAIN files /\ now \in Nat
    BY LenProperties DEF LogInv, LogTypeOK
  <1>2. /\ old \in File /\ old.synced <= n /\ old.tail = NoTail
        /\ n \in Nat /\ old.synced \in Nat
    BY Zenon, <1>1, ExtendedSelf, LenProperties DEF LogInv, File
  <1>3. /\ app \in File /\ app.tail = NoTail /\ app.gone = old.gone
        /\ app.synced = old.synced /\ m \in Nat /\ n < m
        /\ \A j \in 1 .. n : app.lines[j] = old.lines[j]
        /\ e \notin MultiLine => app.lines[m] = e
    BY Zenon, <1>1, <1>2, AppendedFile
  <1> HIDE DEF app
  <1>4. Extended(old, app) /\ m > 0
    BY <1>2, <1>3 DEF Extended
  <1>5. ASSUME NEW w \in File, w.lines = app.lines, w.tail = app.tail,
               w.gone = app.gone, w.synced = m
        PROVE  Extended(old, w) /\ w.tail = NoTail /\ Len(w.lines) > 0
               /\ (e \notin MultiLine => w.lines[Len(w.lines)] = e)
               /\ w.synced = Len(w.lines)
    BY <1>2, <1>3, <1>4, <1>5 DEF Extended
  <1>6. /\ SyncedFile(app) \in File
        /\ SyncedFile(app).lines = app.lines /\ SyncedFile(app).tail = app.tail
        /\ SyncedFile(app).gone = app.gone /\ SyncedFile(app).synced = m
    BY Zenon, <1>3, SyncedIsFile
  <1>7. /\ SyncedFile(SyncedFile(app)) \in File
        /\ SyncedFile(SyncedFile(app)).lines = app.lines
        /\ SyncedFile(SyncedFile(app)).tail = app.tail
        /\ SyncedFile(SyncedFile(app)).gone = app.gone
        /\ SyncedFile(SyncedFile(app)).synced = m
    BY Zenon, <1>3, <1>6, SyncedIsFile
  <1>8. WrittenFile(e) = IF SyncOnWrite THEN SyncedFile(app) ELSE app
    BY Zenon DEF WrittenFile, app
  <1>9. app = Appended(files[active], e)
    BY Zenon DEF app
  <1>10. \A file \in {app, SyncedFile(app), SyncedFile(SyncedFile(app))} :
            /\ Extended(old, file) /\ file.tail = NoTail /\ Len(file.lines) > 0
            /\ e \notin MultiLine => file.lines[Len(file.lines)] = e
    BY Zenon, <1>3, <1>4, <1>5, <1>6, <1>7
  <1>11. \A file \in {SyncedFile(app), SyncedFile(SyncedFile(app))} :
            file.synced = Len(file.lines)
    BY Zenon, <1>3, <1>6, <1>7
  <1> QED
    BY Zenon, <1>8, <1>9, <1>10, <1>11

\* What every step of the log does: it stays well formed and keeps its events.
LogKeeps ==
    /\ LogInv'
    /\ \A x \in Events : (x \in OnDisk => x \in OnDisk') /\ (Kept(x) => Kept(x)')

\* A file that is there and whose last line is x holds x.
LEMMA LastLineHeld ==
    ASSUME LogInv', NEW k \in DOMAIN files', NEW e \in Events,
           ~files'[k].gone, Len(files'[k].lines) > 0,
           files'[k].lines[Len(files'[k].lines)] = e
    PROVE  /\ e \in OnDisk'
           /\ files'[k].synced = Len(files'[k].lines) => Kept(e)'
  <1>1. files'[k] \in File
    BY Zenon, LenProperties, ElementOfSeq DEF LogInv, LogTypeOK
  <1>2. Len(files'[k].lines) \in 1 .. Len(files'[k].lines)
    BY <1>1, LenProperties DEF File
  <1>3. e \in Range(FileLines(files'[k]))
    BY Zenon, <1>1, <1>2, FileLinesRange
  <1>4. e \in OnDisk'
    BY Zenon, <1>3 DEF OnDisk
  <1>5. ASSUME files'[k].synced = Len(files'[k].lines)
        PROVE  Kept(e)'
    BY Zenon, <1>2, <1>5 DEF Kept
  <1> QED BY Zenon, <1>4, <1>5

\* A write that only changes the active file.
LEMMA WriteInPlace ==
    ASSUME LogInv, f = "open", NEW e \in Events,
           NEW file \in {Appended(files[active], e), WrittenFile(e)},
           files' = [files EXCEPT ![active] = file],
           now' = now, bytesWritten' \in Nat,
           \/ f' \in {"open", "bad"} /\ active' = active
           \/ f' = "nil" /\ active' = 0
    PROVE  /\ LogKeeps
           /\ e \notin MultiLine => e \in OnDisk'
           /\ e \notin MultiLine /\ SyncOnWrite /\ file = WrittenFile(e) => Kept(e)'
  <1>1. active # 0
    BY Zenon DEF LogInv, LogTypeOK
  <1>2. /\ Extended(files[active], file) /\ file.tail = NoTail
        /\ Len(file.lines) > 0
        /\ e \notin MultiLine => file.lines[Len(file.lines)] = e
        /\ SyncOnWrite /\ file = WrittenFile(e) => file.synced = Len(file.lines)
    BY Zenon, <1>1, WrittenExtends
  <1>3. /\ files' \in Seq(File) /\ Len(files') = Len(files)
        /\ DOMAIN files' = DOMAIN files /\ files'[active] = file /\ ~file.gone
        /\ \A k \in DOMAIN files : /\ Extended(files[k], files'[k])
                                   /\ files'[k].synced <= Len(files'[k].lines)
    BY Zenon, <1>1, <1>2, ActiveExtended
  <1>4. LogInv'
    BY <1>1, <1>2, <1>3 DEF LogInv, LogTypeOK
  <1>5. LogKeeps
    BY Zenon, <1>3, <1>4, ExtendedKeeps DEF LogKeeps, LogInv, LogTypeOK
  <1>6. active \in DOMAIN files'
    BY <1>1, <1>3, LenProperties DEF LogInv, LogTypeOK
  <1> QED BY Zenon, <1>2, <1>3, <1>4, <1>5, <1>6, LastLineHeld

\* A successful WriteRaw loses nothing and its event is in the log if its body
\* is one line, synced if EVENT_LOG_SYNC is set.
LEMMA WriteOkKeeps ==
    ASSUME LogInv, NEW e \in Events, WriteOk(e)
    PROVE  /\ LogKeeps
           /\ e \notin MultiLine => e \in OnDisk' /\ (SyncOnWrite => Kept(e)')
  <1>0. bytesWritten + 1 \in Nat
    BY DEF LogInv, LogTypeOK
  <1>1. CASE WriteNoRotate(e)
    BY Zenon, <1>0, <1>1, WriteInPlace DEF WriteNoRotate
  <1>2. CASE WriteRotate(e)
    <2>1. active # 0 /\ now \in Nat /\ Len(files) \in Nat
      BY Zenon, <1>2, LenProperties DEF WriteRotate, LogInv, LogTypeOK
    <2>2. PICK file \in {WrittenFile(e), SyncedFile(WrittenFile(e))} :
             files' = Append([files EXCEPT ![active] = file], EmptyFile)
      BY Zenon, <1>2 DEF WriteRotate
    <2>3. /\ Extended(files[active], file) /\ file.tail = NoTail
          /\ Len(file.lines) > 0
          /\ e \notin MultiLine => file.lines[Len(file.lines)] = e
          /\ SyncOnWrite => file.synced = Len(file.lines)
      BY Zenon, <2>1, WrittenExtends
    <2> DEFINE fs == [files EXCEPT ![active] = file]
    <2>4. /\ fs \in Seq(File) /\ Len(fs) = Len(files) /\ DOMAIN fs = DOMAIN files
          /\ fs[active] = file /\ ~file.gone
          /\ \A k \in DOMAIN files : /\ Extended(files[k], fs[k])
                                     /\ fs[k].synced <= Len(fs[k].lines)
      BY Zenon, <2>1, <2>3, ActiveExtended
    <2>5. /\ files' = Append(fs, EmptyFile) /\ DOMAIN files = 1 .. Len(files)
          /\ active \in 1 .. Len(files)
      BY <2>1, <2>2, LenProperties DEF LogInv, LogTypeOK
    <2>6. /\ EmptyFile \in File /\ EmptyFile.tail = NoTail /\ EmptyFile.synced = 0
          /\ EmptyFile.lines = <<>> /\ ~EmptyFile.gone
      BY Zenon, <2>1, EmptyIsFile
    <2> HIDE DEF fs
    <2>7. /\ files' \in Seq(File) /\ Len(files') = Len(files) + 1
          /\ \A k \in 1 .. Len(files) : files'[k] = fs[k]
          /\ files'[Len(files) + 1] = EmptyFile
          /\ DOMAIN files' = 1 .. Len(files) + 1
      BY <2>1, <2>4, <2>5, <2>6, LenProperties
    <2>8. \A k \in DOMAIN files : k \in DOMAIN files' /\ Extended(files[k], files'[k])
      BY <2>1, <2>4, <2>5, <2>7
    <2>9. LogInv'
      <3>1. LogTypeOK'
        BY <1>2, <2>1, <2>7 DEF WriteRotate, LogInv, LogTypeOK
      <3>2. ASSUME NEW k \in DOMAIN files'
            PROVE  files'[k].synced <= Len(files'[k].lines)
        <4>1. CASE k \in 1 .. Len(files)
          BY Zenon, <4>1, <2>4, <2>5, <2>7
        <4>2. CASE k = Len(files) + 1
          BY <4>2, <2>6, <2>7
        <4> QED BY <4>1, <4>2, <2>1, <2>7
      <3>3. files'[active'].tail = NoTail /\ ~files'[active'].gone
        BY Zenon, <1>2, <2>6, <2>7 DEF WriteRotate
      <3> QED BY Zenon, <3>1, <3>2, <3>3 DEF LogInv
    <2>10. LogKeeps
      BY Zenon, <2>7, <2>8, <2>9, ExtendedKeeps DEF LogKeeps, LogInv, LogTypeOK
    <2>11. files'[active] = file /\ active \in DOMAIN files'
      <3>1. active \in 1 .. Len(files) + 1
        BY <2>1, <2>5
      <3> QED BY Zenon, <2>4, <2>5, <2>7, <3>1
    <2> QED BY Zenon, <2>3, <2>4, <2>9, <2>10, <2>11, LastLineHeld
  <1> QED BY Zenon, <1>1, <1>2 DEF WriteOk

\* A failed WriteRaw loses nothing either, unless it tears a line.
LEMMA WriteErrKeeps ==
    ASSUME LogInv, "torn" \notin Faults, NEW e \in Events, WriteErr(e)
    PROVE  LogKeeps
  <1>0. bytesWritten + 1 \in Nat
    BY DEF LogInv, LogTypeOK
  <1>1. CASE WriteRejected
    BY Zenon, <1>1 DEF WriteRejected, LogKeeps, LogInv, LogTypeOK, logVars, OnDisk, Kept
  <1>2. CASE WriteSyncFails(e)
    BY Zenon, <1>0, <1>2, WriteInPlace DEF WriteSyncFails
  <1>3. CASE WriteCloseFails(e)
    BY Zenon, <1>0, <1>3, WriteInPlace DEF WriteCloseFails
  <1>4. CASE WriteOpenFails(e)
    BY Zenon, <1>0, <1>4, WriteInPlace DEF WriteOpenFails
  <1> QED BY Zenon, <1>1, <1>2, <1>3, <1>4 DEF WriteErr, WriteTorn

-----------------------------------------------------------------------------
(***************************************************************************)
(* Types.                                                                  *)
(***************************************************************************)

LEMMA ActiveTyped ==
    ASSUME LogTypeOK, f # "nil"
    PROVE  active \in 1 .. Len(files) /\ files[active] \in File /\ now \in Nat
  BY ElementOfSeq DEF LogTypeOK

\* Replacing the active file keeps the log well typed.
LEMMA ActiveReplaced ==
    ASSUME LogTypeOK, f # "nil", NEW file \in File
    PROVE  /\ [files EXCEPT ![active] = file] \in Seq(File)
           /\ Len([files EXCEPT ![active] = file]) = Len(files)
  BY ActiveTyped, ExceptSeq DEF LogTypeOK

LEMMA EmptyAppended ==
    ASSUME NEW fs \in Seq(File), now \in Nat
    PROVE  /\ Append(fs, EmptyFile) \in Seq(File)
           /\ Len(Append(fs, EmptyFile)) = Len(fs) + 1
           /\ Append(fs, EmptyFile)[Len(fs) + 1] = EmptyFile
           /\ Len(fs) \in Nat
  BY EmptyIsFile, LenProperties

LEMMA WriteTyped ==
    ASSUME LogTypeOK, NEW e \in Events, WriteOk(e) \/ WriteErr(e)
    PROVE  LogTypeOK'
  <1>0. bytesWritten + 1 \in Nat
    BY DEF LogTypeOK
  <1>1. CASE WriteRejected
    BY Zenon, <1>1 DEF WriteRejected, LogTypeOK, logVars
  <1>2. CASE f = "open"
    <2>1. active \in 1 .. Len(files) /\ files[active] \in File /\ now \in Nat
      BY Zenon, <1>2, ActiveTyped
    <2>2. Appended(files[active], e) \in File
      BY Zenon, <2>1, AppendedFile
    <2>3. WrittenFile(e) \in File /\ SyncedFile(WrittenFile(e)) \in File
      BY Zenon, <2>2, SyncedIsFile DEF WrittenFile
    <2>4. CASE WriteTorn(e)
      BY Zenon, <1>2, <2>1, <2>4, TornIsFile, ActiveReplaced DEF WriteTorn, LogTypeOK
    <2>5. CASE WriteSyncFails(e)
      BY Zenon, <1>0, <1>2, <2>2, <2>5, ActiveReplaced DEF WriteSyncFails, LogTypeOK
    <2>6. CASE WriteNoRotate(e)
      BY Zenon, <1>0, <1>2, <2>3, <2>6, ActiveReplaced DEF WriteNoRotate, LogTypeOK
    <2>7. CASE WriteRotate(e)
      <3>1. PICK file \in {WrittenFile(e), SyncedFile(WrittenFile(e))} :
               files' = Append([files EXCEPT ![active] = file], EmptyFile)
        BY Zenon, <2>7 DEF WriteRotate
      <3>2. /\ files' \in Seq(File) /\ Len(files') = Len(files) + 1
            /\ Len(files) \in Nat
        BY Zenon, <1>2, <2>1, <2>3, <3>1, ActiveReplaced, EmptyAppended
      <3> QED BY <2>7, <3>2 DEF WriteRotate, LogTypeOK
    <2>8. CASE WriteCloseFails(e)
      BY Zenon, <1>0, <1>2, <2>3, <2>8, ActiveReplaced DEF WriteCloseFails, LogTypeOK
    <2>9. CASE WriteOpenFails(e)
      <3>1. files' \in Seq(File) /\ Len(files') \in Nat
        BY Zenon, <1>2, <2>3, <2>9, ActiveReplaced, LenProperties DEF WriteOpenFails
      <3> QED BY <1>0, <2>9, <3>1 DEF WriteOpenFails, LogTypeOK
    <2> QED
      BY Zenon, <1>1, <2>4, <2>5, <2>6, <2>7, <2>8, <2>9 DEF WriteOk, WriteErr
  <1>3. CASE f # "open" /\ ~WriteRejected
    BY Zenon, <1>3 DEF WriteOk, WriteErr, WriteNoRotate, WriteRotate, WriteTorn,
                WriteSyncFails, WriteCloseFails, WriteOpenFails
  <1> QED BY Zenon, <1>1, <1>2, <1>3

LEMMA OpenTyped ==
    ASSUME LogTypeOK, OpenLog, now' = now
    PROVE  LogTypeOK'
  BY EmptyAppended DEF OpenLog, LogTypeOK

LEMMA CloseTyped ==
    ASSUME LogTypeOK, CloseLog
    PROVE  LogTypeOK'
  <1>1. PICK file \in {files[active], SyncedFile(files[active])} :
           files' = [files EXCEPT ![active] = file]
    BY Zenon DEF CloseLog
  <1>2. file \in File
    BY Zenon, ActiveTyped, SyncedIsFile DEF CloseLog
  <1>3. files' \in Seq(File) /\ Len(files') \in Nat
    BY Zenon, <1>1, <1>2, ActiveReplaced, LenProperties DEF CloseLog
  <1> QED BY <1>3 DEF CloseLog, LogTypeOK

LEMMA PruneTyped ==
    ASSUME LogTypeOK, NEW deleted, NEW kept, PruneLog(deleted, kept)
    PROVE  LogTypeOK'
  <1>1. \A k \in DOMAIN files : files[k] \in File
    BY Zenon, LenProperties, ElementOfSeq DEF LogTypeOK
  <1>2. \A k \in DOMAIN files : [files[k] EXCEPT !.gone = TRUE] \in File
    BY Zenon, <1>1 DEF File
  <1>3. DOMAIN files = 1 .. Len(files) /\ Len(files) \in Nat
    BY Zenon, LenProperties DEF LogTypeOK
  <1>4. files' \in [1 .. Len(files) -> File]
    BY Zenon, <1>1, <1>2, <1>3 DEF PruneLog
  <1>5. files' \in Seq(File) /\ Len(files') = Len(files)
    BY <1>3, <1>4, SeqDef
  <1> QED BY Zenon, <1>5 DEF PruneLog, LogTypeOK

LEMMA SurvivingIsFile ==
    ASSUME NEW file \in File, NEW rest \in Surviving(file)
    PROVE  /\ rest \in File
           /\ rest.synced = file.synced
           /\ "dirent" \notin Faults => rest.gone = file.gone
           /\ file.synced <= Len(file.lines) =>
                 /\ file.synced <= Len(rest.lines)
                 /\ \A j \in 1 .. file.synced : rest.lines[j] = file.lines[j]
  <1>1. /\ file.lines \in Seq(Line) /\ Len(file.lines) \in Nat
        /\ file.synced \in Nat
    BY Zenon, LenProperties DEF File
  <1>2. CASE rest = file
    BY Zenon, <1>2
  <1>3. ASSUME NEW n \in file.synced .. Len(file.lines),
               rest = [file EXCEPT !.lines = SubSeq(file.lines, 1, n), !.tail = NoTail]
        PROVE  /\ rest \in File /\ rest.synced = file.synced
               /\ rest.gone = file.gone /\ file.synced <= Len(rest.lines)
               /\ \A j \in 1 .. file.synced : rest.lines[j] = file.lines[j]
    <2>1. n \in Nat /\ n <= Len(file.lines) /\ file.synced <= n
      BY <1>1
    <2>2. \A j \in 1 .. n : file.lines[j] \in Line
      BY <1>1, <2>1, ElementOfSeq
    <2>3. /\ SubSeq(file.lines, 1, n) \in Seq(Line)
          /\ Len(SubSeq(file.lines, 1, n)) = n
          /\ \A j \in 1 .. n : SubSeq(file.lines, 1, n)[j] = file.lines[j]
      BY <2>1, <2>2, SubSeqProperties
    <2>4. rest.lines = SubSeq(file.lines, 1, n)
      BY Zenon, <1>3 DEF File
    <2>5. rest \in File /\ rest.synced = file.synced /\ rest.gone = file.gone
      BY Zenon, <1>3, <2>3 DEF File
    <2> QED BY <1>1, <2>1, <2>3, <2>4, <2>5
  <1>4. CASE "dirent" \in Faults /\ rest = [file EXCEPT !.gone = TRUE]
    BY Zenon, <1>4 DEF File
  <1> QED BY Zenon, <1>2, <1>3, <1>4 DEF Surviving

LEMMA CrashTyped ==
    ASSUME LogTypeOK, NEW lost, LogCrash(lost), now' = now
    PROVE  LogTypeOK'
  <1>1. CASE files' = files
    BY <1>1, LenProperties DEF LogCrash, LogTypeOK
  <1>2. CASE \E fs \in [DOMAIN files -> UNION {Surviving(files[k]) : k \in DOMAIN files}] :
                 /\ \A k \in DOMAIN files : fs[k] \in Surviving(files[k])
                 /\ files' = fs
    <2>1. DOMAIN files = 1 .. Len(files) /\ Len(files) \in Nat
      BY Zenon, LenProperties DEF LogTypeOK
    <2>2. \A k \in DOMAIN files : files[k] \in File
      BY Zenon, LenProperties, ElementOfSeq DEF LogTypeOK
    <2>3. files' \in [1 .. Len(files) -> File]
      BY Zenon, <1>2, <2>1, <2>2, SurvivingIsFile
    <2>4. files' \in Seq(File) /\ Len(files') = Len(files)
      BY <2>1, <2>3, SeqDef
    <2> QED BY <2>1, <2>4 DEF LogCrash, LogTypeOK
  <1> QED BY Zenon, <1>1, <1>2 DEF LogCrash

-----------------------------------------------------------------------------
(***************************************************************************)
(* No operation of the log takes an event from it, except retention.         *)
(***************************************************************************)

LEMMA OpenKeeps ==
    ASSUME LogInv, OpenLog, now' = now
    PROVE  LogKeeps
  <1>1. files \in Seq(File) /\ now \in Nat /\ Len(files) \in Nat
        /\ DOMAIN files = 1 .. Len(files)
    BY Zenon, LenProperties DEF LogInv, LogTypeOK
  <1>2. /\ EmptyFile \in File /\ EmptyFile.tail = NoTail /\ EmptyFile.synced = 0
        /\ EmptyFile.lines = <<>> /\ ~EmptyFile.gone
    BY Zenon, <1>1, EmptyIsFile
  <1>3. /\ files' \in Seq(File) /\ Len(files') = Len(files) + 1
        /\ \A k \in 1 .. Len(files) : files'[k] = files[k]
        /\ files'[Len(files) + 1] = EmptyFile
        /\ DOMAIN files' = 1 .. Len(files) + 1
    BY <1>1, <1>2, LenProperties DEF OpenLog
  <1>4. \A k \in DOMAIN files : k \in DOMAIN files' /\ Extended(files[k], files'[k])
    BY <1>1, <1>3, ExtendedSelf
  <1>5. LogTypeOK'
    BY <1>1, <1>3 DEF OpenLog, LogTypeOK
  <1>6. ASSUME NEW k \in DOMAIN files'
        PROVE  files'[k].synced <= Len(files'[k].lines)
    <2>1. CASE k \in 1 .. Len(files)
      BY Zenon, <2>1, <1>1, <1>3 DEF LogInv
    <2>2. CASE k = Len(files) + 1
      BY <2>2, <1>2, <1>3
    <2> QED BY <2>1, <2>2, <1>1, <1>3
  <1>7. files'[active'].tail = NoTail /\ ~files'[active'].gone
    BY Zenon, <1>2, <1>3 DEF OpenLog
  <1>8. LogInv'
    BY Zenon, <1>5, <1>6, <1>7 DEF LogInv
  <1> QED BY Zenon, <1>1, <1>3, <1>4, <1>8, ExtendedKeeps DEF LogKeeps

\* Replacing the active file by an extension and letting go of it.
LEMMA ReleaseKeeps ==
    ASSUME LogInv, active # 0, NEW file, Extended(files[active], file),
           files' = [files EXCEPT ![active] = file],
           f' = "nil", active' = 0, now' = now, bytesWritten' \in Nat
    PROVE  LogKeeps
  <1>1. /\ files' \in Seq(File) /\ Len(files') = Len(files)
        /\ DOMAIN files' = DOMAIN files
        /\ \A k \in DOMAIN files : /\ Extended(files[k], files'[k])
                                   /\ files'[k].synced <= Len(files'[k].lines)
    BY Zenon, ActiveExtended
  <1>2. LogInv'
    BY <1>1, LenProperties DEF LogInv, LogTypeOK
  <1> QED BY Zenon, <1>1, <1>2, ExtendedKeeps DEF LogKeeps, LogInv, LogTypeOK

LEMMA CloseKeeps ==
    ASSUME LogInv, CloseLog
    PROVE  LogKeeps
  <1>1. active # 0 /\ active \in DOMAIN files
    BY LenProperties DEF CloseLog, LogInv, LogTypeOK
  <1>2. PICK file \in {files[active], SyncedFile(files[active])} :
           files' = [files EXCEPT ![active] = file]
    BY Zenon DEF CloseLog
  <1>3. /\ files[active] \in File /\ Extended(files[active], files[active])
        /\ Len(files[active].lines) \in Nat
    BY Zenon, <1>1, ExtendedSelf, LenProperties DEF File
  <1>4. Extended(files[active], SyncedFile(files[active]))
    BY Zenon, <1>3, SyncedIsFile DEF Extended
  <1> QED BY Zenon, <1>1, <1>2, <1>3, <1>4, ReleaseKeeps DEF CloseLog, LogInv, LogTypeOK

\* Dying inside WriteRaw leaves part of a line, or all of it, at the end.
LEMMA MidWriteKeeps ==
    ASSUME LogInv, f = "open", NEW e \in Events,
           NEW file \in TornFiles(files[active], e) \cup {Appended(files[active], e)},
           files' = [files EXCEPT ![active] = file],
           f' = "nil", active' = 0, now' = now, bytesWritten' = 0
    PROVE  LogKeeps
  <1>1. active # 0 /\ active \in DOMAIN files /\ now \in Nat
    BY LenProperties DEF LogInv, LogTypeOK
  <1>2. /\ files[active] \in File /\ Extended(files[active], files[active])
        /\ files[active].tail = NoTail
    BY Zenon, <1>1, ExtendedSelf DEF LogInv
  <1>3. CASE file \in TornFiles(files[active], e)
    <2>1. /\ file \in File
          /\ file.lines \in {files[active].lines, Append(files[active].lines, Garbage)}
          /\ file.synced = files[active].synced /\ file.gone = files[active].gone
      BY Zenon, <1>1, <1>2, <1>3, TornIsFile
    <2>2. /\ files[active].lines \in Seq(Line) /\ files[active].synced \in Nat
          /\ files[active].synced <= Len(files[active].lines)
      BY Zenon, <1>2 DEF File, Extended
    <2>3. /\ Len(files[active].lines) \in Nat /\ Len(file.lines) \in Nat
          /\ Len(files[active].lines) <= Len(file.lines)
          /\ \A j \in 1 .. Len(files[active].lines) :
                file.lines[j] = files[active].lines[j]
      BY Zenon, <2>1, <2>2, TornLines
    <2>4. file.synced <= file.synced /\ file.synced <= Len(file.lines)
      BY <2>1, <2>2, <2>3
    <2>5. Extended(files[active], file)
      BY Zenon, <1>2, <2>1, <2>2, <2>3, <2>4 DEF Extended
    <2> QED BY Zenon, <1>1, <2>5, ReleaseKeeps
  <1>4. CASE file = Appended(files[active], e)
    BY Zenon, <1>1, <1>4, WrittenExtends, ReleaseKeeps
  <1> QED BY Zenon, <1>3, <1>4

\* A power loss takes no line that was synced, unless it takes the file.
LEMMA CrashKeeps ==
    ASSUME LogInv, NEW lost \in BOOLEAN, LogCrash(lost), now' = now
    PROVE  /\ LogInv'
           /\ "dirent" \notin Faults => \A x \in Events : Kept(x) => Kept(x)'
           /\ ~lost => LogKeeps
  <1>1. CASE ~lost
    <2>1. LogInv'
      BY <1>1 DEF LogCrash, LogInv, LogTypeOK
    <2> QED BY Zenon, <1>1, <2>1 DEF LogCrash, LogKeeps, OnDisk, Kept
  <1>2. CASE lost
    <2>1. /\ \A k \in DOMAIN files : files'[k] \in Surviving(files[k])
          /\ DOMAIN files' = DOMAIN files
      BY Zenon, <1>2 DEF LogCrash
    <2>2. LogTypeOK'
      BY Zenon, CrashTyped DEF LogInv
    <2>3. ASSUME NEW k \in DOMAIN files
          PROVE  /\ "dirent" \notin Faults => files'[k].gone = files[k].gone
                 /\ files'[k].synced = files[k].synced
                 /\ files'[k].synced <= Len(files'[k].lines)
                 /\ \A j \in 1 .. files[k].synced : files'[k].lines[j] = files[k].lines[j]
      BY Zenon, <2>1, ExtendedSelf, SurvivingIsFile DEF LogInv
    <2>4. LogInv'
      BY Zenon, <2>1, <2>2, <2>3 DEF LogInv, LogCrash
    <2>5. "dirent" \notin Faults => \A x \in Events : Kept(x) => Kept(x)'
      BY Zenon, <2>1, <2>3 DEF Kept
    <2> QED BY Zenon, <1>2, <2>4, <2>5
  <1> QED BY Zenon, <1>1, <1>2

LEMMA KeptLogged ==
    ASSUME LogInv, NEW x \in Events, Kept(x)
    PROVE  x \in OnDisk
  <1>1. PICK k \in DOMAIN files :
           ~files[k].gone /\ \E j \in 1 .. files[k].synced : files[k].lines[j] = x
    BY Zenon DEF Kept
  <1>2. PICK j \in 1 .. files[k].synced : files[k].lines[j] = x
    BY Zenon, <1>1
  <1>3. files[k] \in File
    BY Zenon, ExtendedSelf
  <1>4. j \in 1 .. Len(files[k].lines)
    BY <1>3, LenProperties DEF LogInv, File
  <1> QED BY Zenon, <1>1, <1>2, <1>3, <1>4, FileLinesRange DEF OnDisk

-----------------------------------------------------------------------------
(***************************************************************************)
(* The dedup cache.                                                        *)
(***************************************************************************)

LEMMA WithoutSeq ==
    ASSUME NEW d \in Seq(Events), NEW e
    PROVE  /\ Without(d, e) \in Seq(Events)
           /\ Range(Without(d, e)) \subseteq Range(d)
  <1>1. CASE e \notin Range(d)
    BY Zenon, <1>1 DEF Without
  <1>2. CASE e \in Range(d)
    <2> DEFINE i == CHOOSE i \in DOMAIN d : d[i] = e
               a == SubSeq(d, 1, i - 1)
               b == SubSeq(d, i + 1, Len(d))
    <2>1. i \in 1 .. Len(d)
      BY Zenon, <1>2, LenProperties DEF Range
    <2>2. Len(d) \in Nat /\ DOMAIN d = 1 .. Len(d)
      BY Zenon, LenProperties
    <2> HIDE DEF i
    <2>3. /\ a \in Seq(Events) /\ Len(a) = i - 1
          /\ \A k \in 1 .. Len(a) : a[k] = d[k]
      BY <2>1, <2>2, SubSeqProperties, ElementOfSeq
    <2>4. /\ b \in Seq(Events) /\ Len(b) = Len(d) - i
          /\ \A k \in 1 .. Len(b) : b[k] = d[i + k]
      <3>1. \A k \in i + 1 .. Len(d) : d[k] \in Events
        BY <2>1, <2>2, ElementOfSeq
      <3>2. /\ b \in Seq(Events)
            /\ Len(b) = IF i + 1 <= Len(d) THEN Len(d) - (i + 1) + 1 ELSE 0
            /\ \A k \in 1 .. Len(d) - (i + 1) + 1 : b[k] = d[(i + 1) + k - 1]
        BY <3>1, <2>1, <2>2, SubSeqProperties
      <3> HIDE DEF b
      <3>3. Len(d) - (i + 1) + 1 = Len(d) - i
        BY <2>1, <2>2
      <3>4. \A k \in 1 .. Len(d) - i : (i + 1) + k - 1 = i + k
        BY <2>1, <2>2
      <3>5. Len(b) = Len(d) - i
        <4>1. Len(b) = IF i + 1 <= Len(d) THEN Len(d) - (i + 1) + 1 ELSE 0
          BY Zenon, <3>2
        <4>2. CASE i + 1 <= Len(d)
          BY Zenon, <4>1, <4>2, <3>3
        <4>3. CASE ~(i + 1 <= Len(d))
          <5>1. i \in Int /\ Len(d) \in Int /\ i <= Len(d)
            BY <2>1, <2>2
          <5>2. Len(d) - i = 0
            BY <5>1, <4>3
          <5> QED BY Zenon, <5>2, <4>1, <4>3
        <4> QED BY Zenon, <4>2, <4>3
      <3> QED BY Zenon, <3>2, <3>3, <3>4, <3>5
    <2> HIDE DEF a, b
    <2>5. /\ a \o b \in Seq(Events)
          /\ Len(a \o b) = Len(a) + Len(b)
          /\ \A k \in 1 .. Len(a) + Len(b) :
                (a \o b)[k] = IF k <= Len(a) THEN a[k] ELSE b[k - Len(a)]
      BY Zenon, <2>3, <2>4, ConcatProperties
    <2>6. \A k \in DOMAIN (a \o b) : (a \o b)[k] \in Range(d)
      <3> SUFFICES ASSUME NEW k \in 1 .. Len(a) + Len(b)
                   PROVE  (a \o b)[k] \in Range(d)
        BY Zenon, <2>5, LenProperties
      <3>1. CASE k <= Len(a)
        <4>1. k \in DOMAIN d /\ (a \o b)[k] = d[k]
          BY <3>1, <2>1, <2>2, <2>3, <2>4, <2>5
        <4> QED BY Zenon, <4>1 DEF Range
      <3>2. CASE ~(k <= Len(a))
        <4>1. (a \o b)[k] = b[k - Len(a)]
          BY Zenon, <3>2, <2>5
        <4>2. /\ Len(a) \in Nat /\ Len(b) \in Nat /\ Len(d) \in Nat /\ DOMAIN d = 1 .. Len(d)
              /\ i \in Nat /\ Len(a) = i - 1 /\ Len(b) = Len(d) - i
          BY <2>1, <2>2, <2>3, <2>4, LenProperties
        <4>3. k - Len(a) \in 1 .. Len(b) /\ i + (k - Len(a)) \in DOMAIN d
          BY <3>2, <4>2
        <4> QED BY Zenon, <4>1, <4>3, <2>4 DEF Range
      <3> QED BY Zenon, <3>1, <3>2
    <2>7. Without(d, e) = a \o b
      BY Zenon, <1>2 DEF Without, a, b, i
    <2> QED
      BY Zenon, <2>5, <2>6, <2>7 DEF Range
  <1> QED BY Zenon, <1>1, <1>2

\* Adding an id puts nothing but that id into the cache.
LEMMA AddLockedSeq ==
    ASSUME NEW d \in Seq(Events), NEW e \in Events
    PROVE  /\ AddLocked(d, e) \in Seq(Events)
           /\ Range(AddLocked(d, e)) \subseteq Range(d) \cup {e}
  <1>1. ASSUME NEW t \in Seq(Events), Range(t) \subseteq Range(d)
        PROVE  /\ <<e>> \o t \in Seq(Events)
               /\ Range(<<e>> \o t) \subseteq Range(d) \cup {e}
    <2>1. <<e>> \in Seq(Events) /\ Len(<<e>>) = 1 /\ <<e>>[1] = e
      OBVIOUS
    <2>2. /\ <<e>> \o t \in Seq(Events)
          /\ Len(<<e>> \o t) = 1 + Len(t)
          /\ \A k \in 1 .. 1 + Len(t) :
                (<<e>> \o t)[k] = IF k <= 1 THEN <<e>>[k] ELSE t[k - 1]
      BY Zenon, <2>1, ConcatProperties
    <2>3. Len(t) \in Nat /\ DOMAIN t = 1 .. Len(t)
      BY Zenon, LenProperties
    <2>4. ASSUME NEW k \in 1 .. 1 + Len(t)
          PROVE  (<<e>> \o t)[k] \in Range(d) \cup {e}
      <3>1. CASE k = 1
        BY <3>1, <2>1, <2>2
      <3>2. CASE k # 1
        <4>1. k - 1 \in DOMAIN t /\ (<<e>> \o t)[k] = t[k - 1]
          BY <3>2, <2>2, <2>3
        <4> QED BY Zenon, <4>1, <1>1 DEF Range
      <3> QED BY Zenon, <3>1, <3>2
    <2>5. DOMAIN (<<e>> \o t) = 1 .. 1 + Len(t)
      BY Zenon, <2>2, LenProperties
    <2> QED BY Zenon, <2>2, <2>4, <2>5 DEF Range
  <1>2. CASE e \in Range(d)
    BY Zenon, <1>1, <1>2, WithoutSeq DEF AddLocked
  <1>3. CASE e \notin Range(d) /\ Len(d) >= Capacity
    <2> DEFINE t == SubSeq(d, 1, Capacity - 1)
    <2>1. Len(d) \in Nat /\ DOMAIN d = 1 .. Len(d)
      BY Zenon, LenProperties
    <2>2. Capacity - 1 \in Nat /\ Capacity - 1 <= Len(d)
      BY <1>3, <2>1, CapacityAssumption
    <2>3. \A k \in 1 .. Capacity - 1 : k \in 1 .. Len(d) /\ d[k] \in Events
      BY <2>1, <2>2, ElementOfSeq
    <2>4. /\ t \in Seq(Events) /\ Len(t) = Capacity - 1
          /\ \A k \in 1 .. Capacity - 1 : t[k] = d[k]
      BY <2>2, <2>3, SubSeqProperties
    <2>5. Range(t) \subseteq Range(d)
      <3>1. DOMAIN t = 1 .. Capacity - 1
        BY Zenon, <2>4, LenProperties
      <3> QED BY Zenon, <3>1, <2>1, <2>3, <2>4 DEF Range
    <2> HIDE DEF t
    <2> QED BY Zenon, <1>1, <1>3, <2>4, <2>5 DEF AddLocked, t
  <1>4. CASE e \notin Range(d) /\ ~(Len(d) >= Capacity)
    BY Zenon, <1>1, <1>4 DEF AddLocked
  <1> QED BY Zenon, <1>2, <1>3, <1>4

-----------------------------------------------------------------------------
\* TypeOK is inductive together with: a handler about to project has an event.
TypeInv ==
    /\ TypeOK
    /\ \A p \in Handlers : req[p].pc = "project" => req[p].rest # <<>>

LEMMA TypeInit == Init => TypeInv
  <1> SUFFICES ASSUME Init PROVE TypeInv
    BY Zenon
  <1>1. EmptyFile \in File
    BY Zenon, EmptyIsFile DEF Init
  <1>2. <<EmptyFile>> \in Seq(File) /\ Len(<<EmptyFile>>) = 1
    BY <1>1
  <1>3. LogTypeOK
    BY <1>2 DEF Init, LogTypeOK
  <1>4. Idle \in Request
    BY DEF Idle, Request
  <1> QED
    BY <1>3, <1>4, WindowAssumption DEF Init, TypeInv, TypeOK, Idle

\* The current event of a handler is an event.
LEMMA CurrentTyped ==
    ASSUME TypeInv, NEW p \in Handlers, req[p].rest # <<>>
    PROVE  /\ Current(p) \in Events
           /\ Tail(req[p].rest) \in Seq(Events)
           /\ req[p] \in Request
  BY Zenon, HeadTailProperties DEF TypeInv, TypeOK, Current, Request

LEMMA AbortTyped ==
    ASSUME TypeInv, NEW p \in Handlers, Abort(p)
    PROVE  /\ req' \in [Handlers -> Request]
           /\ \A q \in Handlers : req'[q].pc = "project" => req'[q].rest # <<>>
  BY DEF TypeInv, TypeOK, Abort, Idle, Request

LEMMA AdvanceTyped ==
    ASSUME TypeInv, NEW p \in Handlers, req[p].rest # <<>>,
           NEW a \in SUBSET Events, NEW b \in SUBSET Events, Advance(p, a, b)
    PROVE  /\ req' \in [Handlers -> Request]
           /\ \A q \in Handlers : req'[q].pc = "project" => req'[q].rest # <<>>
  <1>1. /\ Tail(req[p].rest) \in Seq(Events) /\ req[p].new \in SUBSET Events
        /\ req[p].dup \in SUBSET Events
    BY Zenon, CurrentTyped DEF Request
  <1> QED BY Zenon, <1>1 DEF TypeInv, TypeOK, Advance, Request

\* Outside replay.
LEMMA StopTyped ==
    ASSUME NotReplaying
    PROVE  since' \in Int /\ cursor' \in (Nat \ {0}) \X (Nat \ {0}) /\ 0 \in Nat
  BY WindowAssumption DEF NotReplaying

LEMMA HandlerTyped ==
    ASSUME TypeInv, NEW p \in Handlers, HandlerStep(p)
    PROVE  TypeInv'
  <1> USE DEF logVars, bootVars, memVars, scanVars, ghostVars, bounds
  <1>1. CASE \E batch \in Batches : Receive(p, batch)
    <2>1. PICK batch \in Batches : Receive(p, batch)
      BY Zenon, <1>1
    <2>2. batch \in Seq(Events)
      BY Zenon, BatchesAssumption
    <2> QED BY Zenon, <2>1, <2>2 DEF Receive, TypeInv, TypeOK, LogTypeOK, Request
  <1>2. CASE Cancelled(p)
    BY Zenon, <1>2, AbortTyped DEF Cancelled, TypeInv, TypeOK, LogTypeOK
  <1>3. CASE Reject(p)
    BY Zenon, <1>3, AdvanceTyped DEF Reject, HasEvent, TypeInv, TypeOK, LogTypeOK
  <1>4. CASE Duplicate(p)
    BY Zenon, <1>4, AdvanceTyped, CurrentTyped
       DEF Duplicate, HasEvent, TypeInv, TypeOK, LogTypeOK
  <1>5. CASE Commit(p)
    <2>1. Current(p) \in Events
      BY Zenon, <1>5, CurrentTyped DEF Commit, HasEvent
    <2>2. LogTypeOK'
      BY Zenon, <1>5, <2>1, WriteTyped DEF Commit, TypeInv, TypeOK
    <2>3. dedup' \in Seq(Events)
      BY Zenon, <1>5, <2>1, AddLockedSeq DEF Commit, TypeInv, TypeOK
    <2>4. /\ req' \in [Handlers -> Request]
          /\ \A q \in Handlers : req'[q].pc = "project" => req'[q].rest # <<>>
      <3>1. /\ req' = [req EXCEPT ![p] = [req[p] EXCEPT !.pc = "project"]]
            /\ req[p].rest # <<>>
        BY Zenon, <1>5 DEF Commit, HasEvent
      <3>2. req \in [Handlers -> Request] /\ req[p] \in Request
        BY Zenon DEF TypeInv, TypeOK
      <3> DEFINE r == [req[p] EXCEPT !.pc = "project"]
      <3>3. r \in Request /\ r.rest = req[p].rest
        BY Zenon, <3>2 DEF Request
      <3> HIDE DEF r
      <3>4. req' = [req EXCEPT ![p] = r]
        BY Zenon, <3>1 DEF r
      <3> QED BY Zenon, <3>1, <3>2, <3>3, <3>4 DEF TypeInv
    <2>5. writes' \in Nat
      BY <1>5 DEF Commit, TypeInv, TypeOK
    <2> QED BY Zenon, <1>5, <2>2, <2>3, <2>4, <2>5 DEF Commit, TypeInv, TypeOK
  <1>6. CASE CommitFails(p)
    <2>1. Current(p) \in Events
      BY Zenon, <1>6, CurrentTyped DEF CommitFails, HasEvent
    <2>2. LogTypeOK'
      BY Zenon, <1>6, <2>1, WriteTyped DEF CommitFails, TypeInv, TypeOK
    <2> QED BY <1>6, <2>2, AbortTyped DEF CommitFails, TypeInv, TypeOK
  <1>7. CASE Project(p)
    <2>1. req[p].rest # <<>>
      BY Zenon, <1>7 DEF Project, Serving, TypeInv
    <2>2. Current(p) \in Events
      BY Zenon, <2>1, CurrentTyped
    <2>3. /\ req' \in [Handlers -> Request]
          /\ \A q \in Handlers : req'[q].pc = "project" => req'[q].rest # <<>>
      <3>1. {Current(p)} \in SUBSET Events /\ {} \in SUBSET Events
        BY Zenon, <2>2
      <3> QED BY Zenon, <1>7, <2>1, <3>1, AdvanceTyped DEF Project
    <2> QED BY Zenon, <1>7, <2>2, <2>3 DEF Project, TypeInv, TypeOK, LogTypeOK
  <1>8. CASE ProjectPanics(p)
    <2>1. Current(p) \in Events
      BY Zenon, <1>8, CurrentTyped DEF ProjectPanics, Serving, TypeInv
    <2> QED BY Zenon, <1>8, <2>1, AbortTyped, WithoutSeq
            DEF ProjectPanics, TypeInv, TypeOK, LogTypeOK
  <1>9. CASE Respond(p)
    <2>1. req[p].new \in SUBSET Events /\ req[p].dup \in SUBSET Events
      BY Zenon DEF TypeInv, TypeOK, Request
    <2> QED BY Zenon, <1>9, <2>1, AbortTyped DEF Respond, TypeInv, TypeOK, LogTypeOK
  <1>10. CASE CrashMidWrite(p)
    <2>1. Current(p) \in Events
      BY Zenon, <1>10, CurrentTyped DEF CrashMidWrite, HasEvent
    <2>2. f # "nil" /\ LogTypeOK
      BY Zenon, <1>10 DEF CrashMidWrite, TypeInv, TypeOK
    <2>3. PICK file \in TornFiles(files[active], Current(p))
                           \cup {Appended(files[active], Current(p))} :
             files' = [files EXCEPT ![active] = file]
      BY Zenon, <1>10 DEF CrashMidWrite
    <2>4. file \in File
      BY Zenon, <2>1, <2>2, ActiveTyped, TornIsFile, AppendedFile
    <2>5. files' \in Seq(File) /\ Len(files') \in Nat
      BY Zenon, <2>2, <2>3, <2>4, ActiveReplaced, LenProperties
    <2>6. LogTypeOK'
      BY <1>10, <2>2, <2>5 DEF CrashMidWrite, Stop, LogTypeOK
    <2>7. Idle \in Request /\ Idle.pc = "idle"
      BY DEF Idle, Request
    <2>8. req' \in [Handlers -> Request] /\ \A q \in Handlers : req'[q].pc = "idle"
      BY Zenon, <1>10, <2>7 DEF CrashMidWrite, Stop
    <2>9. /\ proc' \in {"down", "replay", "up"} /\ dedup' \in Seq(Events) /\ index' \in SUBSET Events
          /\ crashes' \in Nat
      BY <1>10 DEF CrashMidWrite, Stop, TypeInv, TypeOK
    <2>10. /\ UNCHANGED <<accepted, acked, expired, writes>>
           /\ keep' = NoScan /\ panicked' = {} /\ scanAt' = 0 /\ NotReplaying
      BY Zenon, <1>10 DEF CrashMidWrite, Stop
    <2>11. TypeOK'
      BY Zenon, <2>6, <2>8, <2>9, <2>10, StopTyped DEF TypeInv, TypeOK
    <2> QED BY Zenon, <2>8, <2>11 DEF TypeInv
  <1> QED
    BY SMTT(30), <1>1, <1>2, <1>3, <1>4, <1>5, <1>6, <1>7, <1>8, <1>9, <1>10
       DEF HandlerStep

\* The line replay is at is an event of the disk, or Garbage.
LEMMA ReplayedLine ==
    ASSUME LogTypeOK, ReplayLine, cursor \in (Nat \ {0}) \X (Nat \ {0})
    PROVE  LET line == FileLines(ReplayFile)[cursor[2]]
           IN  line # Garbage => line \in OnDisk
  <1> DEFINE file == files[cursor[1]]
             all == FileLines(file)
             line == all[cursor[2]]
  <1>1. cursor[1] \in 1 .. Len(files) /\ cursor[1] \in DOMAIN files
    BY LenProperties DEF ReplayLine, LogTypeOK
  <1>2. file \in File /\ ~file.gone
    BY Zenon, <1>1, ElementOfSeq DEF ReplayLine, Replayable, ReplayFile, LogTypeOK
  <1>3. all \in Seq(Line)
    BY <1>2 DEF FileLines, File
  <1>4. cursor[2] \in 1 .. Len(all)
    BY <1>3, LenProperties DEF ReplayLine, ReplayFile
  <1>5. line \in Line /\ line \in Range(all)
    BY <1>3, <1>4, ElementOfSeq, LenProperties DEF Range
  <1> QED
    BY Zenon, <1>1, <1>2, <1>5 DEF OnDisk, Line, ReplayFile

LEMMA LogNat == LogTypeOK => active \in Nat /\ now \in Nat
  <1> SUFFICES ASSUME LogTypeOK PROVE active \in Nat /\ now \in Nat
    OBVIOUS
  <1>1. Len(files) \in Nat
    BY Zenon, LenProperties DEF LogTypeOK
  <1> QED BY <1>1 DEF LogTypeOK

LEMMA TypeStep == TypeInv /\ [Next]_vars => TypeInv'
  <1> SUFFICES ASSUME TypeInv, [Next]_vars PROVE TypeInv'
    BY Zenon
  <1> USE DEF logVars, bootVars, memVars, scanVars, ghostVars, bounds
  <1>1. CASE \E p \in Handlers : HandlerStep(p)
    BY Zenon, <1>1, HandlerTyped
  <1>2. CASE PruneIndex
    BY Zenon, <1>2 DEF PruneIndex, TypeInv, TypeOK, LogTypeOK
  <1>3. CASE RetainStart \/ Retain
    <2>1. CASE RetainStart
      BY Zenon, <2>1, LogNat DEF RetainStart, TypeInv, TypeOK, LogTypeOK
    <2>2. CASE Retain
      BY Zenon, <2>2, PruneTyped DEF Retain, TypeInv, TypeOK
    <2> QED BY Zenon, <1>3, <2>1, <2>2
  <1>4. CASE Tick
    BY <1>4 DEF Tick, TypeInv, TypeOK, LogTypeOK
  <1>5. CASE Crash \/ ReplayFails
    <2>1. Stop /\ \E lost : LogCrash(lost)
      BY Zenon, <1>5 DEF Crash, ReplayFails
    <2>2. LogTypeOK'
      BY Zenon, <2>1, CrashTyped DEF Stop, TypeInv, TypeOK
    <2>3. since' \in Int /\ cursor' \in (Nat \ {0}) \X (Nat \ {0})
      BY Zenon, <2>1, StopTyped DEF Stop
    <2> QED BY <2>1, <2>2, <2>3 DEF Stop, TypeInv, TypeOK, Idle, Request
  <1>6. CASE CloseWriter
    BY Zenon, <1>6, CloseTyped DEF CloseWriter, TypeInv, TypeOK
  <1>7. CASE Boot
    <2>1. LogTypeOK' /\ since' \in Int
      BY <1>7, OpenTyped, WindowAssumption DEF Boot, TypeInv, TypeOK, LogTypeOK
    <2> QED BY <1>7, <2>1 DEF Boot, TypeInv, TypeOK
  <1>8. CASE SkipFile
    BY <1>8 DEF SkipFile, TypeInv, TypeOK, LogTypeOK
  <1>9. CASE ReplayLine
    <2> DEFINE line == FileLines(ReplayFile)[cursor[2]]
    <2>1. line # Garbage => line \in Events
      BY Zenon, <1>9, ReplayedLine DEF TypeInv, TypeOK, OnDisk
    <2>2. dedup' \in Seq(Events) /\ index' \in SUBSET Events
      BY Zenon, <1>9, <2>1, AddLockedSeq DEF ReplayLine, TypeInv, TypeOK
    <2>3. cursor' \in (Nat \ {0}) \X (Nat \ {0})
      BY <1>9 DEF ReplayLine, TypeInv, TypeOK
    <2> QED BY Zenon, <1>9, <2>2, <2>3 DEF ReplayLine, TypeInv, TypeOK, LogTypeOK
  <1>10. CASE Serve
    BY Zenon, <1>10, StopTyped DEF Serve, TypeInv, TypeOK, LogTypeOK
  <1>11. CASE UNCHANGED vars
    BY Zenon, <1>11 DEF vars, TypeInv, TypeOK, LogTypeOK
  <1> QED
    BY Zenon, <1>1, <1>2, <1>3, <1>4, <1>5, <1>6, <1>7, <1>8, <1>9, <1>10, <1>11 DEF Next

\* Type correctness, TypeOK of module Ingest: among the rest, activePath is
\* cleared exactly when the writer has no file.
THEOREM TypeCorrect == Spec => []TypeOK
  <1>1. TypeInv => TypeOK
    BY Zenon DEF TypeInv
  <1> QED
    BY <1>1, TypeInit, TypeStep, PTL DEF Spec

-----------------------------------------------------------------------------
(***************************************************************************)
(* Nothing but retention takes an event from the log.                      *)
(***************************************************************************)

\* Between reading the active path and deleting: the file handlers write to is
\* the one that was read, or was created since.
ScanInv ==
    keep # NoScan =>
        /\ proc = "up"
        /\ scanAt <= now
        /\ now <= scanAt + Retention
        /\ active # 0 /\ active # keep => files[active].created >= scanAt

\* WriteRaw goes on in the same file, starts one now, or stops.
LEMMA WriteActive ==
    ASSUME LogTypeOK, NEW e \in Events, WriteOk(e) \/ WriteErr(e)
    PROVE  /\ now' = now
           /\ \/ active' = 0
              \/ active' = active /\ files'[active].created = files[active].created
              \/ files'[active'].created = now
  <1>1. CASE WriteRejected
    BY Zenon, <1>1 DEF WriteRejected, logVars
  <1>2. CASE WriteOpenFails(e)
    BY Zenon, <1>2 DEF WriteOpenFails
  <1>3. CASE f = "open"
    <2>1. active \in DOMAIN files /\ files[active] \in File /\ files \in Seq(File)
          /\ now \in Nat
      BY <1>3, ActiveTyped, LenProperties DEF LogTypeOK
    <2>2. \A file : [files EXCEPT ![active] = file][active] = file
      BY Zenon, <2>1
    <2>3. /\ Appended(files[active], e).created = files[active].created
          /\ WrittenFile(e).created = files[active].created
          /\ \A file \in TornFiles(files[active], e) : file.created = files[active].created
      BY Zenon, <2>1 DEF Appended, WrittenFile, SyncedFile, TornFiles, File
    <2>4. CASE WriteTorn(e) \/ WriteSyncFails(e) \/ WriteNoRotate(e) \/ WriteCloseFails(e)
      BY Zenon, <2>2, <2>3, <2>4
         DEF WriteTorn, WriteSyncFails, WriteNoRotate, WriteCloseFails
    <2>5. CASE WriteRotate(e)
      <3>1. PICK file \in {WrittenFile(e), SyncedFile(WrittenFile(e))} :
               files' = Append([files EXCEPT ![active] = file], EmptyFile)
        BY Zenon, <2>5 DEF WriteRotate
      <3>2. WrittenFile(e) \in File /\ SyncedFile(WrittenFile(e)) \in File
        <4>1. Appended(files[active], e) \in File
          BY Zenon, <2>1, AppendedFile
        <4>2. WrittenFile(e) \in File
          BY Zenon, <4>1, SyncedIsFile DEF WrittenFile
        <4> QED BY Zenon, <4>2, SyncedIsFile
      <3>3. file \in File
        BY Zenon, <3>1, <3>2
      <3> DEFINE fs == [files EXCEPT ![active] = file]
      <3>4. f # "nil"
        BY <1>3
      <3>5. fs \in Seq(File) /\ Len(fs) = Len(files)
        BY Zenon, <3>3, <3>4, ActiveReplaced
      <3>6. files' = Append(fs, EmptyFile)
        BY Zenon, <3>1
      <3> HIDE DEF fs
      <3>7. files'[Len(files) + 1] = EmptyFile
        BY Zenon, <2>1, <3>5, <3>6, EmptyAppended
      <3>8. EmptyFile.created = now
        BY DEF EmptyFile
      <3> QED BY Zenon, <2>5, <3>7, <3>8 DEF WriteRotate
    <2> QED BY Zenon, <1>1, <1>2, <2>4, <2>5 DEF WriteOk, WriteErr
  <1>4. CASE f # "open" /\ ~WriteRejected /\ ~WriteOpenFails(e)
    BY Zenon, <1>4 DEF WriteOk, WriteErr, WriteNoRotate, WriteRotate, WriteTorn,
                WriteSyncFails, WriteCloseFails, WriteOpenFails
  <1> QED BY Zenon, <1>1, <1>2, <1>3, <1>4

LEMMA ScanStep == TypeInv /\ ScanInv /\ [Next]_vars => ScanInv'
  <1> SUFFICES ASSUME TypeInv, ScanInv, [Next]_vars, keep' # NoScan PROVE ScanInv'
    BY Zenon DEF ScanInv
  <1> USE DEF logVars, bootVars, memVars, scanVars, ghostVars, bounds
  <1>1. /\ LogTypeOK /\ now \in Nat /\ scanAt \in Nat /\ Retention \in Nat
    BY Zenon, LogNat, RetentionAssumption DEF TypeInv, TypeOK
  <1>2. ASSUME UNCHANGED <<proc, now, files, active, keep, scanAt>>
        PROVE  ScanInv'
    BY Zenon, <1>2 DEF ScanInv
  <1>3. ASSUME NEW p \in Handlers, Commit(p) \/ CommitFails(p)
        PROVE  ScanInv'
    <2>1. Current(p) \in Events
      BY Zenon, <1>3, CurrentTyped DEF Commit, CommitFails, HasEvent
    <2>2. WriteOk(Current(p)) \/ WriteErr(Current(p))
      BY Zenon, <1>3 DEF Commit, CommitFails
    <2>3. /\ now' = now
          /\ \/ active' = 0
             \/ active' = active /\ files'[active].created = files[active].created
             \/ files'[active'].created = now
      BY Zenon, <1>1, <2>1, <2>2, WriteActive
    <2>4. UNCHANGED <<proc, keep, scanAt>>
      BY Zenon, <1>3 DEF Commit, CommitFails
    <2>5. now >= scanAt
      BY <1>1, <2>4 DEF ScanInv
    <2> QED BY Zenon, <2>3, <2>4, <2>5 DEF ScanInv
  <1>4. CASE \E p \in Handlers : HandlerStep(p)
    <2> PICK p \in Handlers : HandlerStep(p)
      BY Zenon, <1>4
    <2>1. CASE \/ \E batch \in Batches : Receive(p, batch)
               \/ Cancelled(p) \/ Reject(p) \/ Duplicate(p)
               \/ Project(p) \/ ProjectPanics(p) \/ Respond(p)
      BY Zenon, <2>1, <1>2
         DEF Receive, Cancelled, Reject, Duplicate, Project, ProjectPanics, Respond
    <2>2. CASE CrashMidWrite(p)
      BY Zenon, <2>2 DEF CrashMidWrite, Stop
    <2> QED BY Zenon, <1>3, <2>1, <2>2 DEF HandlerStep
  <1>5. CASE Crash \/ ReplayFails \/ Retain
    BY Zenon, <1>5 DEF Crash, ReplayFails, Stop, Retain
  <1>6. CASE RetainStart
    <2>1. now <= now /\ now <= now + Retention
      BY <1>1
    <2> QED BY Zenon, <1>6, <2>1 DEF RetainStart, ScanInv
  <1>7. CASE Tick
    <2>1. scanAt <= now + 1 /\ (now < scanAt + Retention => now + 1 <= scanAt + Retention)
      BY <1>1, <1>7 DEF Tick, ScanInv
    <2> QED BY Zenon, <1>7, <2>1 DEF Tick, ScanInv
  <1>8. CASE CloseWriter
    BY Zenon, <1>8 DEF CloseWriter, CloseLog, ScanInv
  <1>9. CASE Boot \/ SkipFile \/ ReplayLine \/ Serve
    <2>1. proc # "up"
      BY Zenon, <1>9 DEF Boot, SkipFile, ReplayLine, Serve
    <2> QED BY Zenon, <1>9, <2>1 DEF ScanInv, Boot, SkipFile, ReplayLine, Serve
  <1>10. CASE PruneIndex
    BY Zenon, <1>10, <1>2 DEF PruneIndex
  <1>11. CASE UNCHANGED vars
    BY Zenon, <1>11, <1>2 DEF vars
  <1> QED
    BY Zenon, <1>4, <1>5, <1>6, <1>7, <1>8, <1>9, <1>10, <1>11 DEF Next

\* Retention takes events of the files it deletes, and it records them; it
\* never deletes the file handlers write to, even if the path it read is stale.
LEMMA RetainKeeps ==
    ASSUME TypeInv, LogInv, ScanInv, Retain
    PROVE  /\ LogInv'
           /\ \A x \in Events : /\ x \in OnDisk => x \in OnDisk' \cup expired'
                                /\ Kept(x) => Kept(x)' \/ x \in expired'
  <1>1. PICK deleted \in SUBSET DOMAIN files :
          /\ PruneLog(deleted, keep)
          /\ expired' = expired \cup
               {e \in Events : \E k \in deleted : e \in Range(FileLines(files[k]))}
    BY Zenon DEF Retain
  <1>2. LogTypeOK'
    BY Zenon, <1>1, PruneTyped DEF LogInv
  <1>3. /\ DOMAIN files' = DOMAIN files
        /\ \A k \in DOMAIN files : files'[k] = IF k \in deleted
                                               THEN [files[k] EXCEPT !.gone = TRUE]
                                               ELSE files[k]
    BY Zenon, <1>1 DEF PruneLog
  <1>4. \A k \in DOMAIN files : files[k] \in File
    BY Zenon, ExtendedSelf
  <1>5. \A k \in DOMAIN files : /\ files'[k].lines = files[k].lines
                                /\ files'[k].synced = files[k].synced
                                /\ files'[k].tail = files[k].tail
                                /\ Expired(k, keep) \/ files'[k] = files[k]
    BY Zenon, <1>1, <1>3, <1>4 DEF File, PruneLog
  <1>6. LogInv'
    <2>1. \A k \in DOMAIN files' : files'[k].synced <= Len(files'[k].lines)
      BY Zenon, <1>3, <1>5 DEF LogInv
    <2>2. active' = active /\ (active # 0 => active \in DOMAIN files)
      BY <1>1, LenProperties DEF PruneLog, LogInv, LogTypeOK
    <2>3. active # 0 => ~Expired(active, keep)
      <3>1. SUFFICES ASSUME active # 0, active # keep
                     PROVE  ~(files[active].created < now - Retention)
        BY Zenon DEF Expired
      <3>2. /\ files[active].created \in Nat /\ now \in Nat /\ scanAt \in Nat
            /\ Retention \in Nat
        BY Zenon, <1>4, <2>2, <3>1, LogNat, RetentionAssumption DEF TypeInv, TypeOK, File
      <3>3. now <= scanAt + Retention /\ files[active].created >= scanAt
        BY Zenon, <3>1 DEF ScanInv, Retain
      <3> QED BY <3>2, <3>3
    <2>4. active # 0 => files'[active] = files[active]
      BY Zenon, <1>5, <2>2, <2>3
    <2> QED BY Zenon, <1>2, <2>1, <2>2, <2>4 DEF LogInv
  <1>7. ASSUME NEW k \in DOMAIN files, NEW x \in Events, x \in Range(FileLines(files[k]))
        PROVE  files'[k] = files[k] \/ x \in expired'
    BY Zenon, <1>1, <1>3, <1>7
  <1>8. ASSUME NEW x \in Events, x \in OnDisk
        PROVE  x \in OnDisk' \cup expired'
    BY Zenon, <1>3, <1>7, <1>8 DEF OnDisk
  <1>9. ASSUME NEW x \in Events, Kept(x)
        PROVE  Kept(x)' \/ x \in expired'
    <2>1. PICK k \in DOMAIN files :
             ~files[k].gone /\ \E j \in 1 .. files[k].synced : files[k].lines[j] = x
      BY Zenon, <1>9 DEF Kept
    <2>2. PICK j \in 1 .. files[k].synced : files[k].lines[j] = x
      BY Zenon, <2>1
    <2>3. j \in 1 .. Len(files[k].lines)
      BY <1>4, LenProperties DEF LogInv, File
    <2>4. x \in Range(FileLines(files[k]))
      BY Zenon, <1>4, <2>2, <2>3, FileLinesRange
    <2> QED BY Zenon, <1>3, <1>7, <2>1, <2>2, <2>4 DEF Kept
  <1> QED BY Zenon, <1>6, <1>8, <1>9

\* An event that is in the log, or was until retention deleted its file; and
\* one that a power loss cannot take either.  Nothing is claimed of bodies of
\* several lines.
Logged(x) == x \in OnDisk \cup expired \cup MultiLine
Secured(x) == Kept(x) \/ x \in expired \cup MultiLine

\* No step of the system takes an event from the log, if no write error leaves
\* half a line; without power losses, not even one that was never synced.
LEMMA NothingLost ==
    ASSUME TypeInv, LogInv, ScanInv, "torn" \notin Faults, [Next]_vars
    PROVE  /\ LogInv'
           /\ \A x \in Events : /\ "dirent" \notin Faults /\ Secured(x) => Secured(x)'
                                /\ ~PowerLoss /\ Logged(x) => Logged(x)'
  <1> USE DEF logVars, bootVars, memVars, scanVars, ghostVars, bounds
  <1>1. ASSUME LogKeeps, expired' = expired
        PROVE  /\ LogInv'
               /\ \A x \in Events : /\ "dirent" \notin Faults /\ Secured(x) => Secured(x)'
                                    /\ ~PowerLoss /\ Logged(x) => Logged(x)'
    BY Zenon, <1>1 DEF LogKeeps, Secured, Logged
  <1>2. ASSUME UNCHANGED <<files, f, active, bytesWritten, expired>>, now' \in Nat
        PROVE  LogKeeps
    BY Zenon, <1>2 DEF LogKeeps, LogInv, LogTypeOK, OnDisk, Kept
  <1>3. now \in Nat
    BY Zenon DEF TypeInv, TypeOK, LogTypeOK
  <1>4. CASE \E p \in Handlers : HandlerStep(p)
    <2> PICK p \in Handlers : HandlerStep(p)
      BY Zenon, <1>4
    <2>1. CASE Commit(p)
      BY Zenon, <2>1, <1>1, WriteOkKeeps, CurrentTyped DEF Commit, HasEvent
    <2>2. CASE CommitFails(p)
      BY Zenon, <2>2, <1>1, WriteErrKeeps, CurrentTyped DEF CommitFails, HasEvent
    <2>3. CASE CrashMidWrite(p)
      <3>1. Current(p) \in Events
        BY Zenon, <2>3, CurrentTyped DEF CrashMidWrite, HasEvent
      <3> QED BY Zenon, <2>3, <3>1, <1>1, MidWriteKeeps DEF CrashMidWrite, Stop
    <2>4. CASE \/ \E batch \in Batches : Receive(p, batch)
               \/ Cancelled(p) \/ Reject(p) \/ Duplicate(p)
               \/ Project(p) \/ ProjectPanics(p) \/ Respond(p)
      BY Zenon, <2>4, <1>1, <1>2, <1>3
         DEF Receive, Cancelled, Reject, Duplicate, Project, ProjectPanics, Respond
    <2> QED BY Zenon, <2>1, <2>2, <2>3, <2>4 DEF HandlerStep
  <1>5. CASE Retain
    <2>1. expired \subseteq expired'
      BY Zenon, <1>5 DEF Retain
    <2> QED BY Zenon, <1>5, <2>1, RetainKeeps DEF Secured, Logged
  <1>6. CASE Tick
    BY <1>6, <1>1, <1>2, <1>3 DEF Tick
  <1>7. CASE Crash
    <2>1. PICK lost \in {FALSE, PowerLoss} : LogCrash(lost)
      BY Zenon, <1>7 DEF Crash
    <2>2. now' = now /\ expired' = expired
      BY Zenon, <1>7 DEF Crash, Stop
    <2>3. lost \in BOOLEAN
      BY Zenon, <2>1, PowerLossAssumption
    <2>4. /\ LogInv'
          /\ "dirent" \notin Faults => \A x \in Events : Kept(x) => Kept(x)'
          /\ ~lost => LogKeeps
      BY Zenon, <2>1, <2>2, <2>3, CrashKeeps
    <2>5. ~PowerLoss => ~lost
      BY Zenon, <2>1
    <2> QED BY Zenon, <2>2, <2>4, <2>5, <1>1 DEF Secured
  <1>8. CASE CloseWriter
    BY Zenon, <1>8, <1>1, CloseKeeps DEF CloseWriter
  <1>9. CASE Boot
    BY SMTT(30), <1>9, <1>1, OpenKeeps DEF Boot
  <1>10. CASE PruneIndex \/ RetainStart \/ SkipFile \/ ReplayLine \/ Serve
    BY Zenon, <1>10, <1>1, <1>2, <1>3
       DEF PruneIndex, RetainStart, SkipFile, ReplayLine, Serve
  <1>11. CASE ReplayFails
    <2>1. LogCrash(FALSE) /\ now' = now /\ expired' = expired
      BY Zenon, <1>11 DEF ReplayFails, Stop
    <2> QED BY Zenon, <2>1, <1>1, CrashKeeps
  <1>12. CASE UNCHANGED vars
    BY Zenon, <1>12, <1>1, <1>2, <1>3 DEF vars
  <1> QED
    BY Zenon, <1>4, <1>5, <1>6, <1>7, <1>8, <1>9, <1>10, <1>11, <1>12 DEF Next

LEMMA ScanInit == Init => ScanInv
  BY Zenon DEF Init, ScanInv

LEMMA LogInvInit == Init => LogInv
  <1> SUFFICES ASSUME Init PROVE LogInv
    OBVIOUS
  <1>1. TypeInv
    BY Zenon, TypeInit
  <1>2. EmptyFile.tail = NoTail /\ EmptyFile.lines = <<>>
        /\ EmptyFile.synced = 0 /\ ~EmptyFile.gone
    BY Zenon DEF EmptyFile
  <1>3. DOMAIN files = {1} /\ files[1] = EmptyFile
    BY DEF Init
  <1>4. files[1].synced <= Len(files[1].lines)
    BY <1>2, <1>3
  <1>5. LogTypeOK /\ active = 1
    BY Zenon, <1>1 DEF TypeInv, TypeOK, Init
  <1> HIDE DEF Init
  <1> QED BY Zenon, <1>2, <1>3, <1>4, <1>5 DEF LogInv

-----------------------------------------------------------------------------
(***************************************************************************)
(* Durability against process crashes.  Everything the process knows about *)
(* an event, it knows after the event was logged.                          *)
(***************************************************************************)
ProcessInv ==
    /\ \A x \in acked \cup index \cup Range(dedup) : Logged(x)
    /\ \A p \in Handlers :
         /\ \A x \in req[p].new \cup req[p].dup : Logged(x)
         /\ req[p].pc = "project" => Logged(Current(p))

LEMMA ProcessStep ==
    ASSUME TypeInv, LogInv, ScanInv, "torn" \notin Faults, ~PowerLoss, ProcessInv,
           [Next]_vars
    PROVE  ProcessInv'
  <1> USE DEF logVars, bootVars, memVars, scanVars, ghostVars, bounds
  <1> DEFINE Held == OnDisk' \cup expired' \cup MultiLine
  <1>0. \A x : Logged(x)' <=> x \in Held
    BY Zenon DEF Logged
  <1>1. \A x \in Events : Logged(x) => x \in Held
    BY Zenon, <1>0, NothingLost
  <1> HIDE DEF Held
  <1>2. /\ acked \in SUBSET Events /\ index \in SUBSET Events
        /\ Range(dedup) \in SUBSET Events /\ dedup \in Seq(Events)
        /\ req \in [Handlers -> Request]
        /\ \A p \in Handlers : /\ req[p].new \in SUBSET Events
                               /\ req[p].dup \in SUBSET Events
                               /\ req[p].rest # <<>> => Current(p) \in Events
                               /\ req[p].pc = "project" => Current(p) \in Events
    <2>1. Range(dedup) \in SUBSET Events
      BY ElementOfSeq, LenProperties DEF TypeInv, TypeOK, Range
    <2>2. \A p \in Handlers : req[p].rest # <<>> => Current(p) \in Events
      BY Zenon, CurrentTyped
    <2> QED BY SMTT(30), <2>1, <2>2 DEF TypeInv, TypeOK, Request
  <1>3. /\ \A x \in acked \cup index \cup Range(dedup) : x \in Held
        /\ \A p \in Handlers :
             /\ \A x \in req[p].new \cup req[p].dup : x \in Held
             /\ req[p].pc = "project" => Head(req[p].rest) \in Held
    BY Zenon, <1>1, <1>2 DEF ProcessInv, Current
  <1> DEFINE Mem == \A x \in acked' \cup index' \cup Range(dedup') : x \in Held
             Own(q) == /\ \A x \in req'[q].new \cup req'[q].dup : x \in Held
                       /\ req'[q].pc = "project" => Head(req'[q].rest) \in Held
  <1> SUFFICES Mem /\ \A q \in Handlers : Own(q)
    BY Zenon, <1>0 DEF ProcessInv, Current
  <1>4. ASSUME NEW q \in Handlers, req'[q] = req[q]
        PROVE  Own(q)
    BY Zenon, <1>4, <1>3
  <1>5. ASSUME NEW q \in Handlers, req'[q] = Idle
        PROVE  Own(q)
    BY <1>5 DEF Idle
  <1> HIDE DEF Own
  <1>6. CASE \E p \in Handlers : HandlerStep(p)
    <2> PICK p \in Handlers : HandlerStep(p)
      BY SMTT(30), <1>6
    <2>1. ASSUME NEW r, req' = [req EXCEPT ![p] = r]
          PROVE  /\ req'[p] = r
                 /\ \A q \in Handlers \ {p} : Own(q)
      BY Zenon, <2>1, <1>2, <1>4
    <2>2. ASSUME NEW a \in SUBSET Events, NEW b \in SUBSET Events, Advance(p, a, b),
                 \A x \in a \cup b : x \in Held
          PROVE  \A q \in Handlers : Own(q)
      <3>1. /\ req'[p].pc = "loop"
            /\ req'[p].new = req[p].new \cup a /\ req'[p].dup = req[p].dup \cup b
            /\ \A q \in Handlers \ {p} : Own(q)
        <4>1. \A q \in Handlers \ {p} : req'[q] = req[q]
          BY SMTT(30), <2>2, <1>2 DEF Advance
        <4> QED BY SMTT(30), <4>1, <2>2, <1>2, <1>4 DEF Advance
      <3>2. Own(p)
        BY Zenon, <3>1, <2>2, <1>3 DEF Own
      <3> QED BY Zenon, <3>1, <3>2
    <2>3. ASSUME Abort(p)
          PROVE  \A q \in Handlers : Own(q)
      BY Zenon, <2>3, <2>1, <1>5 DEF Abort
    <2>4. CASE \E batch \in Batches : Receive(p, batch)
      <3>1. PICK batch \in Batches : Receive(p, batch)
        BY Zenon, <2>4
      <3>2. Own(p) /\ \A q \in Handlers \ {p} : Own(q)
        <4>1. /\ \A q \in Handlers \ {p} : req'[q] = req[q]
              /\ req'[p].pc = "loop" /\ req'[p].new = {} /\ req'[p].dup = {}
          BY Zenon, <3>1, <1>2 DEF Receive
        <4>2. Own(p)
          BY Zenon, <4>1 DEF Own
        <4> QED BY Zenon, <4>1, <4>2, <1>4
      <3>3. Mem
        BY Zenon, <3>1, <1>3 DEF Receive
      <3> QED BY Zenon, <3>2, <3>3 DEF Own
    <2>5. CASE Cancelled(p) \/ CommitFails(p)
      <3>1. Mem
        BY Zenon, <2>5, <1>3 DEF Cancelled, CommitFails
      <3> QED BY Zenon, <3>1, <2>3, <2>5 DEF Own, Cancelled, CommitFails
    <2>6. CASE Reject(p)
      <3>1. Mem /\ \A q \in Handlers : Own(q)
        BY Zenon, <2>6, <1>3, <2>2 DEF Reject
      <3> QED BY SMTT(30), <3>1 DEF Own
    <2>7. CASE Duplicate(p)
      <3>1. Mem /\ Current(p) \in Held /\ Current(p) \in Events
        BY Zenon, <2>7, <1>2, <1>3 DEF Duplicate
      <3>2. \A q \in Handlers : Own(q)
        BY Zenon, <2>7, <3>1, <2>2 DEF Duplicate
      <3> QED BY Zenon, <3>1, <3>2 DEF Own
    <2>8. CASE Commit(p)
      <3>1. Current(p) \in Events /\ Current(p) \in Held
        BY Zenon, <2>8, <1>2, WriteOkKeeps DEF Commit, HasEvent, Held
      <3>2. Mem
        <4>1. Range(dedup') \subseteq Range(dedup) \cup {Current(p)}
          BY Zenon, <2>8, <1>2, <3>1, AddLockedSeq DEF Commit
        <4> QED BY Zenon, <2>8, <4>1, <3>1, <1>3 DEF Commit
      <3>3. /\ req'[p] = [req[p] EXCEPT !.pc = "project"]
            /\ \A q \in Handlers \ {p} : Own(q)
        BY Zenon, <2>8, <1>2, <1>4 DEF Commit
      <3>4. /\ req'[p].new = req[p].new /\ req'[p].dup = req[p].dup
            /\ req'[p].rest = req[p].rest
        BY <1>2, <3>3 DEF Request
      <3>5. Head(req'[p].rest) \in Held
        BY Zenon, <3>1, <3>4 DEF Current
      <3> QED BY Zenon, <3>2, <3>3, <3>4, <3>5, <1>3 DEF Own
    <2>9. CASE Project(p)
      <3>1. Current(p) \in Events /\ Current(p) \in Held
        BY Zenon, <2>9, <1>1, <1>2 DEF Project, Serving, ProcessInv
      <3>2. Mem
        BY Zenon, <2>9, <3>1, <1>3 DEF Project
      <3>3. \A q \in Handlers : Own(q)
        <4>1. {Current(p)} \in SUBSET Events /\ {} \in SUBSET Events
          BY Zenon, <3>1
        <4> QED BY Zenon, <2>9, <3>1, <4>1, <2>2 DEF Project
      <3> QED BY SMTT(30), <3>2, <3>3 DEF Own
    <2>10. CASE ProjectPanics(p)
      <3>1. Range(dedup') \subseteq Range(dedup)
        BY Zenon, <2>10, <1>2, WithoutSeq DEF ProjectPanics
      <3>2. Mem
        BY Zenon, <2>10, <3>1, <1>3 DEF ProjectPanics
      <3> QED BY Zenon, <2>10, <3>2, <2>3 DEF Own, ProjectPanics
    <2>11. CASE Respond(p)
      <3>1. Mem
        BY Zenon, <2>11, <1>3 DEF Respond
      <3> QED BY Zenon, <2>11, <3>1, <2>3 DEF Own, Respond
    <2>12. CASE CrashMidWrite(p)
      <3>1. Mem /\ \A q \in Handlers : req'[q] = Idle
        BY <2>12, <1>3 DEF CrashMidWrite, Stop, Range
      <3>2. \A q \in Handlers : Own(q)
        BY <3>1, <1>5, Zenon
      <3> QED BY <3>1, <3>2, Zenon DEF Own
    <2> QED
      BY Zenon, <2>4, <2>5, <2>6, <2>7, <2>8, <2>9, <2>10, <2>11, <2>12 DEF HandlerStep
  <1>7. CASE Crash \/ ReplayFails
    <2>0. Stop
      BY Zenon, <1>7 DEF Crash, ReplayFails
    <2>1. Mem /\ \A q \in Handlers : req'[q] = Idle
      BY <2>0, <1>3 DEF Stop, Range
    <2>2. \A q \in Handlers : Own(q)
      BY <2>1, <1>5, Zenon
    <2> QED BY <2>1, <2>2, Zenon DEF Own
  <1>8. ASSUME req' = req
        PROVE  \A q \in Handlers : Own(q)
    BY Zenon, <1>8, <1>4
  <1>9. CASE PruneIndex
    BY Zenon, <1>8, <1>9, <1>3 DEF PruneIndex
  <1>10. CASE RetainStart \/ Retain \/ Tick \/ CloseWriter \/ Boot \/ SkipFile \/ Serve
    BY Zenon, <1>8, <1>10, <1>3
       DEF RetainStart, Retain, Tick, CloseWriter, Boot, SkipFile, Serve
  <1>11. CASE ReplayLine
    <2> DEFINE line == FileLines(ReplayFile)[cursor[2]]
    <2>1. line # Garbage => line \in OnDisk /\ line \in Events
      BY Zenon, <1>11, ReplayedLine DEF TypeInv, TypeOK, OnDisk
    <2>2. line # Garbage => line \in Held
      BY Zenon, <2>1, <1>1 DEF Logged
    <2>3. /\ index' \subseteq index \cup ({line} \ {Garbage})
          /\ Range(dedup') \subseteq Range(dedup) \cup ({line} \ {Garbage})
      <3> DEFINE kept == line # Garbage /\ Fresh(line, since)
      <3>1. /\ dedup' = IF kept THEN AddLocked(dedup, line) ELSE dedup
            /\ index' = IF kept THEN index \cup {line} ELSE index
        BY Zenon, <1>11 DEF ReplayLine
      <3> HIDE DEF line
      <3>2. kept => Range(AddLocked(dedup, line)) \subseteq Range(dedup) \cup {line}
        <4>1. dedup \in Seq(Events)
          BY Zenon, <1>2
        <4> QED BY Zenon, <4>1, <2>1, AddLockedSeq
      <3> QED BY Zenon, <3>1, <3>2
    <2>4. Mem
      BY Zenon, <1>11, <2>2, <2>3, <1>3 DEF ReplayLine
    <2> QED BY Zenon, <2>4, <1>8, <1>11 DEF ReplayLine
  <1>12. CASE UNCHANGED vars
    BY Zenon, <1>8, <1>12, <1>3 DEF vars
  <1> QED
    BY Zenon, <1>6, <1>7, <1>9, <1>10, <1>11, <1>12 DEF Next

\* Durability, OneLineDurable of module Ingest: if write errors leave no
\* partial line and the host does not lose power, an event sent as one line
\* that a client was told 200 for is in the log until retention deletes its
\* file, and NothingUnlogged: of such events the index and the dedup cache hold
\* nothing the log does not.
THEOREM AckedDurableCorrect ==
    ASSUME "torn" \notin Faults, ~PowerLoss
    PROVE  Spec => [](OneLineDurable /\ NothingUnlogged)
  <1> DEFINE Inv == TypeInv /\ LogInv /\ ScanInv /\ ProcessInv
  <1>1. Init => Inv
    <2>1. Init => ProcessInv
      BY DEF Init, ProcessInv, Idle, Range
    <2> QED BY Zenon, <2>1, TypeInit, LogInvInit, ScanInit
  <1>2. Inv /\ [Next]_vars => Inv'
    BY Zenon, TypeStep, NothingLost, ScanStep, ProcessStep
  <1>3. Inv => OneLineDurable /\ NothingUnlogged
    BY Zenon DEF ProcessInv, Logged, OneLineDurable, NothingUnlogged
  <1> QED
    BY <1>1, <1>2, <1>3, PTL DEF Spec

-----------------------------------------------------------------------------
(***************************************************************************)
(* Durability against power losses: what a handler counts Accepted, it     *)
(* wrote itself, and WriteRaw synced it.                                   *)
(***************************************************************************)
PowerInv ==
    /\ \A x \in accepted : Secured(x)
    /\ \A p \in Handlers :
         /\ \A x \in req[p].new : Secured(x)
         /\ req[p].pc = "project" => Secured(Current(p))

LEMMA PowerStep ==
    ASSUME TypeInv, LogInv, ScanInv, "torn" \notin Faults, "dirent" \notin Faults,
           SyncOnWrite, PowerInv, [Next]_vars
    PROVE  PowerInv'
  <1> USE DEF logVars, bootVars, memVars, scanVars, ghostVars, bounds
  <1> DEFINE Safe == {x \in Events : Secured(x)'}
  <1>1. \A x \in Events : Secured(x) => x \in Safe
    BY Zenon, NothingLost
  <1>2. /\ accepted \in SUBSET Events
        /\ req \in [Handlers -> Request]
        /\ \A p \in Handlers : /\ req[p].new \in SUBSET Events
                               /\ req[p].rest # <<>> => Current(p) \in Events
                               /\ req[p].pc = "project" => Current(p) \in Events
    <2>1. \A p \in Handlers : req[p].rest # <<>> => Current(p) \in Events
      BY Zenon, CurrentTyped
    <2> QED BY Zenon, <2>1 DEF TypeInv, TypeOK, Request
  <1>3. /\ accepted \subseteq Safe
        /\ \A p \in Handlers : /\ req[p].new \subseteq Safe
                               /\ req[p].pc = "project" => Head(req[p].rest) \in Safe
    BY Zenon, <1>1, <1>2 DEF PowerInv, Current
  <1> DEFINE Own(q) == /\ req'[q].new \subseteq Safe
                       /\ req'[q].pc = "project" => Head(req'[q].rest) \in Safe
  <1> SUFFICES accepted' \subseteq Safe /\ \A q \in Handlers : Own(q)
    BY Zenon DEF PowerInv, Current
  <1> HIDE DEF Safe
  <1>4. ASSUME NEW q \in Handlers, req'[q] = req[q]
        PROVE  Own(q)
    BY Zenon, <1>4, <1>3
  <1>5. ASSUME NEW q \in Handlers, req'[q] = Idle
        PROVE  Own(q)
    BY <1>5 DEF Idle
  <1> HIDE DEF Own
  <1>6. CASE \E p \in Handlers : HandlerStep(p)
    <2> PICK p \in Handlers : HandlerStep(p)
      BY SMTT(30), <1>6
    <2>1. ASSUME NEW a \in SUBSET Safe, NEW b, Advance(p, a, b)
          PROVE  \A q \in Handlers : Own(q)
      <3>1. /\ req'[p].pc = "loop" /\ req'[p].new = req[p].new \cup a
            /\ \A q \in Handlers \ {p} : req'[q] = req[q]
        BY SMTT(30), <2>1, <1>2 DEF Advance
      <3>2. Own(p)
        BY Zenon, <3>1, <2>1, <1>3 DEF Own
      <3> QED BY Zenon, <3>1, <3>2, <1>4
    <2>2. ASSUME Abort(p)
          PROVE  \A q \in Handlers : Own(q)
      <3>1. req'[p] = Idle /\ \A q \in Handlers \ {p} : req'[q] = req[q]
        BY Zenon, <2>2, <1>2 DEF Abort
      <3> QED BY Zenon, <3>1, <1>4, <1>5
    <2>3. CASE \E batch \in Batches : Receive(p, batch)
      <3>1. PICK batch \in Batches : Receive(p, batch)
        BY SMTT(30), <2>3
      <3>2. /\ \A q \in Handlers \ {p} : req'[q] = req[q]
            /\ req'[p].pc = "loop" /\ req'[p].new = {} /\ accepted' = accepted
        BY Zenon, <3>1, <1>2 DEF Receive
      <3>3. Own(p)
        BY Zenon, <3>2 DEF Own
      <3> QED BY Zenon, <3>2, <3>3, <1>3, <1>4
    <2>4. CASE Cancelled(p) \/ CommitFails(p) \/ ProjectPanics(p)
      BY Zenon, <2>4, <2>2, <1>3 DEF Cancelled, CommitFails, ProjectPanics
    <2>5. CASE Reject(p) \/ Duplicate(p)
      <3>1. {} \in SUBSET Safe
        BY Zenon
      <3> QED BY Zenon, <2>5, <3>1, <2>1, <1>3 DEF Reject, Duplicate
    <2>6. CASE Commit(p)
      <3>1. Current(p) \in Safe
        BY Zenon, <2>6, <1>2, WriteOkKeeps DEF Commit, HasEvent, Secured, Safe, Current,
           Kept
      <3>2. /\ req'[p] = [req[p] EXCEPT !.pc = "project"]
            /\ \A q \in Handlers \ {p} : req'[q] = req[q]
        BY Zenon, <2>6, <1>2 DEF Commit
      <3>3. req'[p].new = req[p].new /\ req'[p].rest = req[p].rest
        BY <1>2, <3>2 DEF Request
      <3>4. Own(p)
        BY Zenon, <3>1, <3>3, <1>3 DEF Own, Current
      <3> QED BY Zenon, <2>6, <3>2, <3>4, <1>3, <1>4 DEF Commit
    <2>7. CASE Project(p)
      <3>1. {Current(p)} \in SUBSET Safe
        <4>1. req[p].pc = "project" /\ Current(p) = Head(req[p].rest)
          BY Zenon, <2>7 DEF Project, Serving, Current
        <4> QED BY Zenon, <4>1, <1>3
      <3> QED BY Zenon, <2>7, <3>1, <2>1, <1>3 DEF Project
    <2>8. CASE Respond(p)
      BY Zenon, <2>8, <2>2, <1>3 DEF Respond
    <2>9. CASE CrashMidWrite(p)
      BY Zenon, <2>9, <1>3, <1>5 DEF CrashMidWrite, Stop
    <2> QED
      BY Zenon, <2>3, <2>4, <2>5, <2>6, <2>7, <2>8, <2>9 DEF HandlerStep
  <1>7. CASE Crash \/ ReplayFails
    BY Zenon, <1>7, <1>3, <1>5 DEF Crash, ReplayFails, Stop
  <1>8. CASE \/ PruneIndex \/ RetainStart \/ Retain \/ Tick \/ CloseWriter \/ Boot
             \/ SkipFile \/ ReplayLine \/ Serve
    BY Zenon, <1>8, <1>3, <1>4
       DEF PruneIndex, RetainStart, Retain, Tick, CloseWriter, Boot, SkipFile, ReplayLine, Serve
  <1>9. CASE UNCHANGED vars
    BY Zenon, <1>9, <1>3, <1>4 DEF vars
  <1> QED
    BY Zenon, <1>6, <1>7, <1>8, <1>9 DEF Next

\* Durability under power loss, AcceptedDurable of module Ingest: with
\* EVENT_LOG_SYNC set, no partial lines and a file system that keeps the
\* directory entry of a file it has synced, an event sent as one line and
\* counted Accepted stays in the log until retention deletes its file, power
\* losses included.
THEOREM AcceptedDurableCorrect ==
    ASSUME "torn" \notin Faults, "dirent" \notin Faults, SyncOnWrite
    PROVE  Spec => []AcceptedDurable
  <1> DEFINE Inv == TypeInv /\ LogInv /\ ScanInv /\ PowerInv
  <1>1. Init => Inv
    <2>1. Init => PowerInv
      BY DEF Init, PowerInv, Idle
    <2> QED BY SMTT(30), <2>1, TypeInit, LogInvInit, ScanInit
  <1>2. Inv /\ [Next]_vars => Inv'
    BY Zenon, TypeStep, NothingLost, ScanStep, PowerStep
  <1>3. Inv => AcceptedDurable
    <2> SUFFICES ASSUME Inv, NEW x \in accepted \ MultiLine PROVE x \in OnDisk \cup expired
      BY Zenon DEF AcceptedDurable
    <2>1. x \in Events /\ Secured(x)
      BY Zenon DEF TypeInv, TypeOK, PowerInv
    <2> QED BY Zenon, <2>1, KeptLogged DEF Secured
  <1> QED
    BY <1>1, <1>2, <1>3, PTL DEF Spec

-----------------------------------------------------------------------------
(***************************************************************************)
(* The refinement.  What remains to be shown of the log is the other       *)
(* direction: a write adds the event it was asked to write and nothing     *)
(* else, opening, closing and retention add nothing.  Each action is then  *)
(* one step of EventStore or a stutter.                                    *)
(***************************************************************************)

\* A file holds no event but those the old file held, and perhaps e.
AddsOnly(old, new, e) ==
    /\ new.gone = old.gone
    /\ \A x \in Events : x \in Range(FileLines(new)) =>
                             x = e \/ x \in Range(FileLines(old))

\* Replacing the active file, and perhaps appending an empty one, adds to the
\* log only what it adds to that file.
LEMMA ReplaceAdds ==
    ASSUME LogInv, active # 0, NEW e, NEW file \in File,
           AddsOnly(files[active], file, e),
           \/ files' = [files EXCEPT ![active] = file]
           \/ files' = Append([files EXCEPT ![active] = file], EmptyFile)
    PROVE  \A x \in OnDisk' : x = e \/ x \in OnDisk
  <1> DEFINE fs == [files EXCEPT ![active] = file]
  <1>1. /\ files \in Seq(File) /\ active \in 1 .. Len(files) /\ now \in Nat
        /\ DOMAIN files = 1 .. Len(files) /\ Len(files) \in Nat
    BY LenProperties DEF LogInv, LogTypeOK
  <1>2. /\ fs \in Seq(File) /\ Len(fs) = Len(files)
        /\ \A k \in 1 .. Len(files) : fs[k] = IF k = active THEN file ELSE files[k]
    BY <1>1, ExceptSeq
  <1>3. DOMAIN fs = 1 .. Len(files)
    BY Zenon, <1>1
  <1>4. EmptyFile \in File /\ EmptyFile.tail = NoTail /\ EmptyFile.lines = <<>>
    BY Zenon, <1>1, EmptyIsFile
  <1>5. ASSUME NEW x \in Events
        PROVE  x \notin Range(FileLines(EmptyFile))
    BY <1>4 DEF FileLines, Range
  <1> HIDE DEF fs
  <1>6. files' = fs \/ files' = Append(fs, EmptyFile)
    BY Zenon DEF fs
  <1>7. /\ DOMAIN files' \subseteq 1 .. Len(files) + 1
        /\ \A k \in DOMAIN files' : \/ k \in 1 .. Len(files) /\ files'[k] = fs[k]
                                    \/ files'[k] = EmptyFile
    BY <1>1, <1>2, <1>3, <1>4, <1>6, LenProperties
  <1>8. ASSUME NEW x \in OnDisk'
        PROVE  x = e \/ x \in OnDisk
    <2>1. x \in Events
      BY Zenon, <1>8 DEF OnDisk
    <2>2. PICK k \in DOMAIN files' : ~files'[k].gone /\ x \in Range(FileLines(files'[k]))
      BY Zenon, <1>8 DEF OnDisk
    <2>3. k \in DOMAIN files /\ files'[k] = IF k = active THEN file ELSE files[k]
      BY Zenon, <1>1, <1>2, <1>5, <1>7, <2>1, <2>2
    <2>4. ~files[k].gone /\ (x = e \/ x \in Range(FileLines(files[k])))
      BY Zenon, <2>1, <2>2, <2>3 DEF AddsOnly
    <2> QED BY Zenon, <2>1, <2>3, <2>4 DEF OnDisk
  <1> QED BY Zenon, <1>8

\* The lines a record adds hold no other event.
LEMMA AppendedNew ==
    ASSUME NEW file \in File, NEW e \in Events, NEW x \in Events, x # e,
           NEW j \in 1 .. Len(Appended(file, e).lines), Appended(file, e).lines[j] = x
    PROVE  j \in 1 .. Len(file.lines)
  <1> DEFINE old == file.lines
             rec == Record(file, e)
  <1>1. Appended(file, e).lines = Append(old, rec)
    BY Zenon DEF Appended, File
  <1>2. old \in Seq(Line) /\ rec \in Line
    BY Zenon, RecordIsLine DEF File
  <1>3. rec # x
    BY Zenon, RecordIsLine, GarbageAssumption
  <1> HIDE DEF rec
  <1>4. /\ Len(old) \in Nat /\ j \in 1 .. Len(old) + 1
        /\ Append(old, rec)[Len(old) + 1] = rec
    <2>1. /\ Len(old) \in Nat /\ Len(Append(old, rec)) = Len(old) + 1
          /\ Append(old, rec)[Len(Append(old, rec))] = rec
      BY Zenon, <1>2, AppendLine
    <2> QED BY Zenon, <1>1, <2>1
  <1>5. j # Len(old) + 1
    BY Zenon, <1>1, <1>3, <1>4
  <1> HIDE DEF old
  <1>6. j \in 1 .. Len(old)
    BY <1>4, <1>5
  <1> QED BY Zenon, <1>6 DEF old

LEMMA WrittenLines ==
    ASSUME NEW e \in Events, files[active] \in File, now \in Nat,
           NEW file \in {Appended(files[active], e), WrittenFile(e), SyncedFile(WrittenFile(e))}
    PROVE  file.lines = Appended(files[active], e).lines
  <1>1. Appended(files[active], e) \in File
    BY Zenon, AppendedFile
  <1>2. WrittenFile(e) \in File /\ WrittenFile(e).lines = Appended(files[active], e).lines
    BY Zenon, <1>1, SyncedIsFile DEF WrittenFile
  <1> QED BY Zenon, <1>2, SyncedIsFile

\* WriteRaw adds the record's line, however it ends.
LEMMA WriteAdds ==
    ASSUME LogInv, "torn" \notin Faults, NEW e \in Events, WriteOk(e) \/ WriteErr(e)
    PROVE  \A x \in OnDisk' : x = e \/ x \in OnDisk
  <1>1. CASE WriteRejected
    BY Zenon, <1>1 DEF WriteRejected, logVars, OnDisk
  <1>2. CASE f = "open" /\ ~WriteRejected
    <2>1. active # 0 /\ active \in DOMAIN files
      BY <1>2, LenProperties DEF LogInv, LogTypeOK
    <2>2. files[active] \in File /\ now \in Nat
      BY Zenon, <2>1, ExtendedSelf DEF LogInv, LogTypeOK
    <2>3. ASSUME NEW file \in {Appended(files[active], e), WrittenFile(e),
                               SyncedFile(WrittenFile(e))}
          PROVE  file \in File /\ AddsOnly(files[active], file, e)
      <3>1. /\ Extended(files[active], file) /\ file.tail = NoTail
            /\ file.lines = Appended(files[active], e).lines
        BY Zenon, <2>1, <2>2, WrittenExtends, WrittenLines
      <3>2. /\ file \in File /\ file.gone = files[active].gone
            /\ \A j \in 1 .. Len(files[active].lines) :
                   file.lines[j] = files[active].lines[j]
        BY Zenon, <3>1 DEF Extended
      <3>3. Len(files[active].lines) \in Nat
        BY Zenon, <2>2, LenProperties DEF File
      <3>4. ASSUME NEW x \in Events, x \in Range(FileLines(file)), x # e
            PROVE  x \in Range(FileLines(files[active]))
        <4>1. PICK j \in 1 .. Len(file.lines) : file.lines[j] = x
          BY Zenon, <3>1, <3>2, <3>4, FileLinesRange, NoTailAssumption
        <4>2. j \in 1 .. Len(files[active].lines)
          BY Zenon, <4>1, <3>1, <3>4, <2>2, AppendedNew
        <4> QED BY Zenon, <4>1, <4>2, <3>2, <2>2, FileLinesRange
      <3> QED BY Zenon, <3>2, <3>4 DEF AddsOnly
    <2>4. \E file \in {Appended(files[active], e), WrittenFile(e), SyncedFile(WrittenFile(e))} :
             \/ files' = [files EXCEPT ![active] = file]
             \/ files' = Append([files EXCEPT ![active] = file], EmptyFile)
      BY Zenon, <1>2 DEF WriteOk, WriteErr, WriteNoRotate, WriteRotate, WriteTorn,
            WriteSyncFails, WriteCloseFails, WriteOpenFails
    <2>5. PICK file \in {Appended(files[active], e), WrittenFile(e), SyncedFile(WrittenFile(e))} :
             \/ files' = [files EXCEPT ![active] = file]
             \/ files' = Append([files EXCEPT ![active] = file], EmptyFile)
      BY Zenon, <2>4
    <2>6. file \in File /\ AddsOnly(files[active], file, e)
      BY Zenon, <2>3
    <2> QED BY Zenon, <2>1, <2>5, <2>6, ReplaceAdds
  <1>3. CASE f # "open" /\ ~WriteRejected
    BY Zenon, <1>3 DEF WriteRejected, WriteOk, WriteErr, WriteNoRotate, WriteRotate,
       WriteTorn,
                WriteSyncFails, WriteCloseFails, WriteOpenFails
  <1> QED BY Zenon, <1>1, <1>2, <1>3

\* A new file is empty.
LEMMA OpenAdds ==
    ASSUME LogInv, OpenLog, now' = now
    PROVE  OnDisk' \subseteq OnDisk
  <1>1. files \in Seq(File) /\ now \in Nat /\ Len(files) \in Nat
        /\ DOMAIN files = 1 .. Len(files)
    BY LenProperties DEF LogInv, LogTypeOK
  <1>2. EmptyFile \in File /\ EmptyFile.tail = NoTail /\ EmptyFile.lines = <<>>
    BY Zenon, <1>1, EmptyIsFile
  <1>3. \A x \in Events : x \notin Range(FileLines(EmptyFile))
    BY <1>2 DEF FileLines, Range
  <1>4. \A k \in DOMAIN files' : \/ k \in DOMAIN files /\ files'[k] = files[k]
                                 \/ files'[k] = EmptyFile
    BY <1>1, <1>2, LenProperties DEF OpenLog
  <1> QED BY Zenon, <1>3, <1>4 DEF OnDisk

\* Close at most syncs.
LEMMA CloseAdds ==
    ASSUME LogInv, CloseLog
    PROVE  OnDisk' \subseteq OnDisk
  <1>1. active # 0 /\ active \in DOMAIN files
    BY LenProperties DEF CloseLog, LogInv, LogTypeOK
  <1>2. PICK file \in {files[active], SyncedFile(files[active])} :
           files' = [files EXCEPT ![active] = file]
    BY Zenon DEF CloseLog
  <1>3. files[active] \in File
    BY Zenon, <1>1, ExtendedSelf
  <1>4. file \in File /\ file.lines = files[active].lines
        /\ file.tail = files[active].tail /\ file.gone = files[active].gone
    BY Zenon, <1>3, SyncedIsFile
  <1>5. AddsOnly(files[active], file, Garbage)
    BY Zenon, <1>4 DEF AddsOnly, FileLines
  <1>6. \A x \in OnDisk' : x = Garbage \/ x \in OnDisk
    BY Zenon, <1>1, <1>2, <1>4, <1>5, ReplaceAdds
  <1> QED BY Zenon, <1>6, GarbageAssumption DEF OnDisk

\* Retention moves events from the disk to the expired ones.
LEMMA RetainAdds ==
    ASSUME LogInv, Retain
    PROVE  OnDisk' \cup expired' \subseteq OnDisk \cup expired
  <1>1. PICK deleted \in SUBSET DOMAIN files :
          /\ PruneLog(deleted, keep)
          /\ expired' = expired \cup
               {e \in Events : \E k \in deleted : e \in Range(FileLines(files[k]))}
    BY DEF Retain
  <1>2. /\ DOMAIN files' = DOMAIN files
        /\ \A k \in DOMAIN files : files'[k] = IF k \in deleted
                                               THEN [files[k] EXCEPT !.gone = TRUE]
                                               ELSE files[k]
    BY <1>1 DEF PruneLog
  <1>3. \A k \in deleted : ~files[k].gone
    BY Zenon, <1>1 DEF PruneLog, Expired
  <1>4. \A k \in deleted : files'[k].gone
    BY Zenon, <1>2, ExtendedSelf DEF File
  <1>5. OnDisk' \subseteq OnDisk
    BY Zenon, <1>2, <1>4 DEF OnDisk
  <1>6. expired' \subseteq OnDisk \cup expired
    BY Zenon, <1>1, <1>3 DEF OnDisk
  <1> QED BY Zenon, <1>5, <1>6

-----------------------------------------------------------------------------
(***************************************************************************)
(* Every step is a step of EventStore.                                     *)
(***************************************************************************)
PromiseStep ==
    \/ \E e \in Events \ MultiLine : Promise!Store(e) \/ Promise!Show(e)
    \/ \E S \in SUBSET (Events \ MultiLine) :
          Promise!Acknowledge(S) \/ Promise!Forget(S) \/ Promise!Fail(S)
    \/ UNCHANGED <<(OnDisk \cup expired) \ MultiLine, acked \ MultiLine, index \ MultiLine>>

\* The log, with the bodies EventStore is not about.
Stored == OnDisk \cup expired \cup MultiLine

\* What a step that stores, shows, acknowledges, forgets or fails looks like,
\* in the variables of Ingest.
LEMMA PromiseStepShape ==
    ASSUME \/ \E e \in Events :
                 Stored' = Stored \cup {e} /\ UNCHANGED <<acked, index>>
           \/ \E e \in Events :
                 /\ e \in Stored /\ index' = index \cup {e}
                 /\ Stored' = Stored /\ acked' = acked
           \/ \E S \in SUBSET Events :
                 /\ S \subseteq Stored /\ acked' = acked \cup S
                 /\ Stored' = Stored /\ index' = index
           \/ \E S \in SUBSET Events :
                 /\ index' = index \ S
                 /\ Stored' = Stored /\ acked' = acked
           \/ \E S \in SUBSET Events :
                 /\ acked \subseteq S /\ Stored' = S
                 /\ index' = {} /\ acked' = acked
           \/ Stored' = Stored /\ UNCHANGED <<acked, index>>
    PROVE  PromiseStep
  <1> DEFINE One(S) == S \ MultiLine
             log == (OnDisk \cup expired) \ MultiLine
             logNext == (OnDisk' \cup expired') \ MultiLine
  <1>1. log = One(Stored) /\ logNext = One(Stored')
    BY Zenon DEF Stored
  <1>2. ASSUME log = logNext, One(acked)' = One(acked), One(index)' = One(index)
        PROVE  PromiseStep
    BY Zenon, <1>2 DEF PromiseStep
  <1>3. CASE \E e \in Events : Stored' = Stored \cup {e} /\ UNCHANGED <<acked, index>>
    <2> PICK e \in Events : Stored' = Stored \cup {e} /\ UNCHANGED <<acked, index>>
      BY Zenon, <1>3
    <2>1. CASE e \in MultiLine
      BY Zenon, <1>1, <1>2, <2>1
    <2>2. CASE e \notin MultiLine
      <3>1. logNext = log \cup {e}
        BY Zenon, <1>1, <2>2
      <3> QED BY Zenon, <3>1, <2>2 DEF PromiseStep, Promise!Store
    <2> QED BY Zenon, <2>1, <2>2
  <1>4. CASE \E e \in Events : /\ e \in Stored /\ index' = index \cup {e}
                               /\ Stored' = Stored /\ acked' = acked
    <2> PICK e \in Events : /\ e \in Stored /\ index' = index \cup {e}
                            /\ Stored' = Stored /\ acked' = acked
      BY Zenon, <1>4
    <2>1. logNext = log
      BY Zenon, <1>1
    <2>2. CASE e \in MultiLine
      BY Zenon, <1>2, <2>1, <2>2
    <2>3. CASE e \notin MultiLine
      <3>1. e \in log /\ One(index)' = One(index) \cup {e}
        BY Zenon, <1>1, <2>3
      <3> QED BY Zenon, <2>1, <3>1, <2>3 DEF PromiseStep, Promise!Show
    <2> QED BY Zenon, <2>2, <2>3
  <1>5. CASE \E S \in SUBSET Events :
                 /\ S \subseteq Stored /\ acked' = acked \cup S
                 /\ Stored' = Stored /\ index' = index
    <2> PICK S \in SUBSET Events :
                 /\ S \subseteq Stored /\ acked' = acked \cup S
                 /\ Stored' = Stored /\ index' = index
      BY Zenon, <1>5
    <2>1. /\ One(S) \in SUBSET (Events \ MultiLine) /\ One(S) \subseteq log
          /\ One(acked)' = One(acked) \cup One(S) /\ logNext = log
      BY Zenon, <1>1
    <2> QED BY Zenon, <2>1 DEF PromiseStep, Promise!Acknowledge
  <1>6. CASE \E S \in SUBSET Events :
                 /\ index' = index \ S
                 /\ Stored' = Stored /\ acked' = acked
    <2> PICK S \in SUBSET Events :
                 /\ index' = index \ S
                 /\ Stored' = Stored /\ acked' = acked
      BY Zenon, <1>6
    <2>1. /\ One(S) \in SUBSET (Events \ MultiLine)
          /\ One(index)' = One(index) \ One(S) /\ logNext = log
      BY Zenon, <1>1
    <2> QED BY Zenon, <2>1 DEF PromiseStep, Promise!Forget
  <1>7. CASE \E S \in SUBSET Events :
                 /\ acked \subseteq S /\ Stored' = S
                 /\ index' = {} /\ acked' = acked
    <2> PICK S \in SUBSET Events :
                 /\ acked \subseteq S /\ Stored' = S
                 /\ index' = {} /\ acked' = acked
      BY Zenon, <1>7
    <2>1. /\ One(S) \in SUBSET (Events \ MultiLine) /\ One(acked) \subseteq One(S)
          /\ logNext = One(S) /\ One(index)' = {}
      BY Zenon, <1>1
    <2> QED BY Zenon, <2>1 DEF PromiseStep, Promise!Fail
  <1>8. CASE Stored' = Stored /\ UNCHANGED <<acked, index>>
    BY Zenon, <1>1, <1>2, <1>8
  <1> QED BY Zenon, <1>3, <1>4, <1>5, <1>6, <1>7, <1>8

LEMMA StepImplements ==
    ASSUME TypeInv, LogInv, ScanInv, "torn" \notin Faults, ~PowerLoss, ProcessInv, [Next]_vars
    PROVE  PromiseStep
  <1> USE DEF logVars, bootVars, memVars, scanVars, ghostVars, bounds
  <1> DEFINE log == OnDisk \cup expired \cup MultiLine
             logNext == OnDisk' \cup expired' \cup MultiLine
  <1>1. /\ acked \in SUBSET Events /\ index \in SUBSET Events
        /\ expired \in SUBSET Events /\ OnDisk \in SUBSET Events
        /\ TypeInv' /\ now \in Nat
        /\ Stored = log /\ Stored' = logNext
    BY Zenon, TypeStep DEF TypeInv, TypeOK, LogTypeOK, OnDisk, Stored
  <1>2. MultiLine \in SUBSET Events /\ OnDisk' \in SUBSET Events /\ expired' \in SUBSET Events
    BY Zenon, <1>1, MultiLineAssumption DEF TypeInv, TypeOK, OnDisk
  <1>3. log \subseteq logNext /\ acked \subseteq log
    BY Zenon, <1>1, NothingLost DEF Logged, ProcessInv
  <1>4. ASSUME files' = files
        PROVE  OnDisk' = OnDisk
    BY Zenon, <1>4 DEF OnDisk
  <1>5. ASSUME logNext = log, UNCHANGED <<acked, index>>
        PROVE  PromiseStep
    BY Zenon, <1>5, <1>1, PromiseStepShape
  <1>6. CASE \E p \in Handlers : HandlerStep(p)
    <2> PICK p \in Handlers : HandlerStep(p)
      BY Zenon, <1>6
    <2>1. CASE \/ \E batch \in Batches : Receive(p, batch)
               \/ Cancelled(p) \/ Reject(p) \/ Duplicate(p) \/ ProjectPanics(p)
      <3>1. files' = files /\ expired' = expired /\ UNCHANGED <<acked, index>>
        BY Zenon, <2>1 DEF Receive, Cancelled, Reject, Duplicate, ProjectPanics
      <3> QED BY Zenon, <3>1, <1>4, <1>5
    <2>2. CASE Commit(p) \/ CommitFails(p)
      <3>1. Current(p) \in Events
        BY Zenon, <2>2, CurrentTyped DEF Commit, CommitFails, HasEvent
      <3>2. /\ WriteOk(Current(p)) \/ WriteErr(Current(p))
            /\ UNCHANGED <<acked, index, expired>>
        BY Zenon, <2>2 DEF Commit, CommitFails
      <3>3. \A x \in OnDisk' : x = Current(p) \/ x \in OnDisk
        BY Zenon, <3>1, <3>2, WriteAdds
      <3>4. logNext = log \/ logNext = log \cup {Current(p)}
        BY Zenon, <3>2, <3>3, <1>3
      <3> QED BY Zenon, <3>1, <3>2, <3>4, <1>5, <1>1, PromiseStepShape
    <2>3. CASE Project(p)
      <3>1. Current(p) \in Events /\ Current(p) \in log
        BY Zenon, <2>3, CurrentTyped DEF Project, Serving, ProcessInv, Logged, TypeInv,
           TypeOK, Request
      <3>2. /\ index' = index \cup {Current(p)}
            /\ files' = files /\ UNCHANGED <<acked, expired>>
        BY Zenon, <2>3 DEF Project
      <3> QED BY Zenon, <3>1, <3>2, <1>4, <1>1, PromiseStepShape
    <2>4. CASE Respond(p)
      <3> DEFINE S == req[p].new \cup req[p].dup
      <3>1. S \in SUBSET Events
        BY Zenon DEF TypeInv, TypeOK, Request
      <3>2. S \subseteq log
        BY Zenon DEF ProcessInv, Logged
      <3>3. acked' = acked \cup S /\ files' = files /\ UNCHANGED <<index, expired>>
        BY Zenon, <2>4 DEF Respond
      <3> HIDE DEF S
      <3> QED BY Zenon, <3>1, <3>2, <3>3, <1>4, <1>1, PromiseStepShape
    <2>5. CASE CrashMidWrite(p)
      <3>1. index' = {} /\ acked' = acked
        BY Zenon, <2>5 DEF CrashMidWrite, Stop
      <3>2. logNext \in SUBSET Events /\ acked \subseteq logNext
        BY Zenon, <1>2, <1>3
      <3> QED BY Zenon, <3>1, <3>2, <1>1, PromiseStepShape
    <2> QED BY Zenon, <2>1, <2>2, <2>3, <2>4, <2>5 DEF HandlerStep
  <1>7. CASE PruneIndex
    <2> DEFINE S == {e \in index : ~Fresh(e, now - HotWindow)}
    <2>1. S \in SUBSET Events /\ index' = index \ S
      BY Zenon, <1>1, <1>7 DEF PruneIndex
    <2>2. files' = files /\ UNCHANGED <<acked, expired>>
      BY Zenon, <1>7 DEF PruneIndex
    <2> HIDE DEF S
    <2> QED BY Zenon, <2>1, <2>2, <1>4, <1>1, PromiseStepShape
  <1>8. CASE Retain
    <2>1. UNCHANGED <<acked, index>>
      BY Zenon, <1>8 DEF Retain
    <2>2. logNext = log
      BY Zenon, <1>3, <1>8, RetainAdds
    <2> QED BY Zenon, <2>1, <2>2, <1>5
  <1>9. CASE Crash \/ ReplayFails
    <2>1. index' = {} /\ acked' = acked
      BY Zenon, <1>9 DEF Crash, ReplayFails, Stop
    <2>2. logNext \in SUBSET Events /\ acked \subseteq logNext
      BY Zenon, <1>2, <1>3
    <2> QED BY Zenon, <2>1, <2>2, <1>1, PromiseStepShape
  <1>10. CASE CloseWriter
    <2>1. CloseLog /\ UNCHANGED <<acked, index, expired>>
      BY Zenon, <1>10 DEF CloseWriter
    <2>2. logNext = log
      BY Zenon, <1>3, <2>1, CloseAdds
    <2> QED BY Zenon, <2>1, <2>2, <1>5
  <1>11. CASE Boot
    <2>1. OpenLog /\ now' = now /\ UNCHANGED <<acked, index, expired>>
      BY Zenon, <1>11 DEF Boot
    <2>2. logNext = log
      BY Zenon, <1>3, <2>1, OpenAdds
    <2> QED BY Zenon, <2>1, <2>2, <1>5
  <1>12. CASE ReplayLine
    <2> DEFINE line == FileLines(ReplayFile)[cursor[2]]
               kept == line # Garbage /\ Fresh(line, since)
    <2>1. line # Garbage => line \in OnDisk /\ line \in Events
      BY Zenon, <1>12, ReplayedLine DEF TypeInv, TypeOK, OnDisk
    <2>2. /\ index' = IF kept THEN index \cup {line} ELSE index
          /\ files' = files /\ UNCHANGED <<acked, expired>>
      BY Zenon, <1>12 DEF ReplayLine
    <2> HIDE DEF line
    <2>3. CASE kept
      BY Zenon, <2>1, <2>2, <2>3, <1>4, <1>1, PromiseStepShape
    <2>4. CASE ~kept
      BY Zenon, <2>2, <2>4, <1>4, <1>5
    <2> QED BY Zenon, <2>3, <2>4
  <1>13. CASE Tick \/ RetainStart \/ SkipFile \/ Serve \/ UNCHANGED vars
    <2>1. files' = files /\ UNCHANGED <<acked, index, expired>>
      BY Zenon, <1>13 DEF Tick, RetainStart, SkipFile, Serve, vars
    <2> QED BY Zenon, <2>1, <1>4, <1>5
  <1> QED
    BY Zenon, <1>6, <1>7, <1>8, <1>9, <1>10, <1>11, <1>12, <1>13 DEF Next

\* ImplementsEventStore of module Ingest: if write errors leave no partial line
\* and the host does not lose power, the ingest path behaves as EventStore
\* promises to bodies of one line.  An event is stored before it is shown to queries or
\* acknowledged, and neither a crash nor anything else unstores it.
THEOREM IngestImplementsEventStore ==
    ASSUME "torn" \notin Faults, ~PowerLoss
    PROVE  Spec => ImplementsEventStore
  <1> DEFINE Inv == TypeInv /\ LogInv /\ ScanInv /\ ProcessInv
  <1>1. Init => Inv
    <2>1. Init => ProcessInv
      BY DEF Init, ProcessInv, Idle, Range
    <2> QED BY Zenon, <2>1, TypeInit, LogInvInit, ScanInit
  <1>2. Inv /\ [Next]_vars => Inv'
    BY Zenon, TypeStep, NothingLost, ScanStep, ProcessStep
  <1>3. Init => Promise!StoreInit
    <2>1. ASSUME Init PROVE OnDisk = {}
      <3>1. DOMAIN files = {1} /\ files[1] = EmptyFile
        BY <2>1 DEF Init
      <3>2. FileLines(EmptyFile) = <<>>
        BY Zenon DEF FileLines, EmptyFile
      <3> QED BY <3>1, <3>2 DEF OnDisk, Range
    <2> QED BY Zenon, <2>1 DEF Init, Promise!StoreInit
  <1>4. Inv /\ [Next]_vars => [Promise!StoreNext]_(Promise!storeVars)
    BY Zenon, StepImplements DEF PromiseStep, Promise!StoreNext, Promise!storeVars
  <1> QED
    BY <1>1, <1>2, <1>3, <1>4, PTL DEF Spec, ImplementsEventStore, Promise!StoreSpec

-----------------------------------------------------------------------------
(***************************************************************************)
(* Visibility.  VisibleInv says where an event the process knows of is:    *)
(* ahead of the replay cursor, about to be projected, in the index, or in  *)
(* a file that replay passed over because the event's time is too far      *)
(* ahead of the file's.  Such a file is not the active one, so its mtime   *)
(* stays what it is.                                                       *)
(***************************************************************************)

\* An event of the log whose time is in the hot window is in a file that
\* ReplayWAL would select, or it is too far ahead.
LEMMA LoggedReplayable ==
    ASSUME TypeInv, LogInv, NEW x \in OnDisk, Fresh(x, now - HotWindow)
    PROVE  x \in ReplaySet \/ ClockAhead(x)
  <1>1. x \in Events
    BY Zenon DEF OnDisk
  <1>2. PICK k \in DOMAIN files : Holds(k, x)
    BY Zenon DEF OnDisk, Holds
  <1>3. files[k].mtime \in Nat
    <2>1. files[k] \in File
      BY Zenon, ExtendedSelf
    <2> QED BY Zenon, <2>1 DEF File
  <1>4. Ts[x] \in Nat
    BY Zenon, <1>1, TsAssumption
  <1>5. now \in Nat /\ HotWindow \in Nat
    BY Zenon, WindowAssumption DEF TypeInv, TypeOK, LogTypeOK
  <1>6. \/ ~(files[k].mtime < now - HotWindow - RotationSlack)
        \/ Ts[x] > files[k].mtime + RotationSlack
    BY <1>3, <1>4, <1>5, SlackAssumption DEF Fresh
  <1> QED BY Zenon, <1>1, <1>2, <1>6 DEF ReplaySet, ClockAhead

\* IndexRebuildable of module Ingest: at any moment a restart would bring back
\* every event of the hot window that the index shows, unless its body had
\* several lines, retention has deleted it, or its time is further ahead of
\* the file it is in than the rotation slack of ReplayWAL; for write errors
\* that leave no partial line and no power loss.
THEOREM IndexRebuildableCorrect ==
    ASSUME "torn" \notin Faults, ~PowerLoss
    PROVE  Spec => []IndexRebuildable
  <1> DEFINE Inv == TypeInv /\ LogInv /\ ScanInv /\ ProcessInv
  <1>1. Init => Inv
    <2>1. Init => ProcessInv
      BY DEF Init, ProcessInv, Idle, Range
    <2> QED BY Zenon, <2>1, TypeInit, LogInvInit, ScanInit
  <1>2. Inv /\ [Next]_vars => Inv'
    BY Zenon, TypeStep, NothingLost, ScanStep, ProcessStep
  <1>3. Inv => IndexRebuildable
    <2> SUFFICES ASSUME Inv, NEW x \in index, Fresh(x, now - HotWindow)
                 PROVE  x \in ReplaySet \/ Unreplayable(x)
      BY Zenon DEF IndexRebuildable
    <2>1. x \in OnDisk \cup expired \cup MultiLine
      BY Zenon DEF ProcessInv, Logged
    <2> QED BY Zenon, <2>1, LoggedReplayable DEF Unreplayable
  <1> QED
    BY <1>1, <1>2, <1>3, PTL DEF Spec

-----------------------------------------------------------------------------
\* An event the process has acknowledged, or would acknowledge.
Known(x) ==
    \/ x \in acked \cup Range(dedup)
    \/ \E p \in Handlers : x \in req[p].new \cup req[p].dup

\* x is in a file that is no longer written, with a time too far ahead of it.
Missed(x) ==
    \E k \in DOMAIN files : /\ k # active
                            /\ Holds(k, x)
                            /\ Ts[x] > files[k].mtime + RotationSlack

\* The replay cursor has not passed a line of x.
Ahead(x) ==
    \E k \in DOMAIN files :
        /\ ~files[k].gone
        /\ k >= cursor[1]
        /\ \E j \in DOMAIN FileLines(files[k]) :
              FileLines(files[k])[j] = x /\ (k = cursor[1] => j >= cursor[2])

Durable == Events \ (expired \cup MultiLine)

UpVisible ==
    \A x \in Durable :
        Known(x) /\ Fresh(x, now - HotWindow) =>
            x \in index \/ Pending(x) \/ x \in panicked \/ Missed(x)

\* The file the process opened at boot is still empty.
ReplayVisible ==
    /\ active # 0 => FileLines(files[active]) = <<>>
    /\ Range(dedup) \subseteq index
    /\ \A x \in acked \cap Durable :
          Fresh(x, since) => x \in index \/ Ahead(x) \/ Missed(x)

VisibleInv ==
    /\ since <= now - HotWindow
    /\ proc # "up" => \A p \in Handlers : req[p] = Idle
    /\ proc = "down" => dedup = <<>>
    /\ proc = "replay" => ReplayVisible
    /\ proc = "up" => UpVisible

\* Files that are not written stay as they are.
SealedStay ==
    \A k \in DOMAIN files : k # active =>
        k \in DOMAIN files' /\ k # active' /\ files'[k] = files[k]

LEMMA NotReplayingSince ==
    ASSUME NotReplaying, now \in Nat
    PROVE  since' <= now - HotWindow
  BY WindowAssumption DEF NotReplaying

LEMMA MissedStays ==
    ASSUME SealedStay, NEW x, Missed(x)
    PROVE  Missed(x)'
  BY Zenon DEF SealedStay, Missed, Holds

LEMMA WriteSealed ==
    ASSUME LogTypeOK, NEW e \in Events, WriteOk(e) \/ WriteErr(e)
    PROVE  SealedStay
  <1>1. /\ files \in Seq(File) /\ Len(files) \in Nat /\ DOMAIN files = 1 .. Len(files)
        /\ now \in Nat
    BY LenProperties DEF LogTypeOK
  <1>2. CASE WriteRejected
    BY Zenon, <1>2 DEF WriteRejected, logVars, SealedStay
  <1>3. ASSUME NEW file, files' = [files EXCEPT ![active] = file], active' \in {active, 0}
        PROVE  SealedStay
    BY <1>1, <1>3 DEF SealedStay
  <1>4. CASE WriteTorn(e) \/ WriteSyncFails(e) \/ WriteNoRotate(e) \/ WriteCloseFails(e)
             \/ WriteOpenFails(e)
    <2>1. \E file : files' = [files EXCEPT ![active] = file]
      BY Zenon, <1>4 DEF WriteTorn, WriteSyncFails, WriteNoRotate, WriteCloseFails,
                         WriteOpenFails
    <2>2. active' \in {active, 0}
      BY Zenon, <1>4 DEF WriteTorn, WriteSyncFails, WriteNoRotate, WriteCloseFails,
                         WriteOpenFails
    <2> QED BY Zenon, <2>1, <2>2, <1>3
  <1>5. CASE WriteRotate(e)
    <2>1. PICK file \in {WrittenFile(e), SyncedFile(WrittenFile(e))} :
             files' = Append([files EXCEPT ![active] = file], EmptyFile)
      BY Zenon, <1>5 DEF WriteRotate
    <2>2. f # "nil" /\ files[active] \in File
      BY <1>5, ActiveTyped DEF WriteRotate, LogTypeOK
    <2>3. Appended(files[active], e) \in File
      BY Zenon, <1>1, <2>2, AppendedFile
    <2>4. WrittenFile(e) \in File
      BY Zenon, <2>3, SyncedIsFile DEF WrittenFile
    <2>5. file \in File
      BY Zenon, <2>1, <2>4, SyncedIsFile
    <2> DEFINE fs == [files EXCEPT ![active] = file]
    <2>6. /\ fs \in Seq(File) /\ Len(fs) = Len(files)
          /\ \A k \in DOMAIN files : k # active => fs[k] = files[k]
      BY Zenon, <2>2, <2>5, ActiveReplaced
    <2>7. files' = Append(fs, EmptyFile) /\ active' = Len(files) + 1 /\ EmptyFile \in File
      BY Zenon, <1>1, <1>5, <2>1, EmptyIsFile DEF WriteRotate
    <2> HIDE DEF fs
    <2>8. /\ DOMAIN files' = 1 .. Len(files) + 1
          /\ \A k \in 1 .. Len(files) : files'[k] = fs[k]
      BY <1>1, <2>6, <2>7
    <2> QED BY <1>1, <2>6, <2>7, <2>8 DEF SealedStay
  <1> QED BY Zenon, <1>2, <1>4, <1>5 DEF WriteOk, WriteErr

LEMMA OpenSealed ==
    ASSUME LogTypeOK, OpenLog
    PROVE  SealedStay
  <1>1. /\ files \in Seq(File) /\ Len(files) \in Nat /\ DOMAIN files = 1 .. Len(files)
        /\ EmptyFile \in File
    BY LenProperties, EmptyIsFile DEF LogTypeOK
  <1>2. files' = Append(files, EmptyFile) /\ active' = Len(files) + 1
    BY Zenon DEF OpenLog
  <1>3. /\ DOMAIN files' = 1 .. Len(files) + 1
        /\ \A k \in 1 .. Len(files) : files'[k] = files[k]
    BY <1>1, <1>2
  <1> QED BY <1>1, <1>2, <1>3 DEF SealedStay

\* The other steps of a running process keep what was missed missed, or
\* retention deletes it.
LEMMA MissedStep ==
    ASSUME TypeInv, [Next]_vars, proc = "up", proc' = "up", NEW x \in Events, Missed(x)
    PROVE  Missed(x)' \/ x \in expired'
  <1> USE DEF logVars, bootVars, memVars, scanVars, ghostVars, bounds
  <1>1. LogTypeOK
    BY Zenon DEF TypeInv, TypeOK
  <1>2. ASSUME UNCHANGED <<files, active>>
        PROVE  SealedStay
    BY Zenon, <1>2 DEF SealedStay
  <1>3. CASE \E p \in Handlers : HandlerStep(p)
    <2> PICK p \in Handlers : HandlerStep(p)
      BY Zenon, <1>3
    <2>1. CASE Commit(p) \/ CommitFails(p)
      <3>1. Current(p) \in Events
        BY Zenon, <2>1, CurrentTyped DEF Commit, CommitFails, HasEvent
      <3>2. WriteOk(Current(p)) \/ WriteErr(Current(p))
        BY Zenon, <2>1 DEF Commit, CommitFails
      <3> QED BY Zenon, <1>1, <3>1, <3>2, WriteSealed, MissedStays
    <2>2. CASE ~(Commit(p) \/ CommitFails(p) \/ CrashMidWrite(p))
      <3>1. UNCHANGED <<files, active>>
        BY Zenon, <2>2 DEF HandlerStep, Receive, Cancelled, Reject, Duplicate, Project,
                           ProjectPanics, Respond
      <3> QED BY Zenon, <3>1, <1>2, MissedStays
    <2>3. ~CrashMidWrite(p)
      BY DEF CrashMidWrite, Stop
    <2> QED BY Zenon, <2>1, <2>2, <2>3
  <1>4. CASE Retain
    <2>1. PICK deleted \in SUBSET DOMAIN files :
          /\ PruneLog(deleted, keep)
          /\ expired' = expired \cup
               {e \in Events : \E k \in deleted : e \in Range(FileLines(files[k]))}
      BY Zenon, <1>4 DEF Retain
    <2>2. PICK k \in DOMAIN files : /\ k # active /\ Holds(k, x)
                                    /\ Ts[x] > files[k].mtime + RotationSlack
      BY Zenon DEF Missed
    <2>3. CASE k \in deleted
      BY Zenon, <2>1, <2>2, <2>3 DEF Holds
    <2>4. CASE k \notin deleted
      <3>1. k \in DOMAIN files' /\ files'[k] = files[k] /\ active' = active
        BY Zenon, <2>1, <2>4 DEF PruneLog
      <3> QED BY Zenon, <2>2, <3>1 DEF Missed, Holds
    <2> QED BY Zenon, <2>3, <2>4
  <1>5. CASE CloseWriter
    <2>1. active' = 0 /\ \E file : files' = [files EXCEPT ![active] = file]
      BY Zenon, <1>5 DEF CloseWriter, CloseLog
    <2>2. \A k \in DOMAIN files : k # 0
      BY <1>1, LenProperties DEF LogTypeOK
    <2>3. SealedStay
      BY Zenon, <2>1, <2>2 DEF SealedStay
    <2> QED BY Zenon, <2>3, MissedStays
  <1>6. CASE PruneIndex \/ RetainStart \/ Tick \/ UNCHANGED vars
    <2>1. UNCHANGED <<files, active>>
      BY Zenon, <1>6 DEF PruneIndex, RetainStart, Tick, vars
    <2> QED BY Zenon, <2>1, <1>2, MissedStays
  <1>7. CASE Crash \/ ReplayFails \/ Boot \/ SkipFile \/ ReplayLine \/ Serve
    BY <1>7 DEF Crash, ReplayFails, Stop, Boot, SkipFile, ReplayLine, Serve
  <1> QED BY Zenon, <1>3, <1>4, <1>5, <1>6, <1>7 DEF Next

\* A step of handler p, which may learn of an event only if the process knew
\* of it already or shows it now, and leaves "project" only by projecting.
LEMMA HandlerVisible ==
    ASSUME UpVisible, NEW p \in Handlers, now' = now, expired' = expired,
           index \subseteq index', panicked \subseteq panicked',
           \A x \in Durable : Missed(x) => Missed(x)',
           \A q \in Handlers \ {p} : req'[q] = req[q],
           req[p].pc = "project" => Current(p) \in index' \cup panicked',
           \A x \in Events :
               x \in acked' \cup Range(dedup') \cup req'[p].new \cup req'[p].dup =>
                   Known(x) \/ x \in index' \/ Pending(x)'
    PROVE  UpVisible'
  <1> SUFFICES ASSUME NEW x \in Durable, Known(x)', Fresh(x, now - HotWindow)
               PROVE  x \in index' \/ Pending(x)' \/ x \in panicked' \/ Missed(x)'
    BY Zenon DEF UpVisible, Fresh, Durable
  <1>1. CASE Known(x)
    <2>1. x \in index \/ Pending(x) \/ x \in panicked \/ Missed(x)
      BY Zenon, <1>1 DEF UpVisible
    <2>2. CASE Pending(x)
      <3>1. PICK q \in Handlers : req[q].pc = "project" /\ Current(q) = x
        BY Zenon, <2>2 DEF Pending
      <3>2. CASE q = p
        BY Zenon, <3>1, <3>2
      <3>3. CASE q # p
        <4>1. req'[q] = req[q]
          BY Zenon, <3>3
        <4> QED BY Zenon, <3>1, <4>1 DEF Pending, Current
      <3> QED BY Zenon, <3>2, <3>3
    <2> QED BY Zenon, <2>1, <2>2
  <1>2. CASE ~Known(x)
    <2>1. x \in acked' \cup Range(dedup') \/ \E q \in Handlers : x \in req'[q].new \cup req'[q].dup
      BY Zenon DEF Known
    <2>2. \A q \in Handlers \ {p} : x \notin req'[q].new \cup req'[q].dup
      BY Zenon, <1>2 DEF Known
    <2>3. x \in acked' \cup Range(dedup') \cup req'[p].new \cup req'[p].dup
      BY Zenon, <2>1, <2>2
    <2> QED BY Zenon, <1>2, <2>3 DEF Durable
  <1> QED BY Zenon, <1>1, <1>2

LEMMA StopVisible ==
    ASSUME Stop, now \in Nat
    PROVE  VisibleInv'
  <1>1. /\ proc' = "down" /\ dedup' = <<>> /\ now' = now
        /\ \A p \in Handlers : req'[p] = Idle
    BY Zenon DEF Stop
  <1>2. since' <= now - HotWindow
    BY Zenon, NotReplayingSince DEF Stop
  <1>3. proc' # "up" /\ proc' # "replay"
    BY <1>1
  <1> QED BY Zenon, <1>1, <1>2, <1>3 DEF VisibleInv

\* Every step of a handler keeps in sight what the process knows.
LEMMA HandlerKeepsVisible ==
    ASSUME TypeInv, VisibleInv, NEW p \in Handlers, HandlerStep(p)
    PROVE  VisibleInv'
  <1> USE DEF logVars, bootVars, memVars, scanVars, ghostVars, bounds
  <1>1. /\ req \in [Handlers -> Request] /\ dedup \in Seq(Events)
        /\ req[p].rest # <<>> => Current(p) \in Events
    BY Zenon, CurrentTyped DEF TypeInv, TypeOK
  <1>2. CASE CrashMidWrite(p)
    <2>1. Stop /\ now \in Nat
      BY Zenon, <1>2 DEF CrashMidWrite, TypeInv, TypeOK, LogTypeOK
    <2> QED BY Zenon, <2>1, StopVisible
  <1>3. CASE ~CrashMidWrite(p)
    <2>1. /\ proc = "up" /\ proc' = "up" /\ UpVisible /\ now' = now /\ expired' = expired
          /\ UNCHANGED since
      <3>1. proc = "up" /\ proc' = "up" /\ now' = now /\ expired' = expired /\ since' = since
        BY Zenon, <1>3 DEF HandlerStep, Receive, Cancelled, Reject, Duplicate, Commit,
           CommitFails,
           Project, ProjectPanics, Respond, HasEvent, Serving, WriteOk, WriteErr, WriteRejected,
           WriteTorn, WriteSyncFails, WriteNoRotate, WriteRotate, WriteCloseFails, WriteOpenFails
      <3> QED BY Zenon, <3>1 DEF VisibleInv
    <2> SUFFICES UpVisible'
      BY Zenon, <2>1 DEF VisibleInv
    <2>0. \A x \in Durable : Missed(x) => Missed(x)'
      BY Zenon, <2>1, MissedStep DEF Durable, Next
    <2> DEFINE Learns == \A x \in Events :
                   x \in acked' \cup Range(dedup') \cup req'[p].new \cup req'[p].dup =>
                       Known(x) \/ x \in index' \/ Pending(x)'
    <2>2. ASSUME NEW r, req' = [req EXCEPT ![p] = r]
          PROVE  req'[p] = r /\ \A q \in Handlers \ {p} : req'[q] = req[q]
      BY Zenon, <2>2, <1>1
    <2>3. ASSUME req[p].pc # "project", UNCHANGED <<index, panicked>>, NEW r,
                 req' = [req EXCEPT ![p] = r], Learns
          PROVE  UpVisible'
      BY Zenon, <2>0, <2>1, <2>2, <2>3, HandlerVisible
    <2>4. ASSUME UNCHANGED <<acked, dedup>>, NEW r, req' = [req EXCEPT ![p] = r],
                 \A x \in r.new \cup r.dup : Known(x)
          PROVE  Learns
      BY Zenon, <2>4, <2>2 DEF Known
    <2>5. Idle.new = {} /\ Idle.dup = {}
      BY Zenon DEF Idle
    <2> HIDE DEF Learns
    <2>6. CASE \E batch \in Batches : Receive(p, batch)
      <3>1. PICK batch \in Batches : Receive(p, batch)
        BY SMTT(30), <2>6
      <3> DEFINE r == [pc |-> "loop", rest |-> batch, new |-> {}, dup |-> {}]
      <3>2. /\ req[p].pc # "project" /\ UNCHANGED <<index, panicked>> /\ UNCHANGED <<acked, dedup>>
            /\ req' = [req EXCEPT ![p] = r]
        BY Zenon, <3>1 DEF Receive, Serving
      <3>3. r.new = {} /\ r.dup = {}
        BY Zenon
      <3> HIDE DEF r
      <3> QED BY Zenon, <3>2, <3>3, <2>3, <2>4
    <2>7. CASE Cancelled(p) \/ CommitFails(p)
      <3>1. /\ req[p].pc # "project" /\ UNCHANGED <<index, panicked>> /\ UNCHANGED <<acked, dedup>>
            /\ req' = [req EXCEPT ![p] = Idle]
        BY Zenon, <2>7 DEF Cancelled, CommitFails, HasEvent, Serving, Abort
      <3> QED BY Zenon, <3>1, <2>3, <2>4, <2>5
    <2>8. CASE Reject(p) \/ Duplicate(p)
      <3> DEFINE d == IF Reject(p) THEN {} ELSE {Current(p)}
                 r == [pc |-> "loop", rest |-> Tail(req[p].rest),
                       new |-> req[p].new \cup {}, dup |-> req[p].dup \cup d]
      <3>1. /\ req[p].pc # "project" /\ UNCHANGED <<index, panicked>> /\ UNCHANGED <<acked, dedup>>
            /\ req' = [req EXCEPT ![p] = r]
        BY Zenon, <2>8 DEF Reject, Duplicate, HasEvent, Serving, Advance
      <3>2. \A x \in d : Known(x)
        BY Zenon, <2>8 DEF Duplicate, Known
      <3>3. r.new = req[p].new /\ r.dup = req[p].dup \cup d
        BY Zenon
      <3> HIDE DEF r, d
      <3>4. \A x \in r.new \cup r.dup : Known(x)
        BY Zenon, <3>2, <3>3 DEF Known
      <3> QED BY Zenon, <3>1, <3>4, <2>3, <2>4
    <2>9. CASE Commit(p)
      <3> DEFINE r == [req[p] EXCEPT !.pc = "project"]
      <3>1. /\ req[p].pc # "project" /\ req[p].rest # <<>>
            /\ UNCHANGED <<index, panicked, acked>>
            /\ req' = [req EXCEPT ![p] = r] /\ dedup' = AddLocked(dedup, Current(p))
        BY Zenon, <2>9 DEF Commit, HasEvent, Serving
      <3>2. /\ r.new = req[p].new /\ r.dup = req[p].dup
            /\ r.pc = "project" /\ r.rest = req[p].rest
        BY Zenon, <1>1 DEF Request
      <3> HIDE DEF r
      <3>3. Range(dedup') \subseteq Range(dedup) \cup {Current(p)}
        BY Zenon, <1>1, <3>1, AddLockedSeq
      <3>4. req'[p] = r
        BY Zenon, <3>1, <2>2
      <3>5. ASSUME NEW x, x = Current(p)
            PROVE  Pending(x)'
        BY Zenon, <3>2, <3>4, <3>5 DEF Pending, Current
      <3>6. Learns
        BY Zenon, <3>1, <3>2, <3>3, <3>4, <3>5 DEF Learns, Known
      <3> QED BY Zenon, <3>1, <3>6, <2>3
    <2>10. CASE Project(p)
      <3> DEFINE r == [pc |-> "loop", rest |-> Tail(req[p].rest),
                       new |-> req[p].new \cup {Current(p)}, dup |-> req[p].dup \cup {}]
      <3>1. /\ index' = index \cup {Current(p)} /\ UNCHANGED <<acked, dedup, panicked>>
            /\ req' = [req EXCEPT ![p] = r]
        BY Zenon, <2>10 DEF Project, Advance
      <3>2. r.new = req[p].new \cup {Current(p)} /\ r.dup = req[p].dup
        BY Zenon
      <3> HIDE DEF r
      <3>3. req'[p] = r /\ \A q \in Handlers \ {p} : req'[q] = req[q]
        BY Zenon, <3>1, <2>2
      <3>4. Learns
        BY Zenon, <3>1, <3>2, <3>3 DEF Learns, Known
      <3> QED BY Zenon, <3>1, <3>3, <3>4, <2>0, <2>1, HandlerVisible DEF Learns
    <2>11. CASE Respond(p)
      <3>1. /\ req[p].pc # "project" /\ UNCHANGED <<dedup, index, panicked>>
            /\ acked' = acked \cup req[p].new \cup req[p].dup
            /\ req' = [req EXCEPT ![p] = Idle]
        BY Zenon, <2>11 DEF Respond, Serving, Abort
      <3>2. req'[p] = Idle
        BY Zenon, <3>1, <2>2
      <3>3. Learns
        BY Zenon, <3>1, <3>2, <2>5 DEF Learns, Known
      <3> QED BY Zenon, <3>1, <3>3, <2>3
    <2>12. CASE ProjectPanics(p)
      <3>1. /\ UNCHANGED <<index, acked>> /\ panicked' = panicked \cup {Current(p)}
            /\ dedup' = Without(dedup, Current(p))
            /\ req' = [req EXCEPT ![p] = Idle]
        BY Zenon, <2>12 DEF ProjectPanics, Abort
      <3>2. Range(dedup') \subseteq Range(dedup)
        BY Zenon, <1>1, <3>1, WithoutSeq
      <3>3. req'[p] = Idle /\ \A q \in Handlers \ {p} : req'[q] = req[q]
        BY Zenon, <3>1, <2>2
      <3>4. Learns
        BY Zenon, <3>1, <3>2, <3>3, <2>5 DEF Learns, Known
      <3> QED BY Zenon, <3>1, <3>3, <3>4, <2>0, <2>1, HandlerVisible DEF Learns
    <2> QED
      BY Zenon, <1>3, <2>6, <2>7, <2>8, <2>9, <2>10, <2>11, <2>12 DEF HandlerStep
  <1> QED BY Zenon, <1>2, <1>3

\* Replay, line by line.
LEMMA ReplayKeepsVisible ==
    ASSUME TypeInv, LogInv, VisibleInv, SkipFile \/ ReplayLine
    PROVE  VisibleInv'
  <1> USE DEF logVars, bootVars, memVars, scanVars, ghostVars, bounds
  <1>1. /\ proc = "replay" /\ proc' = "replay" /\ ReplayVisible
        /\ UNCHANGED <<now, files, active, acked, expired, since, req>>
    BY Zenon DEF SkipFile, ReplayLine, VisibleInv
  <1>2. \A p \in Handlers : req'[p] = Idle
    BY Zenon, <1>1 DEF VisibleInv
  <1> SUFFICES ReplayVisible'
    BY Zenon, <1>1, <1>2 DEF VisibleInv
  <1>3. /\ cursor \in (Nat \ {0}) \X (Nat \ {0}) /\ dedup \in Seq(Events)
        /\ acked \subseteq Events /\ since \in Int
    BY Zenon DEF TypeInv, TypeOK
  <1> DEFINE file == files[cursor[1]]
             all == FileLines(file)
             line == all[cursor[2]]
             kept == line # Garbage /\ Fresh(line, since)
  <1>4. ASSUME NEW k \in DOMAIN files
        PROVE  /\ k \in Nat \ {0} /\ files[k] \in File
               /\ DOMAIN FileLines(files[k]) = 1 .. Len(FileLines(files[k]))
               /\ Len(FileLines(files[k])) \in Nat
    <2>1. files[k] \in File /\ k \in 1 .. Len(files)
      BY Zenon, ExtendedSelf, LenProperties DEF LogInv, LogTypeOK
    <2>2. FileLines(files[k]) \in Seq(Line)
      BY <2>1 DEF FileLines, File
    <2> QED BY <2>1, <2>2, LenProperties
  <1>5. ASSUME NEW x \in acked \cap Durable, Fresh(x, since), x \notin index, ~Missed(x)
        PROVE  \/ Ahead(x)'
               \/ ReplayLine /\ x = line /\ kept
    <2>1. PICK k \in DOMAIN files :
             /\ ~files[k].gone /\ k >= cursor[1]
             /\ \E j \in DOMAIN FileLines(files[k]) :
                   FileLines(files[k])[j] = x /\ (k = cursor[1] => j >= cursor[2])
      BY Zenon, <1>1, <1>5 DEF ReplayVisible, Ahead
    <2>2. PICK j \in DOMAIN FileLines(files[k]) :
             FileLines(files[k])[j] = x /\ (k = cursor[1] => j >= cursor[2])
      BY Zenon, <2>1
    <2>3. k \in Nat /\ j \in Nat /\ 1 <= j /\ j <= Len(FileLines(files[k])) /\ x \in Events
      BY <1>3, <1>4, <2>2
    <2>4. ASSUME k >= cursor'[1], k = cursor'[1] => j >= cursor'[2]
          PROVE  Ahead(x)'
      BY Zenon, <1>1, <2>1, <2>2, <2>4 DEF Ahead
    <2>5. CASE k # cursor[1]
      <3>1. k >= cursor[1] + 1
        BY <1>3, <2>1, <2>3, <2>5
      <3>2. CASE SkipFile
        <4>1. cursor' = <<cursor[1] + 1, 1>>
          BY Zenon, <3>2 DEF SkipFile
        <4> QED BY Zenon, <4>1, <3>1, <2>3, <2>4
      <3>3. CASE ReplayLine
        <4>1. cursor'[1] = cursor[1]
          BY Zenon, <3>3 DEF ReplayLine
        <4> QED BY Zenon, <4>1, <2>1, <2>4, <2>5
      <3> QED BY Zenon, <3>2, <3>3
    <2>6. CASE k = cursor[1]
      <3>1. Replayable(files[k]) /\ ~(cursor[2] > Len(FileLines(files[k])))
        <4>1. files[k].mtime \in Nat
          BY Zenon, <1>4 DEF File
        <4>2. ~(Ts[x] > files[k].mtime + RotationSlack)
          <5>1. Holds(k, x)
            BY Zenon, <2>1, <2>2 DEF Range, Holds
          <5>2. ASSUME k = active PROVE FALSE
            <6>1. FileLines(files[k]) = <<>>
              BY Zenon, <1>1, <1>4, <5>2, <2>3 DEF ReplayVisible
            <6> QED BY <6>1, <2>3
          <5> QED BY Zenon, <1>5, <5>1, <5>2 DEF Missed
        <4>3. ~(Ts[x] < since) /\ Ts[x] \in Nat
          BY Zenon, <1>5, <2>3, TsAssumption DEF Fresh
        <4>4. ~(files[k].mtime < since - RotationSlack)
          BY <1>3, <4>1, <4>2, <4>3, SlackAssumption
        <4>5. cursor[2] <= Len(FileLines(files[k])) /\ cursor[2] \in Nat
          BY <1>3, <1>4, <2>2, <2>3, <2>6
        <4> QED BY <1>4, <2>1, <4>4, <4>5 DEF Replayable
      <3>2. ReplayLine
        BY Zenon, <3>1, <2>6 DEF SkipFile, ReplayFile
      <3>3. cursor' = <<cursor[1], cursor[2] + 1>>
        BY Zenon, <3>2 DEF ReplayLine
      <3>4. CASE j = cursor[2]
        BY Zenon, <3>2, <3>4, <2>2, <2>3, <2>6, <1>5, GarbageAssumption
      <3>5. CASE j # cursor[2]
        <4>1. j >= cursor[2] + 1
          BY <1>3, <2>2, <2>3, <2>6, <3>5
        <4> QED BY Zenon, <4>1, <3>3, <2>1, <2>4
      <3> QED BY Zenon, <3>4, <3>5
    <2> QED BY Zenon, <2>5, <2>6
  <1>8. \A x : Missed(x) => Missed(x)'
    BY Zenon, <1>1 DEF Missed, Holds
  <1>6. CASE SkipFile
    <2>1. cursor'[1] = cursor[1] + 1 /\ UNCHANGED <<dedup, index>>
      BY Zenon, <1>6 DEF SkipFile
    <2>2. ~ReplayLine
      BY <1>3, <2>1 DEF ReplayLine
    <2> QED BY Zenon, <1>1, <1>5, <1>8, <2>1, <2>2 DEF ReplayVisible, Fresh, Durable
  <1>7. CASE ReplayLine
    <2>1. /\ dedup' = IF kept THEN AddLocked(dedup, line) ELSE dedup
          /\ index' = IF kept THEN index \cup {line} ELSE index
      BY Zenon, <1>7 DEF ReplayLine, ReplayFile
    <2>2. line # Garbage => line \in Events
      BY Zenon, <1>3, <1>7, ReplayedLine DEF OnDisk, ReplayFile, LogInv
    <2> HIDE DEF line
    <2>3. Range(dedup') \subseteq index'
      BY Zenon, <1>1, <1>3, <2>1, <2>2, AddLockedSeq DEF ReplayVisible
    <2> QED BY Zenon, <1>1, <1>5, <1>8, <2>1, <2>3 DEF ReplayVisible, Durable
  <1> QED BY Zenon, <1>6, <1>7

\* The end of replay: nothing is ahead of the cursor, so everything is shown.
LEMMA ServeVisible ==
    ASSUME TypeInv, VisibleInv, Serve
    PROVE  VisibleInv'
  <1> USE DEF logVars, bootVars, memVars, scanVars, ghostVars, bounds
  <1>1. /\ proc' = "up" /\ ReplayVisible /\ cursor[1] > Len(files)
        /\ UNCHANGED <<now, files, active, acked, expired, dedup, index, req>>
        /\ \A p \in Handlers : req[p] = Idle
    BY Zenon DEF Serve, VisibleInv
  <1>2. /\ now \in Nat /\ since \in Int /\ HotWindow \in Nat /\ cursor[1] \in Nat
        /\ DOMAIN files = 1 .. Len(files) /\ Len(files) \in Nat
    BY Zenon, LenProperties, WindowAssumption DEF TypeInv, TypeOK, LogTypeOK
  <1>3. ASSUME NEW x PROVE ~Ahead(x)
    BY <1>1, <1>2 DEF Ahead
  <1>4. ASSUME NEW x \in Durable, Known(x), Fresh(x, now - HotWindow)
        PROVE  x \in index \/ Missed(x)
    <2>1. x \in acked \cup Range(dedup)
      <3>1. Idle.new = {} /\ Idle.dup = {}
        BY Zenon DEF Idle
      <3> QED BY Zenon, <1>1, <1>4, <3>1 DEF Known
    <2>2. Ts[x] \in Nat
      BY Zenon, TsAssumption DEF Durable
    <2>3. Fresh(x, since)
      BY <1>2, <1>4, <2>2 DEF Fresh, VisibleInv
    <2> QED BY Zenon, <1>1, <1>3, <2>1, <2>3 DEF ReplayVisible
  <1>5. UpVisible'
    BY Zenon, <1>1, <1>4 DEF UpVisible, Known, Durable, Missed, Holds
  <1>6. since' <= now - HotWindow
    BY Zenon, <1>2, NotReplayingSince DEF Serve
  <1> QED BY Zenon, <1>1, <1>5, <1>6 DEF VisibleInv

\* Boot: replay starts at the first line of a log that holds what was acked.
LEMMA BootVisible ==
    ASSUME TypeInv, LogInv, ProcessInv, VisibleInv, Boot
    PROVE  VisibleInv'
  <1> USE DEF memVars, ghostVars
  <1>1. /\ proc' = "replay" /\ cursor' = <<1, 1>> /\ OpenLog /\ now' = now
        /\ since' = now - HotWindow
        /\ UNCHANGED <<dedup, index, req, acked, expired>>
        /\ dedup = <<>> /\ \A p \in Handlers : req[p] = Idle
    BY Zenon DEF Boot, VisibleInv
  <1>2. LogKeeps
    BY Zenon, <1>1, OpenKeeps
  <1>3. ASSUME NEW x \in acked \cap Durable
        PROVE  Ahead(x)'
    <2>1. x \in Events /\ x \in OnDisk
      BY Zenon, <1>3 DEF ProcessInv, Logged, Durable
    <2>2. PICK k \in DOMAIN files' : ~files'[k].gone /\ x \in Range(FileLines(files'[k]))
      BY Zenon, <1>2, <2>1 DEF LogKeeps, OnDisk
    <2>3. files'[k] \in File /\ k \in Nat /\ k >= 1
      <3>1. files' \in Seq(File)
        BY Zenon, <1>2 DEF LogKeeps, LogInv, LogTypeOK
      <3> QED BY <3>1, LenProperties, ElementOfSeq
    <2>4. FileLines(files'[k]) \in Seq(Line)
      BY <2>3 DEF FileLines, File
    <2>5. PICK j \in DOMAIN FileLines(files'[k]) : FileLines(files'[k])[j] = x
      BY Zenon, <2>2 DEF Range
    <2>6. j \in Nat /\ j >= 1
      BY <2>4, LenProperties
    <2> QED BY Zenon, <1>1, <2>2, <2>3, <2>5, <2>6 DEF Ahead
  <1>4. Range(dedup') = {}
    BY <1>1 DEF Range
  <1>5. FileLines(files'[active']) = <<>>
    <2>1. /\ files \in Seq(File) /\ Len(files) \in Nat /\ EmptyFile \in File
          /\ FileLines(EmptyFile) = <<>>
      BY LenProperties, EmptyIsFile DEF LogInv, LogTypeOK, FileLines
    <2>2. files' = Append(files, EmptyFile) /\ active' = Len(files) + 1
      BY Zenon, <1>1 DEF OpenLog
    <2>3. files'[active'] = EmptyFile
      BY <2>1, <2>2
    <2> QED BY Zenon, <2>1, <2>3
  <1>6. ReplayVisible'
    BY Zenon, <1>1, <1>3, <1>4, <1>5 DEF ReplayVisible, Durable
  <1>7. now - HotWindow <= now - HotWindow
    BY WindowAssumption DEF TypeInv, TypeOK, LogTypeOK
  <1> QED BY Zenon, <1>1, <1>6, <1>7 DEF VisibleInv

\* Pruning the index and the passing of time hide only what is too old.
LEMMA AgeVisible ==
    ASSUME TypeInv, ScanInv, VisibleInv,
           PruneIndex \/ Tick \/ RetainStart \/ Retain \/ CloseWriter \/ UNCHANGED vars
    PROVE  VisibleInv'
  <1> USE DEF logVars, bootVars, memVars, scanVars, ghostVars, bounds
  <1>1. now \in Nat /\ now' \in Nat /\ now' >= now /\ HotWindow \in Nat
    BY WindowAssumption
       DEF PruneIndex, Tick, RetainStart, Retain, PruneLog, CloseWriter, CloseLog, vars,
           TypeInv, TypeOK, LogTypeOK
  <1>2. /\ UNCHANGED <<proc, since, cursor, dedup, req, acked, panicked>>
        /\ expired \subseteq expired'
        /\ proc = "up" \/ UNCHANGED <<files, active, index, expired>>
    BY Zenon DEF PruneIndex, Tick, RetainStart, Retain, PruneLog, CloseWriter, CloseLog, vars,
                 ScanInv
  <1>3. \A x \in index : x \in index' \/ ~Fresh(x, now - HotWindow)
    BY Zenon DEF PruneIndex, Tick, RetainStart, Retain, CloseWriter, vars
  <1>4. ASSUME NEW x \in Events, Fresh(x, now' - HotWindow)
        PROVE  Fresh(x, now - HotWindow)
    <2>1. Ts[x] \in Nat
      BY Zenon, TsAssumption
    <2> QED BY <1>1, <1>4, <2>1 DEF Fresh
  <1>7. since' <= now' - HotWindow
    <2>1. since <= now - HotWindow /\ since \in Int /\ since' = since
      BY Zenon, <1>2 DEF VisibleInv, TypeInv, TypeOK
    <2>2. \A a \in Int : \A b, c, h \in Nat : a <= b - h /\ c >= b => a <= c - h
      OBVIOUS
    <2> QED BY Zenon, <1>1, <2>1, <2>2
  <1>5. CASE proc = "up"
    <2>1. UpVisible
      BY Zenon, <1>5 DEF VisibleInv
    <2>2. ASSUME NEW x
          PROVE  (Known(x)' <=> Known(x)) /\ (Pending(x)' <=> Pending(x))
      BY Zenon, <1>2 DEF Known, Pending, Current
    <2>3. UpVisible'
      <3> SUFFICES ASSUME NEW x \in Durable', Known(x), Fresh(x, now' - HotWindow)
                   PROVE  x \in index' \/ Pending(x) \/ x \in panicked \/ Missed(x)'
        BY Zenon, <1>2, <2>2 DEF UpVisible, Fresh
      <3>1. Fresh(x, now - HotWindow) /\ x \in Durable /\ x \in Events
        BY Zenon, <1>2, <1>4 DEF Durable
      <3>2. Missed(x) => Missed(x)'
        BY Zenon, <1>2, <1>5, <3>1, MissedStep DEF Durable, Next
      <3> QED BY Zenon, <1>3, <2>1, <3>1, <3>2 DEF UpVisible
    <2> QED BY Zenon, <1>2, <1>5, <1>7, <2>3 DEF VisibleInv
  <1>6. CASE proc # "up"
    <2>1. UNCHANGED <<proc, since, cursor, dedup, req, acked, files, active, index, expired>>
      BY Zenon, <1>2, <1>6
    <2>2. ReplayVisible => ReplayVisible'
      BY Zenon, <2>1 DEF ReplayVisible, Ahead, Fresh, Missed, Holds, Durable
    <2> QED BY Zenon, <1>6, <1>7, <2>1, <2>2 DEF VisibleInv
  <1> QED BY Zenon, <1>5, <1>6

\* Every step of the ingest path does.
LEMMA VisibleStep ==
    ASSUME TypeInv, LogInv, ScanInv, ProcessInv, VisibleInv, [Next]_vars
    PROVE  VisibleInv'
  <1>1. CASE Crash \/ ReplayFails
    <2>1. Stop /\ now \in Nat
      BY Zenon, <1>1 DEF Crash, ReplayFails, TypeInv, TypeOK, LogTypeOK
    <2> QED BY Zenon, <2>1, StopVisible
  <1> QED
    BY Zenon, <1>1, HandlerKeepsVisible, ReplayKeepsVisible, ServeVisible,
       BootVisible, AgeVisible
       DEF Next

-----------------------------------------------------------------------------
\* AckedVisible of module Ingest: while the server is up, an acknowledged event
\* of the hot window is in the index or about to be projected, after any crash,
\* restart, rotation and pruning, unless its projection panicked in this
\* process or ReplayWAL cannot load it (its body had several lines, retention
\* deleted it, or its time is too far ahead); for write errors that leave no
\* partial line and no power loss.
THEOREM AckedVisibleCorrect ==
    ASSUME "torn" \notin Faults, ~PowerLoss
    PROVE  Spec => []AckedVisible
  <1> DEFINE Inv == TypeInv /\ LogInv /\ ScanInv /\ ProcessInv /\ VisibleInv
  <1>1. Init => Inv
    <2> SUFFICES ASSUME Init PROVE Inv
      BY Zenon
    <2>1. TypeInv /\ LogInv /\ ScanInv
      BY Zenon, TypeInit, LogInvInit, ScanInit
    <2>2. ProcessInv
      BY DEF Init, ProcessInv, Idle, Range
    <2>3. UpVisible
      BY DEF Init, UpVisible, Known, Idle, Range
    <2>4. since <= now - HotWindow
      BY WindowAssumption DEF Init
    <2>5. VisibleInv
      BY <2>3, <2>4 DEF Init, VisibleInv
    <2> QED BY Zenon, <2>1, <2>2, <2>5
  <1>2. Inv /\ [Next]_vars => Inv'
    BY Zenon, TypeStep, NothingLost, ScanStep, ProcessStep, VisibleStep
  <1>3. Inv => AckedVisible
    <2> SUFFICES ASSUME Inv, proc = "up", NEW x \in acked, Fresh(x, now - HotWindow),
                        ~Unreplayable(x)
                 PROVE  x \in index \/ Pending(x) \/ x \in panicked
      BY Zenon DEF AckedVisible
    <2>1. x \in Durable /\ ~Missed(x)
      BY Zenon DEF TypeInv, TypeOK, Durable, Unreplayable, ClockAhead, Missed
    <2> QED BY Zenon, <2>1 DEF VisibleInv, UpVisible, Known
  <1> QED
    BY <1>1, <1>2, <1>3, PTL DEF Spec
=============================================================================
