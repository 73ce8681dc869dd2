------------------------------ MODULE SessionFiles -------------------------------
(***************************************************************************)
(* Opening the session database (session_store.rs SessionStore::open): the *)
(* schema version is read from the files before SQLite touches them, once  *)
(* before and once after the owner lock, and again through SQLite.  Two    *)
(* processes, of builds with different schema versions, open the same path *)
(* whose last writer may have died in a transaction.                       *)
(* At the end, a machine of its own: the publication of a backup.          *)
(***************************************************************************)
EXTENDS Maps, FiniteSets

CONSTANTS Openers,        \* the processes; Supports[p] is the version p knows
          Supports,
          MaxFrames

VARIABLES main,      \* page one of the file; None: no file
          wal,       \* the frames after the last checkpoint
          rollback,  \* the rollback journal: is it hot, did it begin without a page, its records
          lock,      \* the process that holds the owner lock
          at,        \* process -> where its open is
          mode       \* "Wal" or "Delete": how the database is kept

openVars == <<main, wal, rollback, lock, at, mode>>

Versions == {0} \cup {Supports[p] : p \in Openers}
\* A page one: its schema version, and whether the database it heads is one that
\* open accepts (version 0: no schema objects; else the schema, integrity and
\* persisted values hold).  A file of no bytes at all has no page one.  A header
\* that does not decode is refused by both readers and left out.
PageOne == [version : Versions, fit : BOOLEAN, empty : {FALSE}]
EmptyFile == [version |-> 0, fit |-> TRUE, empty |-> TRUE]
\* A frame: is it of this WAL and undamaged, is it page one, does it end a transaction.
Frame == {f \in [good : BOOLEAN, header : {None} \cup {Some(h) : h \in PageOne}, commit : BOOLEAN] :
            f.good \/ (f.header = None /\ ~f.commit)}
\* A rollback journal's records, in order; a bad record ends it.  One of a page
\* beyond the original size counts no more than one of another page.
Record == {f \in [good : BOOLEAN, header : {None} \cup {Some(h) : h \in PageOne}] : f.good \/ f.header = None}
Cold == [hot |-> FALSE, new |-> FALSE, records |-> << >>]

\* Mutant: a header counts before its transaction is committed.
UncommittedCounted(frames, header) ==
  LET heads == {i \in DOMAIN frames : (\A j \in 1..i : frames[j].good) /\ Is(frames[i].header)}
  IN IF heads = {} THEN header ELSE frames[CHOOSE i \in heads : \A j \in heads : j <= i].header
\* inspect_wal_database_header: one pass over the frames, keeping the last
\* header seen and the last header committed.
ScanWal(frames, header) ==
  LET scan[i \in 0..Len(frames)] ==
        IF i = 0 THEN [pending |-> header, committed |-> header, live |-> TRUE]
        ELSE LET s == scan[i - 1]  f == frames[i]
                 pending == IF Is(f.header) THEN f.header ELSE s.pending
             IN IF ~s.live \/ ~f.good THEN [pending |-> s.pending, committed |-> s.committed, live |-> FALSE]
                ELSE [pending |-> pending, committed |-> IF f.commit THEN pending ELSE s.committed, live |-> TRUE]
  IN scan
inspect_wal_database_header(frames, header) == ScanWal(frames, header)[Len(frames)].committed
\* inspect_rollback_journal: the last good page one before a bad record.
ScanRollback(records) ==
  LET scan[i \in 0..Len(records)] ==
        IF i = 0 THEN [page |-> None, live |-> TRUE]
        ELSE LET s == scan[i - 1]  f == records[i]
             IN IF ~s.live \/ ~f.good THEN [page |-> s.page, live |-> FALSE]
                ELSE [page |-> IF Is(f.header) THEN f.header ELSE s.page, live |-> TRUE]
  IN scan
inspect_rollback_journal(records) == ScanRollback(records)[Len(records)].page
\* A journal whose transaction began without a page leaves no database at all.
inspect_persisted_user_version ==
  IF The(main).empty \/ (rollback.hot /\ rollback.new) THEN 0
  ELSE LET undone == inspect_rollback_journal(rollback.records)
           header == IF Is(undone) THEN undone ELSE main
       IN The(inspect_wal_database_header(wal, header)).version

\* What SQLite's own recovery makes of the same files: the journal is rolled
\* back, and the WAL counts up to its last commit before the first bad frame.
ValidFrames(frames) == {i \in DOMAIN frames : \A j \in 1..i : frames[j].good}
CommittedFrames(frames) == {i \in ValidFrames(frames) : \E j \in ValidFrames(frames) : j >= i /\ frames[j].commit}
recovered ==
  LET records == rollback.records
      goodRecords == {i \in DOMAIN records : (\A j \in 1..i : records[j].good) /\ Is(records[i].header)}
      pages == {i \in CommittedFrames(wal) : Is(wal[i].header)}
      Last(S) == CHOOSE i \in S : \A j \in S : j <= i
  IN IF The(main).empty \/ (rollback.hot /\ rollback.new) THEN EmptyFile
     ELSE IF pages # {} THEN The(wal[Last(pages)].header)
     ELSE IF goodRecords # {} THEN The(records[Last(goodRecords)].header)
     ELSE The(main)

\* What a last writer may have left, killed in the middle of creating the
\* database too: any file, with a WAL or a hot journal beside it.
SeqsUpTo(S, n) == UNION {[1..k -> S] : k \in 0..n}
OpenInit ==
  /\ main \in {None, Some(EmptyFile)} \cup {Some(h) : h \in PageOne}
  /\ mode \in {"Wal", "Delete"}
  /\ wal \in (IF mode = "Wal" THEN SeqsUpTo(Frame, MaxFrames) ELSE {<< >>})
  /\ rollback \in {Cold} \cup (IF mode = "Delete" THEN [hot : {TRUE}, new : BOOLEAN, records : SeqsUpTo(Record, MaxFrames)] ELSE {})
  /\ lock = None
  /\ at = [p \in Openers |-> "start"]

Refuse(p) == at' = [at EXCEPT ![p] = "refused"] /\ UNCHANGED <<main, wal, rollback, mode>>
Supported(p, v) == v \in {0, Supports[p]}
OpenGo(p, where) == at' = [at EXCEPT ![p] = where]
\* validate_database_artifacts: sidecars of a file that is not there or empty.
HasPages == main # None /\ ~The(main).empty
Orphans == ~HasPages /\ (wal # << >> \/ rollback.hot)
Foreign(p) == main # None /\ ~Supported(p, inspect_persisted_user_version)

Preflight(p) ==
  /\ at[p] = "start"
  /\ IF Orphans \/ Foreign(p)
     THEN Refuse(p)
     ELSE OpenGo(p, "lock") /\ UNCHANGED <<main, wal, rollback, mode>>
  /\ UNCHANGED lock
acquire_session_owner_lock(p) ==
  /\ at[p] = "lock"
  /\ IF lock = None THEN lock' = Some(p) /\ OpenGo(p, "prepare") ELSE lock' = lock /\ at' = [at EXCEPT ![p] = "refused"]
  /\ UNCHANGED <<main, wal, rollback, mode>>
\* Mutant: the files are not looked at again under the lock.
PrepareTrusting(p) ==
  /\ at[p] = "prepare" /\ OpenGo(p, "connect")
  /\ main' = IF main = None THEN Some(EmptyFile) ELSE main
  /\ UNCHANGED <<wal, rollback, mode, lock>>
\* prepare_database_path creates the file, an existing one is inspected again.
prepare_database_path(p) ==
  /\ at[p] = "prepare"
  /\ \/ (Orphans \/ Foreign(p)) /\ Refuse(p) /\ lock' = None
     \/ /\ ~Orphans /\ ~Foreign(p) /\ OpenGo(p, "connect")
        /\ main' = IF main = None THEN Some(EmptyFile) ELSE main
        /\ UNCHANGED <<wal, rollback, mode, lock>>
\* SQLite recovers the files as it reads the version; a database with objects
\* and no version, or of this version and not valid, is refused after that; a new
\* one gets this build's schema.  The journal mode follows the pragmas.
Current(p) == [version |-> Supports[p], fit |-> TRUE, empty |-> FALSE]
Connect(p) ==
  /\ at[p] = "connect"
  /\ wal' = << >> /\ rollback' = Cold
  /\ IF Supported(p, recovered.version) /\ recovered.fit
     THEN main' = Some(Current(p)) /\ mode' \in {"Wal", "Delete"} /\ OpenGo(p, "open") /\ UNCHANGED lock
     ELSE main' = Some(recovered) /\ lock' = None /\ OpenGo(p, "refused") /\ UNCHANGED mode
\* The process is killed while it creates the database: with the journal of the
\* first transaction beside what it wrote, or with the schema in the WAL.
CreationDies(p) ==
  /\ at[p] = "connect" /\ recovered.version = 0 /\ recovered.fit
  /\ OpenGo(p, "dead") /\ lock' = None
  /\ \/ /\ main' \in {Some(EmptyFile), Some([Current(p) EXCEPT !.version = 0]), Some(Current(p))}
        /\ rollback' = [hot |-> TRUE, new |-> TRUE, records |-> << >>] /\ wal' = << >> /\ mode' = "Delete"
     \/ /\ main' = Some([Current(p) EXCEPT !.version = 0])
        /\ \E done \in BOOLEAN : wal' = <<[good |-> TRUE, header |-> Some(Current(p)), commit |-> done]>>
        /\ rollback' = Cold /\ mode' = "Wal"
CloseStore(p) ==
  /\ at[p] = "open"
  /\ OpenGo(p, "closed") /\ lock' = None
  /\ UNCHANGED <<main, wal, rollback, mode>>

OpenNext == \E p \in Openers :
  \/ Preflight(p) \/ acquire_session_owner_lock(p) \/ prepare_database_path(p)
  \/ Connect(p) \/ CreationDies(p) \/ CloseStore(p)

---------------------------------------------------------------------------------
\* The version read from the files is the version SQLite will find after it
\* has recovered them, whatever the last writer left: a WAL cut in the middle
\* of a transaction, damaged frames, a hot rollback journal, a database that was
\* being created.
PreflightAgrees == main # None => inspect_persisted_user_version = recovered.version
\* The files of a database that has a version are written only by a build of that
\* version, and keep it, even when the other build creates them between this
\* one's first look and its lock: opening a database already recovers, and so
\* rewrites, its files.  (One with objects and no version is rewritten so.)
ForeignUntouched ==
  [][main # None /\ recovered.version # 0 =>
       \/ UNCHANGED <<main, wal, rollback>>
       \/ \E p \in Openers : at[p] = "connect" /\ Supports[p] = recovered.version /\ recovered'.version = recovered.version]_openVars
\* Two processes never have the session open together.
OneOpener == Cardinality({p \in Openers : at[p] = "open"}) <= 1

---------------------------------------------------------------------------------
(***************************************************************************)
(* A backup of the session database (session_store.rs backup_connection_to *)
(* and reconcile_backup_publication): copied to a temporary file, checked, *)
(* synced, linked to its destination without replacing anything, and the   *)
(* temporary name removed.  The process may die between any two steps; the *)
(* machine may also lose what was not synced.  Names are kept as the disk  *)
(* holds them and as the running system sees them.                         *)
(***************************************************************************)
CONSTANTS Files,        \* the files backups are written to, one per attempt
          MaxFailures

VARIABLES seen,      \* the directory as the system sees it: [dest, temps]
          durable,   \* the directory as the disk holds it
          body,      \* file -> "absent", "partial", "whole" as seen
          synced,    \* the files whose content is on the disk
          step,      \* what the backup does next, "idle" when none runs
          temp,      \* the file of the running backup
          acked,     \* a backup was reported as written
          failures

backupVars == <<seen, durable, body, synced, step, temp, acked, failures>>

NoNames == [dest |-> None, temps |-> {}]
BackupInit ==
  /\ seen = NoNames /\ durable = NoNames
  /\ body = [f \in Files |-> "absent"] /\ synced = {}
  /\ step = "idle" /\ temp = None /\ acked = FALSE /\ failures = 0

\* The names of a file: its destination name and its temporary names.
Links(names, f) == Cardinality(names.temps \cap {f}) + (IF names.dest = Some(f) THEN 1 ELSE 0)
validate_backup_database(f) == body[f] = "whole"

BackupGo(next) == step' = next /\ UNCHANGED <<temp, acked, failures>>
SyncDirectory == durable' = seen
Report(ok) == step' = "idle" /\ temp' = None /\ acked' = (acked \/ ok) /\ UNCHANGED failures

\* reconcile_backup_publication with a destination: every candidate must be
\* another name of it, and the extra names go.
ReconcilePublished ==
  /\ step = "idle" /\ seen.temps # {} /\ Is(seen.dest)
  /\ seen.temps = {The(seen.dest)} /\ Links(seen, The(seen.dest)) = 2
  /\ validate_backup_database(The(seen.dest))
  /\ seen' = [seen EXCEPT !.temps = {}] /\ step' = "sync_reconciled"
  /\ UNCHANGED <<durable, body, synced, temp, acked, failures>>
SyncReconciled ==
  /\ step = "sync_reconciled" /\ SyncDirectory /\ BackupGo("idle")
  /\ UNCHANGED <<seen, body, synced>>
\* ... and without one: the only candidate, if it is whole, is published.
ReconcileCandidate ==
  /\ step = "idle" /\ Cardinality(seen.temps) = 1 /\ ~Is(seen.dest)
  /\ \E f \in seen.temps : validate_backup_database(f) /\ temp' = Some(f)
  /\ step' = "link"
  /\ UNCHANGED <<seen, durable, body, synced, acked, failures>>
\* backup_connection_to: nothing to reconcile and no destination yet.
CreateTemporary ==
  /\ step = "idle" /\ seen.temps = {} /\ ~Is(seen.dest)
  /\ \E f \in {g \in Files : body[g] = "absent"} :
       /\ body' = [body EXCEPT ![f] = "partial"]
       /\ seen' = [seen EXCEPT !.temps = {f}]
       /\ temp' = Some(f)
  /\ step' = "copy"
  /\ UNCHANGED <<durable, synced, acked, failures>>
\* SQLite's backup ends with a commit of the destination, synced by SQLite.
CopyDatabase ==
  /\ step = "copy" /\ body' = [body EXCEPT ![The(temp)] = "whole"] /\ BackupGo("sync")
  /\ synced' = synced \cup {The(temp)}
  /\ UNCHANGED <<seen, durable>>
SyncFile ==
  /\ step = "sync" /\ validate_backup_database(The(temp))
  /\ synced' = synced \cup {The(temp)} /\ BackupGo("link")
  /\ UNCHANGED <<seen, durable, body>>
\* publish_no_replace: a hard link, or a rename where links are not available.
Link ==
  /\ step = "link" /\ ~Is(seen.dest)
  /\ \/ seen' = [seen EXCEPT !.dest = temp] /\ BackupGo("sync_link")
     \/ seen' = [dest |-> temp, temps |-> {}] /\ BackupGo("sync_rename")
  /\ UNCHANGED <<durable, body, synced>>
SyncLink ==
  /\ step = "sync_link" /\ SyncDirectory /\ BackupGo("unlink")
  /\ UNCHANGED <<seen, body, synced>>
SyncRename ==
  /\ step = "sync_rename" /\ SyncDirectory /\ Report(TRUE)
  /\ UNCHANGED <<seen, body, synced>>
remove_backup_publication_candidates ==
  /\ step = "unlink" /\ seen.temps = {The(seen.dest)} /\ Links(seen, The(seen.dest)) = 2
  /\ seen' = [seen EXCEPT !.temps = {}] /\ BackupGo("sync_unlink")
  /\ UNCHANGED <<durable, body, synced>>
SyncUnlink ==
  /\ step = "sync_unlink" /\ SyncDirectory /\ Report(TRUE)
  /\ UNCHANGED <<seen, body, synced>>
\* The copy, its check or a sync fails: the temporary name is removed
\* (remove_backup_temporary) and the error reported.
BackupFails ==
  /\ step \in {"copy", "sync"} /\ failures < MaxFailures /\ failures' = failures + 1
  /\ seen' = [seen EXCEPT !.temps = {}]
  /\ step' = "idle" /\ temp' = None
  /\ UNCHANGED <<durable, body, synced, acked>>
\* The process dies; the system keeps running.
BackupDies ==
  /\ step # "idle" /\ failures < MaxFailures /\ failures' = failures + 1
  /\ step' = "idle" /\ temp' = None
  /\ UNCHANGED <<seen, durable, body, synced, acked>>
\* The machine stops: any of the unsynced name changes may be on the disk,
\* and unsynced content may be short.
AfterPowerLoss == {n \in [dest : {seen.dest, durable.dest}, temps : SUBSET (seen.temps \cup durable.temps)] :
                 seen.temps \cap durable.temps \subseteq n.temps}
PowerLoss ==
  /\ failures < MaxFailures /\ failures' = failures + 1
  /\ \E n \in AfterPowerLoss : seen' = n /\ durable' = n
  /\ body' \in [Files -> {"absent", "partial", "whole"}]
  /\ \A f \in Files : \/ body'[f] = body[f]
                      \/ f \notin synced /\ body[f] = "whole" /\ body'[f] = "partial"
  /\ step' = "idle" /\ temp' = None
  /\ UNCHANGED <<synced, acked>>

BackupNext ==
  \/ ReconcilePublished \/ SyncReconciled \/ ReconcileCandidate \/ CreateTemporary \/ CopyDatabase \/ SyncFile \/ Link \/ SyncLink
  \/ SyncRename \/ remove_backup_publication_candidates \/ SyncUnlink \/ BackupFails \/ BackupDies \/ PowerLoss

---------------------------------------------------------------------------------
\* A backup under its published name is whole, on the disk too: nothing that
\* stops half way can leave a short file where a restore will look for one.
PublishedIsWhole ==
  /\ Is(seen.dest) => body[The(seen.dest)] = "whole"
  /\ Is(durable.dest) => The(durable.dest) \in synced
\* Once backup_to has returned Ok, no crash loses the backup.
ReportedSurvives == acked => Is(seen.dest) /\ Is(durable.dest)
=================================================================================
