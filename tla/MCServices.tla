------------------------------- MODULE MCServices -------------------------------
(***************************************************************************)
(* The services around the scheduler, one at a time: a behaviour is one of *)
(* a single part, chosen by its first state, and the variables of the      *)
(* others stay as they are.                                                *)
(***************************************************************************)
EXTENDS ControlPlane, DiskLane, RuntimeServices, SessionFiles, SessionOwner, NativeStartup

VARIABLES part, cdb, cjr, cmem, ctodo, crecovered, cphase
crash == <<cdb, cjr, cmem, ctodo, crecovered, cphase>>

\* Two tasks of which one meets an unknown host key, is patched, paused and ended.
C == INSTANCE CrashRestart WITH
       db <- cdb, jr <- cjr, mem <- cmem, todo <- ctodo, recovered <- crecovered, phase <- cphase,
       Gids <- {1, 2}, Journals <- {"j1"}, Keys <- {1, 2}, Entries <- {"a"}, HostKeyed <- {1}, Patched <- {1},
       Restless <- {1}, MaxPatches <- 1, MaxTasks <- 2, MaxTime <- 1, MaxGenerations <- 1

---------------------------------------------------------------------------------
\* The calls, and which of them the clients of one behaviour make.
Call(method, gid) == [method |-> method, gid |-> gid]
MCCalls ==
  <<Call("pauseAll", 0), Call("unpause", 1), Call("changeOption", 1), Call("changeUri", 1), Call("remove", 1),
    Call("pause", 1), Call("addUri", 0), Call("approveHostKey", 1), Call("changeGlobalOption", 0),
    Call("saveSession", 0), Call("shutdown", 0), Call("importSession", 0), Call("unpauseAll", 0),
    Call("purgeDownloadResult", 0), Call("changePosition", 2), Call("pauseAll", 0)>>
MCScripts == {{1, 2, 3}, {1, 4, 5}, {3, 4, 6}, {3, 4, 7}, {7, 12, 6},
              {9, 7, 10}, {7, 10, 11}, {9, 10, 11}, {13, 2, 6}, {14, 15}, {8, 4, 3}, {1, 15, 16}}
\* Two writes of one operation and one of another.
MCOperationId == <<1, 2, 1>>
\* One stream is limited by itself as well, one only by the process.
MCPath == [a |-> {"global", "a"}, b |-> {"global"}]
\* Two builds that know different schema versions.
MCSupports == [p1 |-> 1, p2 |-> 2]
MCKind == <<"install", "append", "flush_all", "close_all", "append", "install", "close">>
MCOf == <<1, 1, 0, 0, 2, 2, 1>>
MCPlanOf == [s |-> <<"append", "unit">>, g |-> <<"append", "append">>, q |-> <<"unit">>]

---------------------------------------------------------------------------------
NoControl == todo = 0 /\ mailbox = 0 /\ order = 0 /\ owner = 0 /\ waiting = 0 /\ answers = 0 /\ tasks = 0
             /\ catalog = 0 /\ store = 0 /\ acted = [g \in Gids |-> [seq |-> 0, bulk |-> FALSE]]
NoOpen == main = None /\ wal = 0 /\ rollback = 0 /\ lock = 0 /\ at = [p \in Openers |-> "off"] /\ mode = 0
NoBackup == seen = 0 /\ durable = 0 /\ body = 0 /\ synced = 0 /\ step = 0 /\ temp = 0 /\ acked = 0 /\ failures = 0
NoOwner == ownerState = 0 /\ requests = 0 /\ ownerThread = 0 /\ reply = [c \in OwnerCommands |-> "off"] /\ journals = 0 /\ join = 0
NoSink == plans = 0 /\ offered = 0 /\ active = 0 /\ immediate = 0 /\ dispatched = 0 /\ executed = 0 /\ outcomes = 0
NoNative == intent = 0 /\ pointer = [g \in StartTasks |-> "off"] /\ native = 0 /\ stops = 0
NoCrash == cdb = 0 /\ cjr = 0 /\ cmem = 0 /\ ctodo = 0 /\ crecovered = 0 /\ cphase = 0

ServicesInit ==
  /\ part \in {"control", "disk", "rate", "stop", "open", "backup", "owner", "sink", "native", "crash"}
  /\ IF part = "control" THEN ControlInit ELSE NoControl
  /\ DiskInit
  /\ IF part = "rate" THEN RateInit ELSE rate = 0
  /\ IF part = "stop" THEN StopInit ELSE stop = 0
  /\ IF part = "open" THEN OpenInit ELSE NoOpen
  /\ IF part = "backup" THEN BackupInit ELSE NoBackup
  /\ IF part = "owner" THEN OwnerInit ELSE NoOwner
  /\ IF part = "sink" THEN SinkInit ELSE NoSink
  /\ IF part = "native" THEN NativeInit ELSE NoNative
  /\ IF part = "crash" THEN C!CrashInit ELSE NoCrash

ServicesNext ==
  /\ UNCHANGED part
  /\ IF part = "control" THEN ControlNext ELSE UNCHANGED controlVars
  /\ IF part = "disk" THEN DiskNext ELSE UNCHANGED diskVars
  /\ IF part = "rate" THEN RateNext ELSE UNCHANGED rate
  /\ IF part = "stop" THEN StopNext ELSE UNCHANGED stop
  /\ IF part = "open" THEN OpenNext ELSE UNCHANGED openVars
  /\ IF part = "backup" THEN BackupNext ELSE UNCHANGED backupVars
  /\ IF part = "owner" THEN OwnerNext ELSE UNCHANGED ownerVars
  /\ IF part = "sink" THEN SinkNext ELSE UNCHANGED sinkVars
  /\ IF part = "native" THEN NativeNext ELSE UNCHANGED nativeVars
  /\ IF part = "crash" THEN C!CrashNext ELSE UNCHANGED crash
servicesVars == <<part, controlVars, diskVars, rate, stop, openVars, backupVars, ownerVars, sinkVars, nativeVars, crash>>
ServicesSpec == ServicesInit /\ [][ServicesNext]_servicesVars

---------------------------------------------------------------------------------
\* A write is accepted by everyone who sees it, before and after a crash
\* (CrashRestart WritesSound).
CrashWritesSound == part = "crash" => C!WritesSound
\* What a crash between two writes costs, and nothing more (RecoverySound).
CrashRecoverySound == part = "crash" => C!RecoverySound
\* Every call is answered by what holds it, and the catalogue the workers
\* start from says what the database says (RepliesHeld, CatalogMatchesStore).
ControlSound == part = "control" => RepliesHeld /\ CatalogMatchesStore
\* No scope moves more than its bursts and ticks allow, and a session recorded as cleanly shut
\* down was (SpendingBounded, CleanMeansClosed).
ProcessSound == (part = "rate" => SpendingBounded) /\ (part = "stop" => CleanMeansClosed)
\* The database's version is read as SQLite will read it, by one process at a
\* time, and a published backup is whole and stays (PreflightAgrees, OneOpener,
\* PublishedIsWhole, ReportedSurvives).
SessionFilesSound ==
  /\ part = "open" => PreflightAgrees /\ OneOpener
  /\ part = "backup" => PublishedIsWhole /\ ReportedSurvives
\* The effect sink answers what the owner did, a start leaves each task the one
\* journal its row names, and nobody waits for an owner that has gone
\* (AnswersAreTrue, OnePlanPerEffect, EveryJournalOpenOnce, ClosedAcceptsNothing).
EffectsSound ==
  /\ part = "sink" => AnswersAreTrue /\ OnePlanPerEffect
  /\ part = "native" => EveryJournalOpenOnce
  /\ part = "owner" => ClosedAcceptsNothing
\* Steps that may not happen: a database of another build rewritten, journals
\* closed by halves, a journal pointer turned back
\* (ForeignUntouched, CloseAnswersHold, PointerOnlyForward).
NeverStepped == ForeignUntouched /\ CloseAnswersHold /\ PointerOnlyForward
=================================================================================
