------------------------------ MODULE TaskStorage ------------------------------
(***************************************************************************)
(* One task's storage over its whole life: the worker of a generation      *)
(* leases, writes, commits, verifies and aborts through the StorageEngine, *)
(* ends its run, and is readmitted in a new generation; the process or the *)
(* machine may stop between any two of those steps, including inside a     *)
(* commit; a restart replays the journal, starts a new generation, reads   *)
(* the durable pieces back and goes on (http_multi.rs prepare_storage and  *)
(* finish_storage, http_multi/protocol.rs open_protocol_storage).          *)
(***************************************************************************)
EXTENDS StorageEngine

CONSTANTS Manifest,       \* the verification manifest of a verified task
          Contents,       \* what a source may deliver for a unit
          Modes,          \* which kinds of task: "Plain", "Verified"
          MaxGeneration, MaxLeaseStarts, MaxCrashes

VARIABLES mode,      \* "Plain" or "Verified"
          engine,    \* the engine while a worker has it
          phase,     \* "running", "idle", "down", "done" or "refused"
          starts,    \* leases begun, crashes so far
          acked,     \* pieces a worker was told are durable, and not since told have failed
          orphaned   \* a crash left a started lease without an end in the journal

storageVars == <<mode, engine, phase, starts, acked, orphaned>>

Options == [manifest |-> IF mode = "Verified" THEN Some(Manifest) ELSE None, pin |-> None]

\* The records of a task's admission (append_initial_admission_with_options)
\* and of its next generation, as the control plane writes them.
append_initial_admission(e, options) ==
  flush_journal(append_payload(append_payload(e, "TaskCreated", [durability |-> "Strict"]),
    "OptionsSnapshot", [scope |-> "CurrentGeneration", patch |-> None, options |-> options, hash |-> options]))
append_generation(e, options, reason) ==
  LET next == append_payload(e, "OptionsSnapshot",
                [scope |-> "NextAdmission", patch |-> None, options |-> options, hash |-> options])
      bumped == [next EXCEPT !.gen = @ + 1]
  IN flush_journal(append_payload(bumped, "GenerationStarted",
       [previous |-> e.gen, reason |-> reason, patch |-> None, hash |-> options]))
append_layout(e) ==
  flush_journal(append_payload(e, "LayoutCommitted",
    [hash |-> LayoutHash(Layout), rootHash |-> RootHash(Layout), layout |-> Layout,
     fileCount |-> Len(Layout.files), chunks |-> 1]))

\* finish_storage and open_protocol_storage: the layout of this generation,
\* then the manifest unless the journal already has it.
OpenStorage(e, durable) ==
  LET laid == append_layout(e)
      manifest == IF mode = "Verified"
                  THEN configure_verification(laid, Manifest, Is(laid.sem.manifest), durable, FALSE) ELSE laid
  IN [NewEngine(manifest.sem, manifest.coord, e.file, e.synced) EXCEPT !.base = manifest.base]

Empty == [u \in Units |-> Hole]
StorageInit ==
  /\ mode \in Modes
  /\ LET new == NewEngine(NewMachine(FALSE, None), None, Empty, Empty)
     IN engine = OpenStorage(append_initial_admission(new, Options), {})
  /\ phase = "running" /\ starts = [leases |-> 0, crashes |-> 0] /\ acked = {} /\ orphaned = FALSE

\* The worker is between two operations; once the whole file is verified
\* nothing but the completion follows.
Quiet == phase = "running" /\ ~Is(engine.committing) /\ ~Is(engine.verifying)
Free == Quiet /\ ~engine.whole

\* An operation the worker performs: a rejection ends its run (run_ranges
\* leaves its loop), an acknowledgement is remembered.
Acked(e) == {a[2] : a \in {x \in e.acks : x[1] = "PieceDurable"}}
Failed(e) == {a[2] : a \in {x \in e.acks : x[1] = "ChecksumMismatch"}}
Perform(e) ==
  /\ e.err = OK
  /\ engine' = e /\ acked' = (acked \cup Acked(e)) \ Failed(e)
  /\ UNCHANGED <<mode, phase, orphaned>>

NextLease == IF mode = "Verified" THEN next_lease_floor(engine)
             ELSE Max({0} \cup engine.seen) + 1

Spans == IF mode = "Plain" THEN {piece_span(Layout, p) : p \in 0 .. PieceCount(Layout) - 1}
         ELSE {Span(o, n) : o \in Units, n \in 1 .. Layout.total} \cap
              {s \in [off : Units, len : 1 .. Layout.total] : End(s) <= Layout.total}
Settled(s) == PiecesOf(s) \cap DOMAIN engine.sem.durable # {}

BeginLease ==
  /\ Free /\ starts.leases < MaxLeaseStarts
  /\ \E s \in Spans :
       /\ ~Settled(s)
       /\ Perform(begin_lease(engine, [lease |-> NextLease, span |-> s, validator |-> "v", group |-> None]))
  /\ starts' = [starts EXCEPT !.leases = @ + 1]

\* An endgame duplicate of a lease, which has opened or has not; only a
\* transfer without a manifest uses them.
RegisterDuplicate ==
  /\ Free /\ mode = "Plain" /\ engine.groups = EmptyMap /\ starts.leases < MaxLeaseStarts
  /\ \E l \in DOMAIN engine.active :
       Perform(register_overlap_group(engine, 1, l, NextLease, engine.active[l].span, "v"))
  /\ UNCHANGED starts
Unopened == {l \in UNION {engine.groups[g].members : g \in DOMAIN engine.groups} : l \notin engine.seen}
BeginDuplicate ==
  /\ Free /\ starts.leases < MaxLeaseStarts
  /\ \E l \in Unopened : Perform(begin_lease(engine,
       [lease |-> l, span |-> engine.groups[1].span, validator |-> "v", group |-> Some(1)]))
  /\ starts' = [starts EXCEPT !.leases = @ + 1]
SettleUnopened ==
  /\ Free /\ \E l \in Unopened : Perform(settle_unopened_overlap_member(engine, 1, l))
  /\ UNCHANGED starts

WriteBlock ==
  /\ Free /\ \E l \in DOMAIN engine.active, c \in Contents, room \in BOOLEAN :
               /\ mode = "Plain" => room
               /\ Perform(write_block(engine, l, c, room))
  /\ UNCHANGED starts
CommitLease ==
  /\ Free /\ \E l \in DOMAIN engine.active : Perform(commit_lease(engine, l, "v"))
  /\ UNCHANGED starts
\* After the data barrier: the durability record and its flush.
CommitBarrier ==
  /\ phase = "running" /\ Is(engine.committing) /\ Perform(FinishCommit(engine)) /\ UNCHANGED starts
AbortLease ==
  /\ Free /\ \E l \in DOMAIN engine.active : Perform(abort_lease(engine, l)) /\ UNCHANGED starts

VerifyChunk ==
  /\ Free /\ mode = "Verified" /\ \E p \in ready(The(engine.coord)) : Perform(StartVerification(engine, p))
  /\ UNCHANGED starts
VerifyBarrier ==
  /\ phase = "running" /\ Is(engine.verifying) /\ Perform(FinishVerification(engine)) /\ UNCHANGED starts

\* A source that turned out stale takes a verified piece back.
InvalidatePiece ==
  /\ Free /\ mode = "Verified" /\ engine.active = EmptyMap
  /\ \E p \in The(engine.coord).durable :
       /\ engine' = invalidate_verified_piece(engine, p)
       /\ acked' = acked \ {p}
  /\ UNCHANGED <<mode, phase, starts, orphaned>>

RecordRetry ==
  /\ Free /\ engine.sem.retries = EmptyMap /\ Perform(record_retry_state(engine, <<"Piece", 1>>, 1))
  /\ UNCHANGED starts

VerifyWhole ==
  /\ Free /\ mode = "Verified" /\ ~engine.whole /\ is_complete(The(engine.coord))
  /\ Perform(verify_whole_file(engine)) /\ UNCHANGED starts
\* A verified task completes once its manifest is satisfied, a plain one once
\* the range coordinator has every piece.
Complete ==
  /\ Quiet /\ DOMAIN engine.sem.durable = 0 .. PieceCount(Layout) - 1
  /\ LET e == complete_task(engine)
     IN e.err = OK /\ engine' = e /\ phase' = "done" /\ UNCHANGED <<mode, starts, acked, orphaned>>

\* run_ranges ends: every lease still open is aborted and the journal given
\* back, flushed; the task is readmitted in a new generation.
EndRun ==
  /\ Quiet
  /\ LET e == FoldSet(LAMBDA l, x : IF l \in DOMAIN x.active THEN FinishCommit(abort_lease(x, l)) ELSE x,
                      engine, DOMAIN engine.active)
     IN engine' = flush_journal(e)
  /\ phase' = "idle" /\ UNCHANGED <<mode, starts, acked, orphaned>>

\* verify_recovered_piece_digests: what the journal calls durable is read back.
DigestsMatch(m, file) ==
  \A p \in DOMAIN m.durable :
    LET s == piece_span(Layout, p)
    IN m.durable[p].digest = Some([i \in 1 .. s.len |-> file[s.off + i - 1]])

Admit(e, reason) ==
  LET bumped == append_generation(e, Options, reason)
  IN IF bumped.sem.bad \/ ~DigestsMatch(bumped.sem, bumped.file)
     THEN engine' = bumped /\ phase' = "refused"
     ELSE engine' = OpenStorage(bumped, DOMAIN bumped.sem.durable) /\ phase' = "running"

Readmit ==
  /\ phase = "idle" /\ engine.gen < MaxGeneration
  /\ Admit(engine, "RetryReadmission") /\ UNCHANGED <<mode, starts, acked, orphaned>>

\* The process ends or the machine does: what no flush confirmed may be cut
\* at any record, what no sync reached may or may not be in the file.
Crash ==
  /\ phase \in {"running", "idle"} /\ starts.crashes < MaxCrashes
  /\ \E k \in 0 .. Len(engine.tail), lost \in SUBSET {u \in Units : engine.file[u] # engine.synced[u]} :
       LET m == FoldLeft(Process, engine.base, SubSeq(engine.tail, 1, k))
           file == [u \in Units |-> IF u \in lost THEN engine.synced[u] ELSE engine.file[u]]
       IN /\ engine' = NewEngine(m, None, file, file)
          /\ orphaned' = (orphaned \/ m.active # EmptyMap)
  /\ phase' = "down" /\ starts' = [starts EXCEPT !.crashes = @ + 1]
  /\ UNCHANGED <<mode, acked>>

Restart ==
  /\ phase = "down" /\ engine.gen < MaxGeneration
  /\ IF engine.sem.bad THEN phase' = "refused" /\ UNCHANGED engine
     ELSE Admit(engine, "RecoveryRepair")
  /\ UNCHANGED <<mode, starts, acked, orphaned>>

StorageNext ==
  \/ BeginLease \/ RegisterDuplicate \/ BeginDuplicate \/ SettleUnopened
  \/ WriteBlock \/ CommitLease \/ CommitBarrier \/ AbortLease
  \/ VerifyChunk \/ VerifyBarrier \/ InvalidatePiece \/ RecordRetry
  \/ VerifyWhole \/ Complete \/ EndRun \/ Readmit \/ Crash \/ Restart

StorageSpec == StorageInit /\ [][StorageNext]_storageVars
----------------------------------------------------------------------------
StorageTypeOK ==
  /\ mode \in {"Plain", "Verified"} /\ phase \in {"running", "idle", "down", "done", "refused"}
  /\ engine.gen \in 0 .. MaxGeneration /\ acked \subseteq 0 .. PieceCount(Layout) - 1
  /\ engine.file \in [Units -> Contents \cup {Hole}] /\ engine.synced \in [Units -> Contents \cup {Hole}]

\* Every record the engine writes is one that the replay of the journal
\* accepts after the ones before it, through overlap groups, aborts, failed
\* verification and generations: the writer and the reader of the journal
\* agree on what may follow what.
JournalAccepted == engine.sem.bad => orphaned

\* What the journal would say is durable after a crash at this very point is
\* in the file whatever the crash loses: the data barrier comes before the
\* durability record (commit_active, finish_verification).
DurableIsSynced ==
  \A k \in 0 .. Len(engine.tail) :
    LET m == FoldLeft(Process, engine.base, SubSeq(engine.tail, 1, k))
    IN m.bad \/ DigestsMatch(m, engine.synced)

\* A piece the worker was told is durable is durable in what a flush has
\* confirmed, and so after any crash, until it is told otherwise.
AcknowledgedSurvives == phase # "refused" => acked \subseteq DOMAIN engine.base.durable

\* A task whose journal says complete has every byte of every piece on disk
\* and, when it has a manifest, the bytes the manifest asks for.
CompleteIsWhole ==
  phase = "done" => /\ \A u \in Units : engine.synced[u] # Hole
                    /\ engine.sem.terminal = Some("Complete")
                    /\ mode = "Verified" => \A p \in 0 .. PieceCount(Layout) - 1 :
                         LET s == piece_span(Layout, p)
                         IN [i \in 1 .. s.len |-> engine.synced[s.off + i - 1]] = Manifest.chunks[p + 1]

\* A journal is refused after a restart only when the crash left a lease
\* that was started and never ended.
RefusedOnlyForOrphans == phase = "refused" => orphaned

\* The writer and the reader of the journal agree: its state has its type,
\* JournalAccepted and RefusedOnlyForOrphans.
JournalSound == StorageTypeOK /\ JournalAccepted /\ RefusedOnlyForOrphans
\* What the storage engine promises its worker: AcknowledgedSurvives and
\* CompleteIsWhole.
PromisesKept == AcknowledgedSurvives /\ CompleteIsWhole

\* "A crash treats every lease lacking LeaseCommitted as aborted": a crash
\* never leaves a journal that the next start of the task refuses.
CrashAbortsLeases == phase # "refused"
=================================================================================
