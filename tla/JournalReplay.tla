------------------------------ MODULE JournalReplay ------------------------------
(***************************************************************************)
(* What a replayed journal can say: any record at all may come next, and   *)
(* the machine keeps what it accepts.  A journal starts as live records or *)
(* inside a checkpoint, which ends into the live ones.                     *)
(***************************************************************************)
EXTENDS JournalSemantics

CONSTANTS Layouts,       \* the layouts a record may commit
          Digests,       \* of a piece
          MaxReplayGeneration

VARIABLE replayed        \* the machine after the records so far

\* The host key pin is an option like any other: a client may set it.
OptionMaps == [manifest : {None}, pin : {None, Some("k1")}]
Leases == {1, 2}
Pieces == {0, 1}

\* Every record whose fields are drawn from small sets; what does not follow
\* from the records before it is refused.
Rec(m, type, fields) ==
  LET common == [type |-> type, gen |-> m.gen, seq |-> m.last + 1]
  IN [f \in DOMAIN common \cup DOMAIN fields |-> IF f \in DOMAIN common THEN common[f] ELSE fields[f]]
Piece(p) == Span(p, 1)
RecordsOf(m, type, choices) == {Rec(m, type, fields) : fields \in choices}

OptionFields == [scope : {"CurrentGeneration", "NextAdmission"}, patch : {None}, options : OptionMaps, hash : OptionMaps]
GenerationFields(m) == [previous : {g \in {m.gen} : g < MaxReplayGeneration},
                        reason : {"RecoveryRepair", "RepresentationRestart"}, patch : {None}, hash : OptionMaps]
\* A layout in one record, or its first file with the second in a chunk.
LayoutFields ==
  {[hash |-> LayoutHash(l), rootHash |-> RootHash(l), layout |-> l, fileCount |-> 2, chunks |-> 1] : l \in Layouts}
  \cup {[hash |-> LayoutHash(l), rootHash |-> RootHash(l), layout |-> [l EXCEPT !.files = <<l.files[1]>>],
         fileCount |-> 2, chunks |-> n] : l \in Layouts, n \in {1, 2}}
LayoutChunkFields == {[hash |-> LayoutHash(l), rootHash |-> RootHash(l), index |-> 1, chunks |-> 2,
                       files |-> <<l.files[2]>>] : l \in Layouts}
AdmissionRecords(m) ==
  RecordsOf(m, "TaskCreated", [durability : {"Strict"}])
  \cup RecordsOf(m, "OptionsSnapshot", OptionFields)
  \cup {[r EXCEPT !.gen = m.gen + 1] : r \in RecordsOf(m, "GenerationStarted", GenerationFields(m))}
  \cup RecordsOf(m, "LayoutCommitted", LayoutFields)
  \cup RecordsOf(m, "LayoutChunk", LayoutChunkFields)

LeaseFields == [lease : Leases, span : {Piece(p) : p \in Pieces}, validator : {"v"}]
PieceFields(leases) == {[lease |-> l, piece |-> p, span |-> Piece(p)] : l \in leases, p \in Pieces}
Contributors == {[l \in {k} |-> [span |-> Piece(q), validator |-> "v"]] : k \in Leases, q \in Pieces}
VerifiedFields == {[piece |-> p, span |-> Piece(p), contributors |-> by, digest |-> d] :
                     p \in Pieces, d \in Digests, by \in Contributors}
\* A piece becomes durable as it was verified, or read back after a rebinding.
DurableFields ==
  {[piece |-> p, span |-> Piece(p), contributors |-> by, validators |-> {"v"}, digest |-> Some(d),
    barrier |-> "StrictPiece"] : p \in Pieces, d \in Digests, by \in Contributors}
  \cup {[piece |-> p, span |-> Piece(p), contributors |-> EmptyMap,
         validators |-> <<RootHash(a), RootHash(b), d>>, digest |-> Some(d),
         barrier |-> "RecoveryReadback"] : p \in Pieces, d \in Digests, a \in Layouts, b \in Layouts}
RetryFields == [key : {<<"Piece", 1>>, <<"Span", 1>>}, attempt : {0, 1}]
TransferRecords(m) ==
  RecordsOf(m, "LeaseStarted", LeaseFields)
  \cup RecordsOf(m, "PieceStarted", PieceFields(Leases))
  \cup RecordsOf(m, "LeaseCommitted", LeaseFields)
  \cup RecordsOf(m, "LeaseAborted", [lease : Leases])
  \cup RecordsOf(m, "PieceFailed", PieceFields({None}))
  \cup RecordsOf(m, "PieceVerified", VerifiedFields)
  \cup RecordsOf(m, "PieceDurable", DurableFields)
  \cup RecordsOf(m, "RetryState", RetryFields)

FinalizeFields == {[file |-> f, hash |-> LayoutHash(l), rootHash |-> RootHash(l), path |-> l.files[f]] :
                     l \in Layouts, f \in {1, 2}}
PieceStateFields == {[hash |-> LayoutHash(l), rootHash |-> RootHash(l), index |-> i, chunks |-> 3,
                      first |-> f, count |-> n, pieces |-> ps] :
                       l \in Layouts, i \in {0, 1, 2}, f \in Pieces, n \in {0, 1, 2}, ps \in SUBSET Pieces}
EndRecords(m) ==
  RecordsOf(m, "TaskPaused", [reason : {"User"}])
  \cup RecordsOf(m, "TaskRemoved", {<< >>})
  \cup RecordsOf(m, "CleanShutdown", [through : {m.last}])
  \cup RecordsOf(m, "HostKeyState", [decision : {"Pending", "Approved", "Rejected"}, challenge : {"k1", "k2"}])
  \cup RecordsOf(m, "FinalizeIntent", FinalizeFields)
  \cup RecordsOf(m, "FinalizeDone", FinalizeFields)
  \cup RecordsOf(m, "TaskComplete", {[hash |-> LayoutHash(l), length |-> 2] : l \in Layouts})
  \cup RecordsOf(m, "PieceStateChunk", PieceStateFields)

\* What a record must say on its own before it is applied
\* (JournalPayload::decode ends in validate_payload).
validate_layout_committed(r) ==
  /\ r.layout.plen > 0 /\ r.fileCount > 0 /\ r.chunks > 0 /\ r.layout.files # << >>
  /\ Len(r.layout.files) <= r.fileCount
  /\ (r.chunks = 1) = (Len(r.layout.files) = r.fileCount)
validate_layout_chunk(r) == r.chunks > 1 /\ r.index \in 1 .. r.chunks - 1 /\ r.files # << >>
\* The bitmap starts at a durable piece and ends where it says.
validate_piece_state_chunk(r) ==
  /\ r.index < r.chunks /\ r.count > 0
  /\ r.first \in r.pieces /\ r.pieces \subseteq r.first .. r.first + r.count - 1
validate_payload(r) ==
  /\ r.type = "LayoutCommitted" => validate_layout_committed(r)
  /\ r.type = "LayoutChunk" => validate_layout_chunk(r)
  /\ r.type = "PieceStateChunk" => validate_piece_state_chunk(r)
  /\ r.type = "RetryState" => r.attempt # 0

Accept(records) ==
  /\ replayed.count < MaxRecords
  /\ \E r \in {x \in records : validate_payload(x)} :
       LET next == Process(replayed, r) IN ~next.bad /\ replayed' = next

ReplayInit == \E ckpt \in BOOLEAN :
  replayed = NewMachine(ckpt, IF ckpt THEN Some(0) ELSE None)
ReplayAdmission == Accept(AdmissionRecords(replayed))
ReplayTransfer == Accept(TransferRecords(replayed))
ReplayEnd == Accept(EndRecords(replayed))
\* CheckpointEnd: what recover_checkpoint requires of the records inside.
ReplayCheckpointEnd ==
  /\ replayed.ckpt /\ replayed.created /\ Is(replayed.current)
  /\ ~Is(replayed.pendManifest) /\ ~Is(replayed.pendLayout) /\ ~Is(replayed.pendPieces)
  /\ replayed' = [replayed EXCEPT !.ckpt = FALSE, !.ckptGen = None]
ReplayNext == ReplayAdmission \/ ReplayTransfer \/ ReplayEnd \/ ReplayCheckpointEnd
ReplaySpec == ReplayInit /\ [][ReplayNext]_replayed
----------------------------------------------------------------------------
\* Files are finalized one after another in the order of the layout: a file
\* is intended only once the one before it is done, and an entry of the log
\* names the layout and the root the task is bound to (apply_finalize_intent,
\* apply_finalize_done, and the layouts that reset the log).
FinalizedInOrder ==
  /\ \A i \in DOMAIN replayed.finals :
       /\ Is(replayed.layout) /\ replayed.finals[i].rootHash = RootHash(The(replayed.layout))
       /\ i < Len(replayed.finals) => /\ replayed.finals[i].done
                                      /\ replayed.finals[i].file < replayed.finals[i + 1].file

\* The pieces a journal holds durable: those of its layout, or of the one it
\* had while the chunks of a new layout come in.
HeldPieces(m) == DOMAIN m.durable \cup (IF Is(m.pendLayout) THEN DOMAIN The(m.pendLayout).durable ELSE {})
\* The records that may take a durable piece back: its own failure, a layout
\* whose file or root is another, and a generation that starts over or under
\* another manifest.
OtherFile(previous, layout) == ~Is(previous) \/ ~has_same_identity_evidence(The(previous), layout)
TakesBack(m, r, p) ==
  \/ r.type = "PieceFailed" /\ r.piece = p
  \/ r.type = "LayoutCommitted" /\ OtherFile(m.layout, r.layout)
  \/ r.type = "LayoutChunk" /\ LET l == The(m.pendLayout)
                               IN OtherFile(l.previous, [l.layout EXCEPT !.files = @ \o r.files])
  \/ r.type = "GenerationStarted" /\ \/ r.reason = "RepresentationRestart"
                                     \/ Is(m.manifest) /\ m.manifest # The(m.pending).options.manifest
ReplayRecords(m) == AdmissionRecords(m) \cup TransferRecords(m) \cup EndRecords(m)
DurableStands(m, next) ==
  \A p \in HeldPieces(m) \ HeldPieces(next) : \E r \in ReplayRecords(m) : next = Process(m, r) /\ TakesBack(m, r, p)

\* Within a generation only the approval of the challenge that is pending, with
\* no lease open, changes the options, and it changes the pin to the key that
\* was offered; a checkpoint may state an approval that came before it.
OptionsStand(m, next) ==
  Is(m.current) /\ next.current # m.current =>
    \/ next.gen = m.gen + 1 /\ next.current = m.pending
    \/ /\ next.gen = m.gen /\ DOMAIN m.active = {}
       /\ Is(next.hostKey) /\ The(next.hostKey).decision = "Approved"
       /\ \/ m.ckpt
          \/ Is(m.hostKey) /\ The(m.hostKey).decision = "Pending"
             /\ The(m.hostKey).challenge = The(next.hostKey).challenge
       /\ next.current = Some([The(m.current) EXCEPT !.options.pin = Some(The(next.hostKey).challenge)])

\* A record takes a durable piece back only if that is what it says, so
\* pausing, aborting, retrying and an ordinary new generation never do, nor
\* does a layout that names the same file again; and it leaves the options of
\* a generation as they were agreed (apply_piece_failed, install_layout,
\* apply_generation_started, apply_host_key_state).
ReplayKeeps == [][DurableStands(replayed, replayed') /\ OptionsStand(replayed, replayed')]_replayed

\* A lease that was aborted contributes to no piece: what PieceVerified
\* counts as written comes from leases still open or committed.
AbortedContributeNothing ==
  \A x \in replayed.pieceLeases : x[1] \in DOMAIN replayed.active \cup DOMAIN replayed.committed

\* The pieces a checkpoint lists are pieces of the file, each chunk goes on
\* above the one before it, and none is listed above what the chunks covered
\* (validate_piece_state_chunk, apply_piece_state_chunk).
ChunksClimb ==
  Is(replayed.pendPieces) =>
    \A p \in DOMAIN replayed.durable : p < The(replayed.pendPieces).covered

\* Finalized files follow their order, an aborted lease contributes nothing,
\* and the chunks of a checkpoint climb.
ReplaySound == FinalizedInOrder /\ AbortedContributeNothing /\ ChunksClimb

=================================================================================
