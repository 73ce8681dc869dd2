---------------------------- MODULE JournalSemantics ----------------------------
(***************************************************************************)
(* The semantic replay of one task's control journal                       *)
(* (journal_state.rs): a machine that takes the records one at a time and  *)
(* refuses the first that does not follow from the ones before it.  Hashes *)
(* are the values they are taken of, so two agree exactly when their       *)
(* contents do.  A refused record sets bad: replay stops there.            *)
(***************************************************************************)
EXTENDS Maps, Integers, FiniteSets, SequencesExt

CONSTANTS
  MaxRecords, MaxLeases, MaxDurable, MaxRetryStates, MaxFinalizations, MaxValidators,
  Permitted(_)      \* PersistedOptionPolicy::permits over a whole option map

NoTotal == -1

Span(o, n) == [off |-> o, len |-> n]
End(s) == s.off + s.len
span_contains(outer, inner) == inner.off >= outer.off /\ End(inner) <= End(outer)
spans_intersect(a, b) == a.off < End(b) /\ b.off < End(a)

\* The hashes of a layout: where it is bound does not enter the first.
LayoutHash(l) == <<l.total, l.plen, l.files>>
RootHash(l) == <<l.place, l.root, l.ident>>
has_same_identity_evidence(a, b) ==
  LayoutHash(a) = LayoutHash(b) /\ a.root = b.root /\ a.ident = b.ident /\ Len(a.files) = Len(b.files)

PieceCount(l) == (l.total + l.plen - 1) \div l.plen
IsPiece(l, p) == l.total # NoTotal /\ p * l.plen < l.total
piece_span(l, p) ==
  LET start == p * l.plen
  IN Span(start, IF l.plen < l.total - start THEN l.plen ELSE l.total - start)

\* RecoveredJournalState at TaskCreated, and the machine around it.
NewMachine(ckpt, ckptGen) ==
  [bad |-> FALSE, last |-> 0, count |-> 0,
   ckpt |-> ckpt, ckptGen |-> ckptGen, rank |-> 0, retryKey |-> None,
   created |-> FALSE, gen |-> 0, durability |-> "Strict", current |-> None, pending |-> None,
   layout |-> None, strong |-> None, identity |-> None, manifest |-> None,
   validators |-> EmptyMap, whole |-> FALSE, spans |-> EmptyMap, durable |-> EmptyMap,
   retries |-> EmptyMap, paused |-> None, hostKey |-> None, finals |-> << >>,
   terminal |-> None, checkpoint |-> None, rebind |-> None, clean |-> FALSE,
   pendManifest |-> None, pendLayout |-> None, pendPieces |-> None, seenPieces |-> FALSE,
   layoutGen |-> None, active |-> EmptyMap, committed |-> EmptyMap, seen |-> {},
   pieceLeases |-> {}, verified |-> EmptyMap, network |-> FALSE]

Refuse(m) == [m EXCEPT !.bad = TRUE]

CurrentGeneration(m, r) == m.created /\ r.gen = m.gen
Ready(m, r) == CurrentGeneration(m, r) /\ Is(m.current) /\ ~Is(m.terminal)

HasTotal(m) == Is(m.layout) /\ The(m.layout).total # NoTotal
ExpectedSpan(m, r) == Is(m.layout) /\ IsPiece(The(m.layout), r.piece)
                      /\ r.span = piece_span(The(m.layout), r.piece)

ManifestMatches(man, l) == l.total = man.total /\ l.plen = man.plen
require_manifest_ready(m) ==
  /\ ~Is(m.pendManifest)
  /\ Is(m.current) /\ Is(The(m.current).options.manifest) =>
       m.manifest = The(m.current).options.manifest
  /\ Is(m.manifest) => Is(m.layout) /\ ManifestMatches(The(m.manifest), The(m.layout))

apply_task_created(m, r) ==
  IF m.created \/ r.gen # (IF Is(m.ckptGen) THEN The(m.ckptGen) ELSE 0)
  THEN Refuse(m)
  ELSE [m EXCEPT !.created = TRUE, !.gen = r.gen, !.durability = r.durability]

apply_options(m, r) ==
  LET snapshot == [patch |-> r.patch, options |-> r.options]
      usable == CurrentGeneration(m, r) /\ r.hash = r.options /\ Permitted(r.options)
  IN CASE usable /\ r.scope = "CurrentGeneration" /\ ~Is(m.current) /\ (m.ckpt \/ m.gen = 0)
            -> [m EXCEPT !.current = Some(snapshot)]
       [] usable /\ r.scope = "NextAdmission" /\ ~m.ckpt /\ Is(m.current)
            /\ (Is(m.pending) => Is(r.patch) /\ r.patch # The(m.pending).patch)
            -> [m EXCEPT !.pending = Some(snapshot)]
       [] OTHER -> Refuse(m)

\* A generation starts once every lease of the one before it is settled.
apply_generation_started(m, r) ==
  LET next == The(m.pending)
      keepsRanges == /\ r.reason \in {"RetryReadmission", "RecoveryRepair"}
                     /\ Is(m.current) /\ The(m.current).options = next.options
      staleManifest == Is(m.manifest) /\ m.manifest # next.options.manifest
      restart == r.reason = "RepresentationRestart"
  IN IF \/ m.ckpt \/ DOMAIN m.active # {} \/ ~m.created
        \/ r.previous # m.gen \/ r.gen # m.gen + 1
        \/ (r.reason = "OptionPatch") # Is(r.patch)
        \/ ~Is(m.pending)
        \/ next.options # r.hash \/ next.patch # r.patch
     THEN Refuse(m)
     ELSE [m EXCEPT
             !.gen = r.gen, !.current = m.pending, !.pending = None,
             !.retries = IF keepsRanges
                         THEN Without(@, {k \in DOMAIN @ : k[1] \notin {"Piece", "Span"}})
                         ELSE EmptyMap,
             !.paused = None, !.hostKey = None, !.strong = None, !.identity = None,
             !.validators = EmptyMap, !.spans = EmptyMap, !.whole = FALSE,
             !.manifest = IF staleManifest THEN None ELSE @,
             !.durable = IF staleManifest \/ restart THEN EmptyMap ELSE @,
             !.finals = IF restart THEN << >> ELSE @,
             !.rebind = None, !.clean = FALSE, !.committed = EmptyMap, !.seen = {},
             !.pieceLeases = {}, !.verified = EmptyMap, !.network = FALSE, !.layoutGen = None]

\* The durable pieces of the layout before survive when the new one is the
\* same file in the same place of the same root.
install_layout(m, layout, previous, durable) ==
  LET retain == Is(previous) /\ has_same_identity_evidence(The(previous), layout)
  IN [m EXCEPT !.durable = IF retain THEN durable ELSE EmptyMap, !.finals = << >>,
               !.strong = None, !.identity = None,
               !.rebind = IF Is(previous) /\ ~retain THEN Some(RootHash(The(previous))) ELSE None,
               !.layout = Some(layout), !.layoutGen = Some(m.gen)]

assemble_layout(p) == LayoutHash(p.layout) = p.hash /\ RootHash(p.layout) = p.rootHash

finish_layout(m, p) ==
  IF Len(p.layout.files) # p.fileCount \/ ~assemble_layout(p)
  THEN Refuse(m)
  ELSE install_layout([m EXCEPT !.pendLayout = None], p.layout, p.previous, p.durable)

apply_layout_committed(m, r) ==
  LET p == [gen |-> r.gen, hash |-> r.hash, rootHash |-> r.rootHash, layout |-> r.layout,
            fileCount |-> r.fileCount, chunks |-> r.chunks, next |-> 1,
            previous |-> m.layout, durable |-> m.durable]
  IN IF ~Ready(m, r) \/ DOMAIN m.active # {} \/ m.network \/ m.layoutGen = Some(r.gen)
     THEN Refuse(m)
     ELSE IF r.chunks = 1 THEN finish_layout(m, p)
     ELSE [m EXCEPT !.layout = None, !.durable = EmptyMap, !.finals = << >>,
                    !.pendLayout = Some(p)]

apply_layout_chunk(m, r) ==
  LET p == The(m.pendLayout)
      grown == [p EXCEPT !.layout.files = @ \o r.files, !.next = @ + 1]
  IN IF \/ ~CurrentGeneration(m, r) \/ ~Is(m.pendLayout)
        \/ <<p.gen, p.hash, p.rootHash, p.chunks, p.next>> # <<r.gen, r.hash, r.rootHash, r.chunks, r.index>>
        \/ Len(p.layout.files) + Len(r.files) > p.fileCount
        \/ p.layout.files = << >> \/ r.files = << >>
     THEN Refuse([m EXCEPT !.pendLayout = None])
     ELSE IF grown.next = p.chunks THEN finish_layout(m, grown)
     ELSE [m EXCEPT !.pendLayout = Some(grown)]

\* One identity of the remote file per generation, fixed before the network starts.
apply_http_strong_validator(m, r) ==
  IF ~Ready(m, r) \/ m.network \/ ~HasTotal(m) \/ Is(m.strong) \/ Is(m.identity)
     \/ The(m.layout).total # r.total
  THEN Refuse(m) ELSE [m EXCEPT !.strong = Some(r.fingerprint)]

apply_http_range_identity(m, r) ==
  IF ~Ready(m, r) \/ m.network \/ ~HasTotal(m) \/ Is(m.strong) \/ Is(m.identity)
     \/ The(m.layout).total # r.total \/ r.fingerprint # <<r.digest, r.total>>
  THEN Refuse(m) ELSE [m EXCEPT !.identity = Some(r.fingerprint)]

apply_lease_started(m, r) ==
  IF \/ ~Ready(m, r) \/ ~require_manifest_ready(m)
     \/ ~HasTotal(m) \/ End(r.span) > The(m.layout).total
     \/ (Is(m.strong) /\ m.strong # Some(r.validator))
     \/ (Is(m.identity) /\ m.identity # Some(r.validator))
     \/ r.lease \in m.seen \/ Cardinality(m.seen) >= MaxLeases
  THEN Refuse(m)
  ELSE [m EXCEPT !.seen = @ \cup {r.lease}, !.network = TRUE,
                 !.active = Put(@, r.lease, [span |-> r.span, validator |-> r.validator])]

apply_piece_started(m, r) ==
  IF \/ ~Ready(m, r) \/ ~ExpectedSpan(m, r) \/ r.lease \notin DOMAIN m.active
     \/ ~spans_intersect(m.active[r.lease].span, r.span)
     \/ <<r.lease, r.piece>> \in m.pieceLeases
  THEN Refuse(m) ELSE [m EXCEPT !.pieceLeases = @ \cup {<<r.lease, r.piece>>}]

apply_piece_written(m, r) ==
  IF \/ ~Ready(m, r) \/ r.lease \notin DOMAIN m.active
     \/ ~(Is(m.layout) /\ IsPiece(The(m.layout), r.piece))
     \/ <<r.lease, r.piece>> \notin m.pieceLeases
     \/ ~span_contains(m.active[r.lease].span, r.span)
     \/ ~span_contains(piece_span(The(m.layout), r.piece), r.span)
  THEN Refuse(m) ELSE m

apply_lease_committed(m, r) ==
  LET lease == [span |-> r.span, validator |-> r.validator]
  IN IF ~Ready(m, r) \/ Entry(m.active, r.lease) # Some(lease)
     THEN Refuse(m)
     ELSE [m EXCEPT !.active = Without(@, {r.lease}), !.committed = Put(@, r.lease, lease),
                    !.spans = Put(@, r.lease, lease)]

\* Mutant: the pieces of an aborted lease stay attributed to it.
AbortKeepsPieces(m, r) ==
  IF ~Ready(m, r) \/ r.lease \notin DOMAIN m.active THEN Refuse(m)
  ELSE [m EXCEPT !.active = Without(@, {r.lease})]
apply_lease_aborted(m, r) ==
  IF ~Ready(m, r) \/ r.lease \notin DOMAIN m.active THEN Refuse(m)
  ELSE [m EXCEPT !.active = Without(@, {r.lease}),
                 !.pieceLeases = {x \in @ : x[1] # r.lease}]

\* The committed leases that wrote the piece; they must tile it exactly.
Clip(s, piece) == (IF s.off < piece.off THEN piece.off ELSE s.off) ..
                  ((IF End(s) < End(piece) THEN End(s) ELSE End(piece)) - 1)
ContributorsOf(m, p, s) ==
  {l \in DOMAIN m.committed : <<l, p>> \in m.pieceLeases /\ spans_intersect(m.committed[l].span, s)}
contributors_for_piece(m, p, s) ==
  LET ls == ContributorsOf(m, p, s)
      cut == [l \in ls |-> Clip(m.committed[l].span, s)]
  IN IF /\ ls # {} /\ UNION {cut[l] : l \in ls} = s.off .. (End(s) - 1)
        /\ \A a, b \in ls : a # b => cut[a] \cap cut[b] = {}
     THEN Some([l \in ls |-> m.committed[l]]) ELSE None
ValidatorSet(contributors) == {contributors[l].validator : l \in DOMAIN contributors}

apply_piece_verified(m, r) ==
  LET chunks == The(m.manifest).chunks
      found == contributors_for_piece(m, r.piece, r.span)
  IN IF \/ ~Ready(m, r) \/ ~ExpectedSpan(m, r) \/ ~require_manifest_ready(m)
        \/ (Is(m.manifest) /\ chunks # << >> /\ chunks[r.piece + 1] # r.digest)
        \/ found # Some(r.contributors)
     THEN Refuse(m)
     ELSE [m EXCEPT !.verified = Put(@, r.piece, [contributors |-> r.contributors,
                                                  validators |-> ValidatorSet(r.contributors),
                                                  digest |-> r.digest])]

apply_piece_failed(m, r) ==
  IF ~Ready(m, r) \/ ~ExpectedSpan(m, r) \/ (Is(r.lease) /\ The(r.lease) \notin m.seen)
  THEN Refuse(m)
  ELSE [m EXCEPT !.verified = Without(@, {r.piece}),
                 !.pieceLeases = {x \in @ : x[2] # r.piece},
                 !.durable = Without(@, {r.piece}),
                 !.spans = Without(@, {l \in DOMAIN @ : spans_intersect(@[l].span, r.span)}),
                 !.whole = FALSE]

Barrier == [Strict |-> "StrictPiece", Balanced |-> "BalancedGroup", Fast |-> "FastFinalization"]
apply_piece_durable(m, r) ==
  LET readback == /\ Is(r.digest) /\ Is(m.rebind) /\ Is(m.layout) /\ ~m.network
                  /\ r.contributors = EmptyMap
                  /\ r.validators = <<The(m.rebind), RootHash(The(m.layout)), The(r.digest)>>
      verified == /\ r.barrier = Barrier[m.durability] /\ r.piece \in DOMAIN m.verified
                  /\ m.verified[r.piece].contributors = r.contributors
                  /\ m.verified[r.piece].validators = r.validators
                  /\ Is(r.digest) => The(r.digest) = m.verified[r.piece].digest
  IN IF \/ ~Ready(m, r) \/ ~ExpectedSpan(m, r)
        \/ ~(IF r.barrier = "RecoveryReadback" THEN readback ELSE verified)
        \/ r.piece \in DOMAIN m.durable \/ Cardinality(DOMAIN m.durable) >= MaxDurable
     THEN Refuse(m)
     ELSE [m EXCEPT !.durable = Put(@, r.piece, [digest |-> r.digest, origin |-> r.barrier])]

\* Mutant: a retry of a piece forgets that the piece is durable.
RetryForgetsPiece(m, r) ==
  IF ~Ready(m, r) \/ (r.key \notin DOMAIN m.retries /\ Cardinality(DOMAIN m.retries) >= MaxRetryStates)
  THEN Refuse(m)
  ELSE [m EXCEPT !.retries = Put(@, r.key, r.attempt), !.durable = Without(@, {r.key[2]})]
apply_retry(m, r) ==
  IF ~Ready(m, r) \/ (r.key \notin DOMAIN m.retries /\ Cardinality(DOMAIN m.retries) >= MaxRetryStates)
  THEN Refuse(m) ELSE [m EXCEPT !.retries = Put(@, r.key, r.attempt)]

\* The parent of a metadata expansion ends complete, without data of its own
\* unless the document itself is kept.
apply_metadata_complete(m, r) ==
  IF \/ ~Ready(m, r) \/ DOMAIN m.active # {} \/ r.parentGen > r.gen
     \/ r.parentOptions # The(m.current).options \/ Is(m.manifest)
     \/ (IF r.retained THEN m.layout = None \/ The(m.layout).total # r.bytes ELSE Is(m.layout))
  THEN Refuse(m)
  ELSE [m EXCEPT !.terminal = Some("Complete"), !.paused = None]

\* Mutant: the answer to a challenge may name another key than the challenge did.
HostKeyUnchecked(m, r) ==
  LET allowed == IF m.ckpt \/ r.decision = "Pending" THEN ~Is(m.hostKey)
                 ELSE Is(m.hostKey) /\ The(m.hostKey).decision = "Pending"
      park == [Pending |-> Some("HostKeyApproval"), Approved |-> None, Rejected |-> Some("RecoveryHold")]
  IN IF ~Ready(m, r) \/ DOMAIN m.active # {} \/ ~allowed THEN Refuse(m)
     ELSE [m EXCEPT !.paused = park[r.decision],
                    !.hostKey = Some([decision |-> r.decision, challenge |-> The(IF Is(@) THEN @ ELSE Some(r)).challenge]),
                    !.current = IF r.decision = "Approved"
                                THEN Some([The(@) EXCEPT !.options.pin = Some(r.challenge)]) ELSE @]
apply_host_key_state(m, r) ==
  LET allowed == IF m.ckpt THEN ~Is(m.hostKey)
                 ELSE IF r.decision = "Pending" THEN ~Is(m.hostKey)
                 ELSE /\ m.paused = Some("HostKeyApproval") /\ Is(m.hostKey)
                      /\ The(m.hostKey).decision = "Pending"
                      /\ The(m.hostKey).challenge = r.challenge
      park == [Pending |-> Some("HostKeyApproval"), Approved |-> None, Rejected |-> Some("RecoveryHold")]
  IN IF ~Ready(m, r) \/ DOMAIN m.active # {} \/ ~allowed THEN Refuse(m)
     ELSE [m EXCEPT !.paused = park[r.decision],
                    !.hostKey = Some([decision |-> r.decision, challenge |-> r.challenge]),
                    !.current = IF r.decision = "Approved"
                                THEN Some([The(@) EXCEPT !.options.pin = Some(r.challenge)]) ELSE @]

apply_paused(m, r) ==
  IF ~Ready(m, r) \/ DOMAIN m.active # {} THEN Refuse(m) ELSE [m EXCEPT !.paused = Some(r.reason)]

apply_terminal(m, r, terminal) ==
  IF ~CurrentGeneration(m, r) \/ Is(m.terminal) THEN Refuse(m) ELSE [m EXCEPT !.terminal = Some(terminal)]

\* Mutant: a file is thought finalized as soon as it is intended.
AnyFinalized(m) == TRUE
AllFinalized(m) == \A i \in DOMAIN m.finals : m.finals[i].done
apply_complete(m, r) ==
  IF \/ ~Ready(m, r) \/ DOMAIN m.active # {} \/ ~AllFinalized(m) \/ ~require_manifest_ready(m)
     \/ (Is(m.manifest)
         /\ \/ Is(The(m.manifest).whole) /\ ~m.whole
            \/ The(m.manifest).chunks # << >>
               /\ Cardinality(DOMAIN m.durable) # Len(The(m.manifest).chunks))
     \/ ~Is(m.layout) \/ LayoutHash(The(m.layout)) # r.hash
     \/ (HasTotal(m) /\ The(m.layout).total # r.length)
  THEN Refuse(m) ELSE apply_terminal(m, r, "Complete")

apply_clean_shutdown(m, r) ==
  IF m.ckpt \/ ~CurrentGeneration(m, r) \/ r.through >= r.seq THEN Refuse(m)
  ELSE [m EXCEPT !.clean = TRUE]

\* Files are finalized one at a time and in order.
apply_finalize_intent(m, r) ==
  IF \/ ~Ready(m, r) \/ ~Is(m.layout) \/ LayoutHash(The(m.layout)) # r.hash
     \/ RootHash(The(m.layout)) # r.rootHash
     \/ r.file \notin DOMAIN The(m.layout).files \/ The(m.layout).files[r.file] # r.path
     \/ ~AllFinalized(m) \/ (\E i \in DOMAIN m.finals : m.finals[i].file >= r.file)
     \/ Len(m.finals) >= MaxFinalizations
  THEN Refuse(m)
  ELSE [m EXCEPT !.finals = Append(@, [file |-> r.file, hash |-> r.hash, rootHash |-> r.rootHash,
                                       path |-> r.path, done |-> FALSE])]

apply_finalize_done(m, r) ==
  IF Ready(m, r) /\ \E i \in DOMAIN m.finals :
       m.finals[i] = [file |-> r.file, hash |-> r.hash, rootHash |-> r.rootHash,
                      path |-> r.path, done |-> FALSE]
  THEN [m EXCEPT !.finals = [i \in DOMAIN @ |-> IF @[i].file = r.file
                                                THEN [@[i] EXCEPT !.done = TRUE] ELSE @[i]]]
  ELSE Refuse(m)

\* The durable pieces of a checkpoint, in chunks that cover the file upwards.
apply_piece_state_chunk(m, r) ==
  LET first == r.index = 0
      p == The(m.pendPieces)
      held == IF first THEN EmptyMap ELSE m.durable
  IN IF \/ ~m.ckpt \/ ~Ready(m, r) \/ ~Is(m.layout)
        \/ LayoutHash(The(m.layout)) # r.hash \/ RootHash(The(m.layout)) # r.rootHash
        \/ (IF first THEN m.seenPieces \/ Is(m.pendPieces)
            ELSE ~Is(m.pendPieces) \/ <<p.chunks, p.next>> # <<r.chunks, r.index>> \/ r.first < p.covered)
        \/ Cardinality(DOMAIN held) + Cardinality(r.pieces) > MaxDurable
        \/ (\E q \in r.pieces : ~IsPiece(The(m.layout), q)) \/ DOMAIN held \cap r.pieces # {}
     THEN Refuse(m)
     ELSE [m EXCEPT !.seenPieces = TRUE,
                    !.durable = [q \in DOMAIN held \cup r.pieces |->
                                   IF q \in r.pieces THEN [digest |-> None, origin |-> "Checkpoint"]
                                   ELSE held[q]],
                    !.pendPieces = IF r.index + 1 = r.chunks THEN None
                                   ELSE Some([chunks |-> r.chunks, next |-> r.index + 1,
                                              covered |-> r.first + r.count])]

\* A verification manifest arrives in parts; the last one installs it.
finish_manifest(m, p) ==
  LET man == p.manifest
  IN IF p.next # p.count THEN [m EXCEPT !.pendManifest = Some(p)]
     ELSE IF \/ Len(man.chunks) > MaxDurable
             \/ Is(m.current) /\ Is(The(m.current).options.manifest)
                /\ The(m.current).options.manifest # Some(man)
             \/ Is(m.layout) /\ ~ManifestMatches(man, The(m.layout))
     THEN Refuse([m EXCEPT !.pendManifest = Some(p)])
     ELSE [m EXCEPT !.manifest = Some(man), !.pendManifest = None]
apply_manifest(m, r) ==
  IF ~CurrentGeneration(m, r) \/ m.network \/ Is(m.manifest) THEN Refuse(m)
  ELSE finish_manifest(m, [manifest |-> r.manifest, count |-> r.count, next |-> 1])
apply_manifest_chunk(m, r) ==
  IF \/ ~CurrentGeneration(m, r) \/ ~Is(m.pendManifest)
     \/ <<The(m.pendManifest).manifest, The(m.pendManifest).next, The(m.pendManifest).count>>
          # <<r.manifest, r.index, r.count>>
  THEN Refuse(m) ELSE finish_manifest(m, [The(m.pendManifest) EXCEPT !.next = @ + 1])

apply_protocol_validator(m, r) ==
  IF \/ ~Ready(m, r) \/ ~HasTotal(m) \/ The(m.layout).total # r.total
     \/ (r.source \in DOMAIN m.validators /\ m.validators[r.source] # r.validator)
     \/ (r.source \notin DOMAIN m.validators /\ Cardinality(DOMAIN m.validators) >= MaxValidators)
  THEN Refuse(m) ELSE [m EXCEPT !.validators = Put(@, r.source, r.validator)]

apply_whole_verified(m, r) ==
  IF \/ ~Ready(m, r) \/ ~require_manifest_ready(m) \/ m.manifest # Some(r.manifest)
     \/ The(m.manifest).whole # r.digests \/ DOMAIN m.active # {}
     \/ Cardinality(DOMAIN m.durable) # PieceCount(The(m.manifest))
  THEN Refuse(m) ELSE [m EXCEPT !.whole = TRUE]

\* The order of records inside a checkpoint.
Rank(r) ==
  CASE r.type = "TaskCreated" -> 1
    [] r.type = "OptionsSnapshot" -> IF r.scope = "CurrentGeneration" THEN 2 ELSE 0
    [] r.type \in {"LayoutCommitted", "LayoutChunk"} -> 3
    [] r.type \in {"HttpStrongValidator", "HttpRangeIdentity", "ProtocolValidator",
                   "VerificationManifest", "VerificationManifestChunk"} -> 4
    [] r.type = "RetryState" -> 5
    [] r.type \in {"WholeFileVerified", "PieceStateChunk"} -> 6
    [] r.type \in {"TaskPaused", "HostKeyState"} -> 7
    [] r.type \in {"FinalizeIntent", "FinalizeDone"} -> 8
    [] r.type \in {"TaskComplete", "MetadataComplete", "TaskError", "TaskRemoved"} -> 9
    [] OTHER -> 0
RetryScope == [Task |-> 1, Uri |-> 2, Span |-> 3, Piece |-> 4]
KeyBefore(a, b) == \/ RetryScope[a[1]] < RetryScope[b[1]]
                   \/ a[1] = b[1] /\ a[2] < b[2]
validate_checkpoint_order(m, r) ==
  /\ Rank(r) # 0 /\ Rank(r) >= m.rank
  /\ Rank(r) = 1 => m.rank = 0
  /\ Rank(r) = 2 => m.rank # 2
  /\ r.type = "RetryState" /\ Is(m.retryKey) => KeyBefore(The(m.retryKey), r.key)

\* SemanticMachine::apply, by the type of the record.
Applied(m, r) ==
  CASE r.type = "TaskCreated" -> apply_task_created(m, r)
    [] r.type = "OptionsSnapshot" -> apply_options(m, r)
    [] r.type = "GenerationStarted" -> apply_generation_started(m, r)
    [] r.type = "LayoutCommitted" -> apply_layout_committed(m, r)
    [] r.type = "LayoutChunk" -> apply_layout_chunk(m, r)
    [] r.type = "HttpStrongValidator" -> apply_http_strong_validator(m, r)
    [] r.type = "HttpRangeIdentity" -> apply_http_range_identity(m, r)
    [] r.type = "LeaseStarted" -> apply_lease_started(m, r)
    [] r.type = "PieceStarted" -> apply_piece_started(m, r)
    [] r.type = "PieceWritten" -> apply_piece_written(m, r)
    [] r.type = "LeaseCommitted" -> apply_lease_committed(m, r)
    [] r.type = "LeaseAborted" -> apply_lease_aborted(m, r)
    [] r.type = "PieceVerified" -> apply_piece_verified(m, r)
    [] r.type = "PieceFailed" -> apply_piece_failed(m, r)
    [] r.type = "PieceDurable" -> apply_piece_durable(m, r)
    [] r.type = "RetryState" -> apply_retry(m, r)
    [] r.type = "TaskPaused" -> apply_paused(m, r)
    [] r.type = "HostKeyState" -> apply_host_key_state(m, r)
    [] r.type = "MetadataComplete" -> apply_metadata_complete(m, r)
    [] r.type = "TaskComplete" -> apply_complete(m, r)
    [] r.type \in {"TaskError", "TaskRemoved"} -> apply_terminal(m, r, r.type)
    [] r.type = "CleanShutdown" -> apply_clean_shutdown(m, r)
    [] r.type = "FinalizeIntent" -> apply_finalize_intent(m, r)
    [] r.type = "FinalizeDone" -> apply_finalize_done(m, r)
    [] r.type = "PieceStateChunk" -> apply_piece_state_chunk(m, r)
    [] r.type = "VerificationManifest" -> apply_manifest(m, r)
    [] r.type = "VerificationManifestChunk" -> apply_manifest_chunk(m, r)
    [] r.type = "ProtocolValidator" -> apply_protocol_validator(m, r)
    [] r.type = "WholeFileVerified" -> apply_whole_verified(m, r)
    [] OTHER -> Refuse(m)      \* CheckpointStart and CheckpointEnd
Ordered(m, r) ==
  IF m.ckpt THEN [m EXCEPT !.rank = Rank(r), !.retryKey = IF r.type = "RetryState" THEN Some(r.key) ELSE @] ELSE m
Unclean(next, r) == IF next.bad \/ r.type = "CleanShutdown" THEN next ELSE [next EXCEPT !.clean = FALSE]
Apply(m, r) ==
  IF \/ Is(m.pendManifest) /\ r.type # "VerificationManifestChunk"
     \/ Is(m.pendLayout) /\ r.type # "LayoutChunk"
     \/ Is(m.pendPieces) /\ r.type # "PieceStateChunk"
     \/ m.ckpt /\ ~validate_checkpoint_order(m, r)
     \/ Is(m.terminal) /\ r.type # "CleanShutdown"
  THEN Refuse(m)
  ELSE Unclean(Applied(Ordered(m, r), r), r)

\* process_records: one record, in sequence and within the limit.
Counted(next, r) == IF next.bad THEN next ELSE [next EXCEPT !.last = r.seq, !.count = @ + 1]
Process(m, r) ==
  IF m.bad THEN m
  ELSE IF r.seq # m.last + 1 \/ m.count >= MaxRecords THEN Refuse(m)
  ELSE Counted(Apply(m, r), r)

recover_live(records) == FoldLeft(Process, NewMachine(FALSE, None), records)

\* A checkpoint is a bracketed prefix: its count, identity and content are
\* checked before a single record of it is believed.
recover_checkpoint(records) ==
  LET start == records[1]
      endAt == 2 + start.count
      end == records[endAt]
      inside == SubSeq(records, 2, endAt - 1)
      body == FoldLeft(Process, [NewMachine(TRUE, Some(start.gen)) EXCEPT !.last = 1, !.count = 1], inside)
      base == [body EXCEPT !.checkpoint = Some([id |-> start.id, source |-> start.source,
                                                 endSeq |-> endAt]),
                           !.last = endAt, !.count = endAt, !.ckpt = FALSE, !.ckptGen = None]
  IN IF \/ start.seq # 1 \/ endAt > Len(records) \/ endAt > MaxRecords
        \/ end.type # "CheckpointEnd" \/ end.gen # start.gen \/ end.seq # endAt
        \/ end.id # start.id \/ end.count # start.count \/ end.hash # inside
        \/ body.bad \/ ~body.created \/ ~Is(body.current)
        \/ Is(body.pendManifest) \/ Is(body.pendLayout) \/ Is(body.pendPieces)
     THEN Refuse(NewMachine(FALSE, None))
     ELSE FoldLeft(Process, base, SubSeq(records, endAt + 1, Len(records)))

recover_journal_state(records) ==
  IF records = << >> THEN NewMachine(FALSE, None)
  ELSE IF records[1].type = "CheckpointStart" THEN recover_checkpoint(records)
  ELSE recover_live(records)

\* JournalStateStop::CleanEnd: every record accepted and no sequence left open.
CleanEnd(m) == m.created /\ ~m.bad /\ ~Is(m.pendManifest) /\ ~Is(m.pendLayout)

=================================================================================
