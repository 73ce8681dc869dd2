------------------------------ MODULE StorageEngine ------------------------------
(***************************************************************************)
(* StorageEngine (storage_engine.rs and storage_engine/verification.rs):   *)
(* leases of a task's file, what each has written, the journal records     *)
(* that say so and the barriers between data and journal.  An engine is a  *)
(* record; an operation returns the next one, with the rejection in err    *)
(* and the acknowledgements of the operation in acks.  The journal is held *)
(* as its replay: base is the state of what a flush has confirmed, tail    *)
(* the records since, sem the state of all of them.  A unit of the file is *)
(* one byte of the model.                                                  *)
(***************************************************************************)
EXTENDS JournalSemantics

CONSTANTS Layout,         \* the committed layout: [total, plen, files, place, root, ident]
          Alignment,      \* ChunkAlignment: "Strict", "Auto" or "Relaxed"
          MaxHashLeases   \* MAX_HASH_COORDINATOR_LEASES

---------------------------------------------------------------------------------
\* ChunkHashCoordinator (chunk_hash.rs): which bytes of a chunk have been hashed
\* as they arrived, from which leases, and what has to be read back from the
\* file instead.  A digest is the sequence of units hashed, so digests agree
\* when the contents do.  An operation that fails returns ok FALSE.
NewCoordinator(manifest, durable, force) ==
  [ok |-> TRUE, manifest |-> manifest, leases |-> EmptyMap, chunks |-> EmptyMap,
   durable |-> durable, force |-> force]

Fail(c) == [c EXCEPT !.ok = FALSE]

is_complete(c) == Cardinality(c.durable) = PieceCount(c.manifest) /\ DOMAIN c.chunks = {}

pieces(c, span) == (span.off \div c.manifest.plen) .. ((End(span) - 1) \div c.manifest.plen)

fresh_chunk(c, p) ==
  LET s == piece_span(c.manifest, p)
  IN [span |-> s, next |-> s.off, mark |-> s.off, hash |-> << >>, checkpoint |-> << >>,
      feeder |-> None, pending |-> EmptyMap, contributors |-> {}, readback |-> c.force]

ChunkOr(c, p) == IF p \in DOMAIN c.chunks THEN c.chunks[p] ELSE fresh_chunk(c, p)

Overlaps(c, span) ==
  \E p \in DOMAIN c.chunks : \E l \in c.chunks[p].contributors :
     Clip(c.leases[l].span, c.chunks[p].span) \cap (span.off .. (End(span) - 1)) # {}

\* Unless alignment is relaxed, a lease continues exactly where the chunk's
\* committed bytes end and nobody else is feeding it.
Continues(c, span, p) ==
  LET ch == ChunkOr(c, p)
      start == IF span.off > ch.span.off THEN span.off ELSE ch.span.off
  IN start = ch.mark /\ ~Is(ch.feeder)

begin(c, id, span, validator) ==
  LET ps == pieces(c, span)
  IN IF \/ Cardinality(DOMAIN c.leases) >= MaxHashLeases \/ id \in DOMAIN c.leases
        \/ End(span) > c.manifest.total
        \/ Alignment = "Strict" /\ Cardinality(ps) > 1
        \/ Overlaps(c, span) \/ ps \cap c.durable # {}
        \/ Alignment # "Relaxed" /\ \E p \in ps : ~Continues(c, span, p)
     THEN Fail(c)
     ELSE [c EXCEPT
             !.chunks = [p \in DOMAIN @ \cup ps |->
                           IF p \in ps THEN [ChunkOr(c, p) EXCEPT !.contributors = @ \cup {id}] ELSE @[p]],
             !.leases = Put(@, id, [span |-> span, validator |-> validator,
                                    next |-> span.off, committed |-> FALSE])]

\* The chunk hashes what it holds in order, one lease at a time.
LeaseEndIn(lease, ch) == IF End(lease.span) < End(ch.span) THEN End(lease.span) ELSE End(ch.span)
CanDrain(ch) == /\ ~ch.readback /\ ch.next \in DOMAIN ch.pending
                /\ Is(ch.feeder) => ch.feeder = Some(ch.pending[ch.next].lease)
DrainOne(leases, ch) ==
  LET f == ch.pending[ch.next]
      fed == [ch EXCEPT !.hash = Append(@, f.content), !.next = @ + 1,
                        !.pending = Without(@, {ch.next}), !.feeder = Some(f.lease)]
  IN IF leases[f.lease].committed /\ fed.next = LeaseEndIn(leases[f.lease], ch)
     THEN [fed EXCEPT !.checkpoint = fed.hash, !.mark = fed.next, !.feeder = None] ELSE fed
Drained(leases, ch) ==
  LET step[n \in 0 .. ch.span.len] ==
        IF n = 0 THEN ch
        ELSE IF CanDrain(step[n - 1]) THEN DrainOne(leases, step[n - 1]) ELSE step[n - 1]
  IN step[ch.span.len]
drain(c) == [c EXCEPT !.chunks = [p \in DOMAIN @ |-> Drained(c.leases, @[p])]]

require_readback(c, ps) ==
  [c EXCEPT !.chunks = [p \in DOMAIN @ |->
     IF p \in ps THEN [@[p] EXCEPT !.readback = TRUE, !.pending = EmptyMap, !.feeder = None] ELSE @[p]]]
force_readback(c) == require_readback([c EXCEPT !.force = TRUE], DOMAIN c.chunks)

\* One unit of a lease arrives.  room says whether the reorder budget can
\* hold it when it cannot be hashed at once; without room the chunk is read
\* back from the file later.
feed(c, id, offset, content, room) ==
  LET p == offset \div c.manifest.plen
      ch == c.chunks[p]
      hold == ~ch.readback /\ (ch.next # offset \/ (Is(ch.feeder) /\ ch.feeder # Some(id)))
      base == IF hold /\ ~room THEN require_readback(c, {p}) ELSE c
      taken == IF base.chunks[p].readback THEN base
               ELSE [base EXCEPT !.chunks[p].pending = Put(@, offset, [lease |-> id, content |-> content])]
  IN IF \/ id \notin DOMAIN c.leases \/ p \notin DOMAIN c.chunks
        \/ c.leases[id].committed \/ offset # c.leases[id].next \/ offset >= End(c.leases[id].span)
     THEN Fail(c)
     ELSE drain([taken EXCEPT !.leases[id].next = offset + 1])

commit(c, id) ==
  IF id \notin DOMAIN c.leases \/ c.leases[id].committed \/ c.leases[id].next # End(c.leases[id].span)
  THEN Fail(c)
  ELSE drain([c EXCEPT
         !.leases[id].committed = TRUE,
         !.chunks = [p \in DOMAIN c.chunks |->
            LET ch == c.chunks[p]
            IN IF ch.feeder = Some(id)
               THEN [ch EXCEPT !.checkpoint = ch.hash, !.mark = ch.next, !.feeder = None] ELSE ch]])

abort(c, id) ==
  IF id \notin DOMAIN c.leases \/ c.leases[id].committed THEN Fail(c)
  ELSE [c EXCEPT
          !.leases = Without(@, {id}),
          !.chunks = [p \in DOMAIN @ |->
             LET ch == [@[p] EXCEPT !.contributors = @ \ {id},
                                    !.pending = Without(@, {o \in DOMAIN @ : @[o].lease = id})]
             IN IF ch.feeder = Some(id)
                THEN [ch EXCEPT !.hash = ch.checkpoint, !.next = ch.mark, !.feeder = None] ELSE ch]]

CommittedIn(c, p) == {l \in c.chunks[p].contributors : c.leases[l].committed}
Contributors(c, p) == [l \in CommittedIn(c, p) |->
                         [span |-> c.leases[l].span, validator |-> c.leases[l].validator]]
ready(c) ==
  {p \in DOMAIN c.chunks :
     LET ch == c.chunks[p]
     IN /\ UNION {Clip(c.leases[l].span, ch.span) : l \in CommittedIn(c, p)} = ch.span.off .. (End(ch.span) - 1)
        /\ ch.readback \/ (ch.mark = End(ch.span) /\ ~Is(ch.feeder))}

\* The survivor of an overlap group: both wrote the span, so the hash of
\* what arrived says nothing of what is in the file.
commit_written_after_fence(c, id, span, validator) ==
  LET b == begin(c, id, span, validator)
  IN IF ~b.ok THEN b
     ELSE commit([require_readback(b, pieces(b, span)) EXCEPT !.leases[id].next = End(span)], id)

LeasesOf(chunks) == UNION {chunks[p].contributors : p \in DOMAIN chunks}
mark_durable(c, p) ==
  LET chunks == Without(c.chunks, {p})
  IN [c EXCEPT !.chunks = chunks, !.durable = @ \cup {p},
               !.leases = Without(@, {l \in DOMAIN @ : @[l].committed /\ l \notin LeasesOf(chunks)})]
invalidate(c, p) ==
  LET chunks == Without(c.chunks, {p})
  IN [c EXCEPT !.chunks = chunks, !.durable = @ \ {p},
               !.leases = Without(@, {l \in DOMAIN @ : l \notin LeasesOf(chunks)})]

verify_readback(c, p, digest) == c.manifest.chunks # << >> => c.manifest.chunks[p + 1] = digest

---------------------------------------------------------------------------------
\* The engine.
Units == 0 .. Layout.total - 1
Hole == "hole"

OK == ""
NewEngine(sem, coordinator, file, synced) ==
  [gen |-> sem.gen, seq |-> sem.last, active |-> EmptyMap, groups |-> EmptyMap, seen |-> {},
   coord |-> coordinator, whole |-> FALSE, base |-> sem, tail |-> << >>, sem |-> sem,
   file |-> file, synced |-> synced, committing |-> None, verifying |-> None,
   err |-> OK, acks |-> {}]

Reject(e, why) == [e EXCEPT !.err = why]
Fresh(e) == [e EXCEPT !.acks = {}]

\* The journal: an append is unconfirmed until a flush (storage_journal.rs).
append_payload(e, type, fields) ==
  LET r == [type |-> type, gen |-> e.gen, seq |-> e.seq + 1] @@ fields
  IN [e EXCEPT !.seq = @ + 1, !.tail = Append(@, r), !.sem = Process(@, r)]
flush_journal(e) == [e EXCEPT !.base = e.sem, !.tail = << >>]

IsVerified(e) == Is(e.coord)
LastPiece(span) == (End(span) - 1) \div Layout.plen
PiecesOf(span) == (span.off \div Layout.plen) .. LastPiece(span)
Overlapping(e, span) == {l \in DOMAIN e.active : spans_intersect(e.active[l].span, span)}

overlap_admits(e, plan) ==
  LET g == e.groups[The(plan.group)]
  IN /\ The(plan.group) \in DOMAIN e.groups
     /\ ~Is(g.candidate) /\ g.span = plan.span /\ plan.lease \in g.members
     /\ \E peer \in DOMAIN e.active :
          /\ Overlapping(e, plan.span) = {peer}
          /\ e.active[peer].group = plan.group /\ e.active[peer].span = plan.span
          /\ e.active[peer].validator = plan.validator

\* The lease is journalled with every piece it touches before a byte of it.
PieceStartedAll(e, plan) ==
  FoldLeft(LAMBDA x, p : append_payload(x, "PieceStarted",
             [lease |-> plan.lease, piece |-> p, span |-> piece_span(Layout, p)]),
           append_payload(e, "LeaseStarted",
             [lease |-> plan.lease, span |-> plan.span, validator |-> plan.validator]),
           SetToSortSeq(PiecesOf(plan.span), <))

begin_lease(e, plan) ==
  LET first == plan.span.off \div Layout.plen
      aligned == IsVerified(e) \/ plan.span = piece_span(Layout, first)
      admitted == IF Is(plan.group) THEN overlap_admits(e, plan) ELSE Overlapping(e, plan.span) = {}
      hashed == IF ~IsVerified(e) THEN None
                ELSE Some(IF Is(plan.group) THEN require_readback(The(e.coord), PiecesOf(plan.span))
                          ELSE begin(The(e.coord), plan.lease, plan.span, plan.validator))
  IN IF plan.lease \in e.seen THEN Reject(e, "DuplicateLease")
     ELSE IF ~aligned THEN Reject(e, "NonPieceAlignedLease")
     ELSE IF ~admitted THEN Reject(e, "OverlapPolicy")
     ELSE IF Is(hashed) /\ ~The(hashed).ok THEN Reject(e, "Verification")
     ELSE [PieceStartedAll(Fresh(e), plan) EXCEPT
             !.coord = hashed, !.seen = @ \cup {plan.lease},
             !.active = Put(@, plan.lease,
                [span |-> plan.span, validator |-> plan.validator, group |-> plan.group,
                 piece |-> first, next |-> plan.span.off, digest |-> << >>])]

register_overlap_group(e, group, original, duplicate, span, validator) ==
  IF \/ original = duplicate \/ group \in DOMAIN e.groups \/ original \notin DOMAIN e.active
     \/ Is(e.active[original].group) \/ e.active[original].span # span
     \/ e.active[original].validator # validator \/ duplicate \in e.seen
  THEN Reject(e, "OverlapPolicy")
  ELSE [Fresh(e) EXCEPT !.active[original].group = Some(group),
          !.groups = Put(@, group, [span |-> span, members |-> {original, duplicate}, candidate |-> None])]

\* The block goes on where the lease's last one ended; once a member of an
\* overlap group waits to commit, the group is frozen.
validate_block(e, lease) ==
  LET a == e.active[lease]
  IN CASE lease \notin DOMAIN e.active -> "UnknownLease"
       [] Is(a.group) /\ (The(a.group) \in DOMAIN e.groups => Is(e.groups[The(a.group)].candidate)) -> "OverlapPolicy"
       [] a.next >= End(a.span) -> "LeaseMismatch"
       [] OTHER -> OK

\* One unit of the lease reaches the file and, unless the chunk is read
\* back later, the hash.
write_block(e, lease, content, room) ==
  LET a == e.active[lease]
      fed == IF IsVerified(e) /\ lease \in DOMAIN The(e.coord).leases
             THEN Some(feed(The(e.coord), lease, a.next, content, room)) ELSE e.coord
  IN IF validate_block(e, lease) # OK THEN Reject(e, validate_block(e, lease))
     ELSE IF Is(fed) /\ ~The(fed).ok THEN Reject(e, "Verification")
     ELSE [Fresh(e) EXCEPT !.file[a.next] = content, !.coord = fed,
             !.active[lease].next = @ + 1, !.active[lease].digest = Append(@, content)]

validate_commit(e, lease, validator) ==
  e.active[lease].validator = validator /\ e.active[lease].next = End(e.active[lease].span)

\* commit_active without a manifest: the lease is one whole piece.  Its
\* records go in before the data barrier, the durability record after it.
CommitRecords(e, lease) ==
  LET a == e.active[lease]
      by == [l \in {lease} |-> [span |-> a.span, validator |-> a.validator]]
      written == append_payload(e, "PieceWritten", [lease |-> lease, piece |-> a.piece, span |-> a.span])
      committed == append_payload(written, "LeaseCommitted",
                     [lease |-> lease, span |-> a.span, validator |-> a.validator])
  IN [append_payload(committed, "PieceVerified",
        [piece |-> a.piece, span |-> a.span, contributors |-> by, digest |-> a.digest])
      EXCEPT !.active = Without(@, {lease}),
             !.committing = Some([lease |-> lease, piece |-> a.piece, span |-> a.span,
                                  contributors |-> by, digest |-> a.digest, synced |-> FALSE])]
\* A commit that skips the data barrier.
SyncForgotten(e) == e
sync_piece_files(e) == [e EXCEPT !.synced = e.file]
\* A commit acknowledged before its record is flushed.
CommitUnflushed(e, c) ==
  [append_payload(e, "PieceDurable",
     [piece |-> c.piece, span |-> c.span, contributors |-> c.contributors,
      validators |-> ValidatorSet(c.contributors), digest |-> Some(c.digest), barrier |-> "StrictPiece"])
   EXCEPT !.committing = None,
          !.acks = @ \cup {<<"LeaseCommitted", c.lease>>, <<"PieceDurable", c.piece>>}]
CommitDurable(e, c) ==
  [flush_journal(append_payload(e, "PieceDurable",
     [piece |-> c.piece, span |-> c.span, contributors |-> c.contributors,
      validators |-> ValidatorSet(c.contributors), digest |-> Some(c.digest), barrier |-> "StrictPiece"]))
   EXCEPT !.committing = None,
          !.acks = @ \cup {<<"LeaseCommitted", c.lease>>, <<"PieceDurable", c.piece>>}]

\* With a manifest: the lease is journalled and flushed, its chunks are
\* verified later.
commit_verified_lease(e, lease) ==
  LET a == e.active[lease]
      Part(p) == LET c == piece_span(Layout, p)
                     off == IF a.span.off > c.off THEN a.span.off ELSE c.off
                     end == IF End(a.span) < End(c) THEN End(a.span) ELSE End(c)
                 IN Span(off, end - off)
      written == FoldLeft(LAMBDA x, p : append_payload(x, "PieceWritten",
                            [lease |-> lease, piece |-> p, span |-> Part(p)]),
                          e, SetToSortSeq(PiecesOf(a.span), <))
      flushed == flush_journal(append_payload(written, "LeaseCommitted",
                   [lease |-> lease, span |-> a.span, validator |-> a.validator]))
      hashed == IF lease \in DOMAIN The(e.coord).leases THEN commit(The(e.coord), lease)
                ELSE commit_written_after_fence(The(e.coord), lease, a.span, a.validator)
  IN [flushed EXCEPT !.active = Without(@, {lease}), !.coord = Some(hashed),
                     !.err = IF hashed.ok THEN OK ELSE "Verification",
                     !.acks = @ \cup {<<"LeaseCommitted", lease>>}]

\* The part of commit_active before the data barrier, and the whole of it.
StartCommit(e, lease) == IF IsVerified(e) THEN commit_verified_lease(e, lease) ELSE CommitRecords(e, lease)
FinishCommit(e) == IF Is(e.committing) THEN CommitDurable(sync_piece_files(e), The(e.committing)) ELSE e
commit_active(e, lease) == FinishCommit(StartCommit(e, lease))

\* A member of an overlap group waits for its competitor to be settled.
commit_lease(e, lease, validator) ==
  LET a == e.active[lease]
      g == e.groups[The(a.group)]
  IN IF lease \notin DOMAIN e.active THEN Reject(e, "UnknownLease")
     ELSE IF ~validate_commit(e, lease, validator) THEN Reject(e, "LeaseMismatch")
     ELSE IF ~Is(a.group) THEN StartCommit(Fresh(e), lease)
     ELSE IF Is(g.candidate) \/ Cardinality(g.members) # 2 \/ lease \notin g.members
       THEN Reject(e, "OverlapPolicy")
     ELSE [Fresh(e) EXCEPT !.groups[The(a.group)].candidate = Some(lease),
                           !.acks = {<<"LeaseCommitPending", lease>>}]

\* An abort that leaves no record.
AbortUnrecorded(e, lease) == e
append_lease_abort(e, lease) == append_payload(e, "LeaseAborted", [lease |-> lease])

HashAbort(e, lease) ==
  IF IsVerified(e) /\ lease \in DOMAIN The(e.coord).leases THEN Some(abort(The(e.coord), lease)) ELSE e.coord

\* Both members have written the span: neither can be believed.
rollback_overlap(e, group) ==
  LET g == e.groups[group]
      gone == g.members \cap DOMAIN e.active
      logged == FoldLeft(append_lease_abort, e, SetToSortSeq(gone, <))
  IN flush_journal([logged EXCEPT
       !.groups = Without(@, {group}), !.active = Without(@, gone),
       !.coord = IF IsVerified(e) THEN Some(FoldSet(LAMBDA p, c : invalidate(c, p), The(@), PiecesOf(g.span))) ELSE @,
       !.acks = @ \cup {<<"LeaseAborted", l>> : l \in gone} \cup {<<"SpanRolledBack", group>>}])

\* What is left of a group once one member is gone: its commit goes ahead,
\* or it becomes an ordinary lease.
SettleRemaining(e, group, lease) ==
  LET g == e.groups[group]
      remaining == CHOOSE l \in g.members : l # lease
      dissolved == [e EXCEPT !.groups = Without(@, {group})]
  IN IF g.candidate = Some(remaining) THEN StartCommit(dissolved, remaining)
     ELSE [dissolved EXCEPT !.active = [l \in DOMAIN @ |-> IF l = remaining THEN [@[l] EXCEPT !.group = None] ELSE @[l]]]

FlushUnless(pending, e) == IF pending THEN e ELSE flush_journal(e)
abort_lease(e, lease) ==
  LET a == e.active[lease]
      group == The(a.group)
      ended == [append_lease_abort([Fresh(e) EXCEPT !.coord = HashAbort(e, lease)], lease)
                EXCEPT !.active = Without(@, {lease}), !.acks = {<<"LeaseAborted", lease>>}]
  IN IF lease \notin DOMAIN e.active THEN Reject(e, "UnknownLease")
     ELSE IF ~Is(a.group) THEN flush_journal(ended)
     ELSE IF group \notin DOMAIN e.groups THEN Reject(e, "OverlapPolicy")
     ELSE IF e.groups[group].candidate = Some(lease) \/ a.next # a.span.off
       THEN rollback_overlap(Fresh(e), group)
     ELSE FlushUnless(Is(e.groups[group].candidate), SettleRemaining(ended, group, lease))

settle_unopened_overlap_member(e, group, lease) ==
  IF \/ lease \in DOMAIN e.active \/ group \notin DOMAIN e.groups
     \/ lease \notin e.groups[group].members \/ e.groups[group].members \cap DOMAIN e.active = {}
  THEN Reject(e, "OverlapPolicy")
  ELSE SettleRemaining(Fresh(e), group, lease)

record_retry_state(e, key, attempt) ==
  flush_journal(append_payload(e, "RetryState", [key |-> key, attempt |-> attempt]))
record_http_range_identity(e, digest) ==
  flush_journal(append_payload(e, "HttpRangeIdentity",
    [fingerprint |-> <<digest, Layout.total>>, total |-> Layout.total, digest |-> digest]))
record_protocol_validator(e, source, validator) ==
  flush_journal(append_payload(e, "ProtocolValidator",
    [source |-> source, validator |-> validator, total |-> Layout.total]))

PieceFailed(e, p) ==
  flush_journal(append_payload(e, "PieceFailed",
    [lease |-> None, piece |-> p, span |-> piece_span(Layout, p)]))
Dropped(e, p) == [e EXCEPT !.coord = Some(invalidate(The(@), p))]

invalidate_verified_piece(e, p) ==
  IF DOMAIN e.active # {} THEN Reject(e, "Verification") ELSE Dropped(PieceFailed(Fresh(e), p), p)
redownload_incomplete_recovery(e) ==
  FoldSet(LAMBDA p, x : Dropped(PieceFailed(x, p), p), e, DOMAIN The(e.coord).chunks)

\* The greatest lease ever used here, and the journal's last sequence.
next_lease_floor(e) == Max({0, e.seq} \cup e.seen) + 1

\* finish_verification, one ready chunk: streamed bytes or the file's.
ChunkDigest(e, p) ==
  LET ch == The(e.coord).chunks[p]
  IN IF ch.readback THEN [i \in 1 .. ch.span.len |-> e.file[ch.span.off + i - 1]] ELSE ch.checkpoint
StartVerification(e, p) ==
  LET digest == ChunkDigest(e, p)
      by == Contributors(The(e.coord), p)
  IN IF ~verify_readback(The(e.coord), p, digest)
     THEN [Dropped(PieceFailed(Fresh(e), p), p) EXCEPT !.acks = {<<"ChecksumMismatch", p>>}]
     ELSE [append_payload(Fresh(e), "PieceVerified",
             [piece |-> p, span |-> piece_span(Layout, p), contributors |-> by, digest |-> digest])
           EXCEPT !.verifying = Some([piece |-> p, contributors |-> by, digest |-> digest])]
FinishVerification(e) ==
  LET v == The(e.verifying)
      durable == append_payload(sync_piece_files(e), "PieceDurable",
        [piece |-> v.piece, span |-> piece_span(Layout, v.piece), contributors |-> v.contributors,
         validators |-> ValidatorSet(v.contributors), digest |-> Some(v.digest), barrier |-> "StrictPiece"])
  IN [flush_journal(durable) EXCEPT !.coord = Some(mark_durable(The(@), v.piece)), !.verifying = None,
                                    !.acks = @ \cup {<<"PieceDurable", v.piece>>}]

FileDigest(e) == [i \in 1 .. Layout.total |-> e.file[i - 1]]
record_whole_file_verified(e, digest) ==
  [flush_journal(append_payload(e, "WholeFileVerified",
     [manifest |-> The(e.coord).manifest, digests |-> Some(digest)])) EXCEPT !.whole = TRUE]
verify_whole_file(e) ==
  IF ~is_complete(The(e.coord)) THEN Reject(e, "Verification")
  ELSE IF ~Is(The(e.coord).manifest.whole) THEN Fresh(e)
  ELSE IF The(e.coord).manifest.whole # Some(FileDigest(e)) THEN Reject(e, "ChecksumMismatch")
  ELSE record_whole_file_verified(Fresh(e), FileDigest(e))

complete_task(e) ==
  IF \/ IsVerified(e) /\ (~is_complete(The(e.coord)) \/ (Is(The(e.coord).manifest.whole) /\ ~e.whole))
     \/ DOMAIN e.active # {} \/ DOMAIN e.groups # {}
  THEN Reject(e, "Verification")
  ELSE flush_journal(append_payload(Fresh(e), "TaskComplete",
         [hash |-> LayoutHash(Layout), length |-> Layout.total]))

configure_verification(e, manifest, persisted, durable, force) ==
  LET logged == IF persisted THEN e
                ELSE flush_journal(append_payload(e, "VerificationManifest", [manifest |-> manifest, count |-> 1]))
  IN [logged EXCEPT !.coord = Some(NewCoordinator(manifest, durable, force))]
=================================================================================
