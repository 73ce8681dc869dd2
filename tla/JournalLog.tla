------------------------------- MODULE JournalLog -------------------------------
(***************************************************************************)
(* The control journal of one task on disk (journal.rs, the segment format *)
(* and its replay; journal_appender.rs, the one writer).  The header of a  *)
(* segment holds the generation it starts at, the sequence its records     *)
(* start at, and the last sequence and the hash of the segment before it;  *)
(* a torn segment ends in bytes that do not decode.  The files lie one     *)
(* after another: `written` is what they hold together and a segment knows *)
(* where its share of it ends, so what a start reads is that sequence cut  *)
(* at the ends.  A new segment is made under a temporary name, synced,     *)
(* published under its final name and the temporary name removed: each of  *)
(* those is a step a crash may follow.                                     *)
(***************************************************************************)
EXTENDS Maps, Integers, FiniteSets, SequencesExt

CONSTANTS Payloads, MaxGeneration, MaxSequence, MaxSegments,
          SegmentBudget, RecordBudget   \* ReplayLimits; the records stand for their bytes too

ASSUME JournalBounds == MaxGeneration \in Nat /\ MaxSequence \in Nat /\ MaxSegments \in Nat \ {0}

VARIABLES written,    \* the records of all segments, in order
          segments,   \* the final names, in order of index: [header, end, torn]
          candidate,  \* the temporary name of the next segment: [header, linked]
          synced,     \* how far into the records a sync has reached
          appender    \* ControlJournalAppender, or how far a recovery has come

journalVars == <<written, segments, candidate, synced, appender>>

Header(index, start, first, prevLast, prevHash) ==
  [index |-> index, start |-> start, first |-> first, prevLast |-> prevLast, prevHash |-> prevHash]
Before(segs, i) == IF i = 1 THEN 0 ELSE segs[i - 1].end
\* SegmentReplay: what the file of segment i decodes to.
Records(recs, segs, i) == SubSeq(recs, Before(segs, i) + 1, segs[i].end)
hash_segment(recs, segs, i) == <<segs[i].header, Records(recs, segs, i), segs[i].torn>>

first(generation) == Header(0, generation, 1, 0, << >>)
\* Mutant: the new segment starts at the sequence the one before it ended with.
SuccessorRepeats(h, last, hash, start) == Header(h.index + 1, start, last, last, hash)
successor(h, last, hash, start) == Header(h.index + 1, start, last + 1, last, hash)
\* Unlike a rotation, a recovery may follow a segment without records, but not the first.
CanFollow(h, last) == last >= h.first \/ (h.index # 0 /\ last + 1 = h.first)
recovery_successor(h, last, hash, start) == successor(h, last, hash, start)

Segment(h, end, torn) == [header |-> h, end |-> end, torn |-> torn]

decode_record(r, expected, start) == r.seq = expected /\ r.gen >= start

\* replay_ordered_segments: every header follows from the segment before it
\* and every record from the record before it.
header_ok(recs, segs, i) ==
  /\ segs[i].header.index = i - 1
  /\ segs[i].header.first = Before(segs, i) + 1
  /\ i > 1 => /\ segs[i].header.prevLast = Before(segs, i)
              /\ segs[i].header.prevHash = hash_segment(recs, segs, i - 1)
records_ok(recs, segs, i) ==
  \A k \in (Before(segs, i) + 1) .. segs[i].end : decode_record(recs[k], k, segs[i].header.start)
\* A journal the reader has no budget for: the writer knows no such limit.  A
\* torn tail counts as one record more.
OverBudget(recs, segs) ==
  \/ Len(segs) > SegmentBudget
  \/ Len(recs) > RecordBudget
  \/ Len(recs) = RecordBudget /\ \E i \in DOMAIN segs : segs[i].torn
replay_ordered_segments(recs, segs) ==
  LET torn == {i \in DOMAIN segs : segs[i].torn}
  IN IF OverBudget(recs, segs) THEN "ResourceLimit"
     ELSE CASE segs = << >> -> "NoSegments"
            [] \E i \in DOMAIN segs : ~header_ok(recs, segs, i) \/ ~records_ok(recs, segs, i) -> "Stopped"
            [] torn = {} -> "CleanEnd"
            [] torn = {Len(segs)} -> "RepairableTail"     \* repairable_recovery_tail
            [] OTHER -> "Stopped"

Active == segments[Len(segments)]
ActiveRecords == Records(written, segments, Len(segments))
Appended == Len(written)

Open(flushed) == [at |-> "open", flushed |-> flushed, fault |-> FALSE, handle |-> TRUE, recovering |-> FALSE]

\* create: the first segment, whose installation is not interrupted here.
JournalInit == /\ written = << >> /\ segments = <<Segment(first(0), 0, FALSE)>> /\ candidate = None
               /\ synced = 0 /\ appender = Open(0)

Healthy == appender.at = "open" /\ ~appender.fault

\* append: the handle is opened again when close_flushed had let it go.
append ==
  /\ Healthy /\ Appended < MaxSequence
  /\ \E g \in Active.header.start .. MaxGeneration, p \in Payloads :
       written' = Append(written, [seq |-> Appended + 1, gen |-> g, payload |-> p])
  /\ segments' = [segments EXCEPT ![Len(segments)] = Segment(@.header, Appended + 1, @.torn)]
  /\ appender' = [appender EXCEPT !.handle = TRUE]
  /\ UNCHANGED <<candidate, synced>>

\* A write that stops part way leaves bytes behind, and the appender takes no more.
append_fails ==
  /\ Healthy
  /\ \E torn \in BOOLEAN : segments' = [segments EXCEPT ![Len(segments)] = Segment(@.header, @.end, @.torn \/ torn)]
  /\ appender' = [appender EXCEPT !.fault = TRUE]
  /\ UNCHANGED <<written, candidate, synced>>

\* Mutant: a flush that reports success without having synced the segment.
FlushUnsynced ==
  /\ Healthy /\ appender.flushed < Appended
  /\ appender' = [appender EXCEPT !.flushed = Appended, !.handle = TRUE]
  /\ UNCHANGED <<written, segments, candidate, synced>>
flush ==
  /\ Healthy /\ appender.flushed < Appended
  /\ synced' = Appended
  /\ appender' = [appender EXCEPT !.flushed = Appended, !.handle = TRUE]
  /\ UNCHANGED <<written, segments, candidate>>

\* A failed sync may have reached the disk or not.
flush_fails ==
  /\ Healthy /\ appender.flushed < Appended
  /\ synced' \in synced .. Appended
  /\ appender' = [appender EXCEPT !.fault = TRUE]
  /\ UNCHANGED <<written, segments, candidate>>

close_flushed ==
  /\ Healthy /\ appender.handle /\ appender.flushed = Appended
  /\ appender' = [appender EXCEPT !.handle = FALSE]
  /\ UNCHANGED <<written, segments, candidate, synced>>

\* install_segment, from the temporary name to the last directory sync.
StartInstall(h, app) ==
  /\ candidate = None
  /\ candidate' = Some([header |-> h, linked |-> FALSE])
  /\ appender' = [app EXCEPT !.at = "temporary"]

rotate ==
  /\ Healthy /\ ActiveRecords # << >> /\ appender.flushed = Appended /\ Len(segments) < MaxSegments
  /\ \E g \in 0 .. MaxGeneration :
       StartInstall(successor(Active.header, Appended, hash_segment(written, segments, Len(segments)), g),
                    [appender EXCEPT !.handle = FALSE])
  /\ synced' = Appended
  /\ UNCHANGED <<written, segments>>

install_published ==
  /\ appender.at = "temporary"
  /\ segments' = Append(segments, Segment(The(candidate).header, Appended, FALSE))
  /\ candidate' = Some([The(candidate) EXCEPT !.linked = TRUE])
  /\ appender' = [appender EXCEPT !.at = "published"]
  /\ UNCHANGED <<written, synced>>

install_synced ==
  /\ appender.at = "published" /\ appender' = [appender EXCEPT !.at = "linked"]
  /\ UNCHANGED <<written, segments, candidate, synced>>

install_unlinked ==
  /\ appender.at = "linked" /\ candidate' = None
  /\ appender' = Open(Appended)
  /\ UNCHANGED <<written, segments, synced>>

\* Before publication a failure takes its temporary file away again; after it,
\* the segment stays.  A rotation that fails is a fault, a recovery that fails
\* is retried from the start.
install_fails ==
  /\ appender.at \in {"temporary", "published", "linked"}
  /\ candidate' = IF appender.at = "temporary" THEN None ELSE candidate
  /\ appender' = IF appender.recovering THEN [appender EXCEPT !.at = "down"]
                 ELSE [appender EXCEPT !.at = "open", !.fault = TRUE]
  /\ UNCHANGED <<written, segments, synced>>

\* The process ends, or the machine does.  What a sync has not reached may be
\* cut anywhere; a directory entry no sync has reached may be gone.
crash ==
  /\ appender.at # "lost" /\ appender.at # "down"
  /\ \E kept \in synced .. Appended, torn \in BOOLEAN, entry \in BOOLEAN :
       LET whole == kept = Appended
           cut == [segments EXCEPT ![Len(segments)] = Segment(@.header, kept, torn)]
           unsynced == appender.at = "published" /\ ~entry
       IN /\ torn => ~whole \/ Active.torn
          /\ entry \/ appender.at \in {"temporary", "published", "linked"}
          /\ written' = SubSeq(written, 1, kept) /\ synced' = kept
          /\ segments' = IF unsynced THEN SubSeq(segments, 1, Len(segments) - 1) ELSE cut
          /\ candidate' \in CASE appender.at = "temporary" -> {None, candidate}
                              [] unsynced -> {None, Some([The(candidate) EXCEPT !.linked = FALSE])}
                              [] appender.at = "linked" /\ ~entry -> {None}
                              [] OTHER -> {candidate}
  /\ appender' = [at |-> "down", flushed |-> appender.flushed, fault |-> FALSE, handle |-> FALSE, recovering |-> FALSE]

\* discover_segment_paths and prepare_recovered_in: every temporary name must
\* be the same file as a final name, and the segments must replay.
validate_published_candidates == Is(candidate) => The(candidate).linked
\* The final names are always those of the segments, so nothing but a
\* temporary name can be in the way.
discover_segment_paths == validate_published_candidates
prepare_recovered_in == discover_segment_paths
                        /\ replay_ordered_segments(written, segments) \in {"CleanEnd", "RepairableTail"}

recover_refused ==
  /\ appender.at = "down" /\ ~prepare_recovered_in
  /\ appender' = [appender EXCEPT !.at = "lost"] /\ UNCHANGED <<written, segments, candidate, synced>>

Repaired == [segments EXCEPT ![Len(segments)] = Segment(@.header, @.end, FALSE)]

\* open_clean_recovered_appender, also after a first segment without a record
\* has had its tail cut off.
recover_clean ==
  /\ appender.at = "down" /\ prepare_recovered_in
  /\ ~Active.torn \/ (Appended = 0 /\ Len(segments) = 1)
  /\ segments' = Repaired /\ candidate' = None
  /\ synced' = Appended /\ appender' = Open(Appended) /\ UNCHANGED written

\* open_repaired_recovered_appender: cut the tail, then start a new segment.
recover_repair ==
  /\ appender.at = "down" /\ prepare_recovered_in
  /\ Active.torn /\ CanFollow(Active.header, Appended) /\ Len(segments) < MaxSegments
  /\ segments' = Repaired /\ synced' = Appended /\ UNCHANGED written
  /\ \E g \in 0 .. MaxGeneration :
       /\ candidate' = Some([header |-> recovery_successor(Active.header, Appended,
                                          hash_segment(written, Repaired, Len(segments)), g), linked |-> FALSE])
       /\ appender' = [at |-> "temporary", flushed |-> appender.flushed, fault |-> FALSE,
                       handle |-> FALSE, recovering |-> TRUE]

JournalNext ==
  \/ append \/ append_fails \/ flush \/ flush_fails \/ close_flushed
  \/ rotate \/ install_published \/ install_synced \/ install_unlinked \/ install_fails
  \/ crash \/ recover_refused \/ recover_clean \/ recover_repair

JournalSpec == JournalInit /\ [][JournalNext]_journalVars

----------------------------------------------------------------------------
JournalTypeOK ==
  /\ Len(segments) \in 1 .. MaxSegments + 1 /\ Appended \in 0 .. MaxSequence
  /\ appender.at \in {"open", "temporary", "published", "linked", "down", "lost"}
  /\ appender.flushed \in 0 .. Appended /\ synced \in 0 .. Appended

\* What is on disk replays, up to a torn tail of its last segment, as long as
\* the reader has the budget: no rotation, repair, failed write or crash leaves
\* a chain that replay_ordered_segments would stop at, so a journal is lost only
\* to an unpublished temporary file or to its length.
ChainReplays ==
  ~OverBudget(written, segments) => replay_ordered_segments(written, segments) \in {"CleanEnd", "RepairableTail"}

\* The implementation of DurableLog: the records of all segments are its
\* contents, the flushed sequence its acknowledgement.
Phase == CASE appender.at = "open" -> IF appender.fault THEN "faulted" ELSE "open"
           [] appender.at \in {"temporary", "published", "linked"} -> "installing"
           [] OTHER -> appender.at
Abstract == INSTANCE DurableLog WITH
  Record <- [seq : 1 .. MaxSequence, gen : 0 .. MaxGeneration, payload : Payloads],
  contents <- written, acknowledged <- appender.flushed, phase <- Phase

\* The segmented journal implements the log its callers rely on: through
\* rotation, torn writes, failed syncs, crashes at any step of a segment's
\* installation and repair, nothing a flush acknowledged is lost or changed.
ImplementsDurableLog == Abstract!LogSpec

\* The log is typed, and whatever is on disk replays to what was accepted.
LogSound == JournalTypeOK /\ ChainReplays

=================================================================================
