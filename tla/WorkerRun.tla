------------------------------- MODULE WorkerRun -------------------------------
(***************************************************************************)
(* The worker of one task over its runs, generations and crashes: what it  *)
(* recovers from the journal and the file, which sources it accepts for    *)
(* it, and what it leaves behind when a run ends.  The moves inside a      *)
(* segmented transfer are RangeTransfer's; here a piece arrives or not.    *)
(*                                                                         *)
(* A source serves one version of the file at a time and may move to the   *)
(* next one.  A version is the number its validators carry; a piece on     *)
(* disk is the version it came from, 0 when nothing was written.           *)
(***************************************************************************)
EXTENDS Maps, Integers, FiniteSets
LOCAL INSTANCE Functions
LOCAL INSTANCE SequencesExt

CONSTANTS Tasks,               \* what may be downloaded, see the MC module
          MaxAttempts, MaxPerMirror,   \* max_attempts, max_attempts_per_mirror
          MaxGenerations, MaxFailures, MaxQueued

VARIABLES task,       \* sources, checksum, policy: the admitted task
          wants,      \* its output and piece length in this generation
          remote,     \* source -> version it serves
          journal,    \* what a replay of the task's journal finds, and who holds it
          disk,       \* output path -> the file there
          run,        \* the worker
          completed,  \* HttpCompletedEvidence in the statistics
          follow,     \* metadata handed to the control plane
          seen        \* failures so far, connections made in this generation, and
                      \* whether a source changed under an open FTP connection

workerVars == <<task, wants, remote, journal, disk, run, completed, follow, seen>>

Versions == {1, 2}
Outputs == {1, 2}
Sources == DOMAIN task.sources
KindOf(s) == task.sources[s].kind
StyleOf(s) == task.sources[s].style
Of(kind) == {s \in Sources : KindOf(s) = kind}
Total(v) == task.lengths[v]
Pieces(total) == 0 .. total - 1
requires_protocol_dispatch == task.manifest \/ \E s \in Sources : KindOf(s) # "http"
has_strict_content_identity == task.checksum # 0

\* What a probe of a source that serves v yields.  A representation digest
\* covers the probed bytes only, which two versions may share.
Token(s, v) == CASE StyleOf(s) \in {"strong", "date", "mtime"} -> v
                 [] StyleOf(s) = "digest" -> task.firstBytes[v]
                 [] OTHER -> 0
fingerprint(s, v) == <<1, s, Total(v), Token(s, v)>>
strong_validator_fingerprint(v) == <<2, 0, Total(v), v>>
shared_range_identity_fingerprint(digest, total) == <<3, 0, total, digest>>
ProtocolValidator(s, v) == <<4, s, Total(v), Token(s, v)>>
permits_resume(new, old, hasChecksum) == new = old /\ (new[4] # 0 \/ hasChecksum)
if_range(s) == StyleOf(s) = "strong"

PreparedSource(s, v) ==
  [source |-> s, version |-> v, ordinary |-> TRUE, endgame |-> FALSE,
   lease |-> IF KindOf(s) = "http" THEN fingerprint(s, v) ELSE ProtocolValidator(s, v)]

Idle == [step |-> "idle", flow |-> "http", cancel |-> FALSE, next |-> 1, sources |-> << >>, storage |-> "Fresh",
         identity |-> None, total |-> 0, pieces |-> {}, sessions |-> {}, connection |-> None, stream |-> 0,
         index |-> 1, exhausted |-> {}]

WorkerInit ==
  /\ task \in Tasks
  /\ wants = [output |-> 1, geometry |-> 1]
  /\ remote = [s \in Sources |-> task.sources[s].serves]
  /\ journal = [at |-> "none", gen |-> 0, layout |-> None, strong |-> None, identity |-> None, durable |-> EmptyMap,
                retries |-> [s \in Sources |-> 0], validators |-> [s \in Sources |-> None], terminal |-> FALSE]
  /\ disk = [o \in Outputs |-> None]
  /\ run = Idle
  /\ completed = FALSE
  /\ follow = [queue |-> << >>, pending |-> None, expansion |-> None, batches |-> 0]
  /\ seen = [failures |-> 0, connects |-> [s \in Sources |-> 0], slipped |-> FALSE]
-----------------------------------------------------------------------------
(* The journal: held by the worker, by the session's owner, or closed.     *)

\* open_task_journal gives the worker a journal; manage passes it to the owner.
open_task_journal(j) == IF j.at = "owner" THEN j ELSE [j EXCEPT !.at = "local"]
manage(j) == IF task.session THEN [j EXCEPT !.at = "owner"] ELSE j
close_flushed(j) == IF j.at = "local" THEN [j EXCEPT !.at = "closed"] ELSE j
handoff_journal(j) == close_flushed(manage(j))
handoff_new_or_recovered_journal(j) == handoff_journal(open_task_journal(j))

LayoutId(l) == <<l.output, l.geometry, l.total>>
append_layout(j, total) ==
  LET new == [gen |-> j.gen, output |-> wants.output, geometry |-> wants.geometry, total |-> total]
      kept == j.layout # None /\ LayoutId(The(j.layout)) = LayoutId(new)
  IN [j EXCEPT !.layout = Some(new), !.durable = IF kept THEN @ ELSE EmptyMap]
append_http_strong_validator(j, s, v) ==
  [j EXCEPT !.strong = Some([source |-> s, total |-> Total(v), tag |-> v])]
append_piece(j, p, lease, v) == [j EXCEPT !.durable = Put(@, p, [lease |-> lease, digest |-> v])]

File(total) == [len |-> total, bytes |-> [p \in Pieces(total) |-> 0]]
At(output) == The(disk[output])
set_len(file, total) ==
  [len |-> total, bytes |-> [p \in Pieces(total) |-> IF p < file.len THEN file.bytes[p] ELSE 0]]
Written(output, p, v) == [disk EXCEPT ![output] = Some([The(@) EXCEPT !.bytes[p] = v])]

\* A worker without a session drops its appender when it ends.
Ends(j) == journal' = (IF task.session THEN j ELSE close_flushed(j)) /\ run' = Idle
Rest == UNCHANGED <<task, wants, remote, follow, seen>>
Stays == UNCHANGED <<task, wants, remote, follow>>
-----------------------------------------------------------------------------
(* Recovering the output of an HTTP task.                                  *)

Readmitted(j) == The(j.layout).gen # j.gen
\* The file of an earlier layout is this task's output still.
Placed(j) == j.layout # None /\ The(j.layout).output = wants.output
Evidence(j) == IF Placed(j) /\ The(j.layout).geometry = wants.geometry THEN j.durable ELSE EmptyMap
verify_recovered_piece_digests(file, evidence) ==
  \A p \in DOMAIN evidence : p < file.len /\ file.bytes[p] = evidence[p].digest
open_existing_file(j) ==
  /\ disk[wants.output] # None
  /\ At(wants.output).len = The(j.layout).total
  /\ verify_recovered_piece_digests(At(wants.output), Evidence(j))
prepare_storage(j) ==
  CASE j.terminal -> "refused"
    [] ~j.terminal /\ j.layout = None -> "Fresh"
    [] ~j.terminal /\ j.layout # None /\ Readmitted(j) /\ ~Placed(j) -> "Fresh"
    [] ~j.terminal /\ Placed(j) /\ Readmitted(j) /\ open_existing_file(j) -> "Readmission"
    [] ~j.terminal /\ Placed(j) /\ ~Readmitted(j) /\ The(j.layout).geometry = wants.geometry
         /\ open_existing_file(j) -> "Recovered"
    [] OTHER -> "refused"
fully_durable_length(j, storage) ==
  storage = "Recovered" /\ DOMAIN j.durable = Pieces(The(j.layout).total)

\* run_payload_task up to its first wait: a task with a checksum whose pieces
\* are all durable asks no source again.
BeginPayload ==
  /\ run.step = "idle" /\ ~task.slice /\ ~requires_protocol_dispatch /\ follow.expansion = None
  /\ LET j == open_task_journal(journal)
         storage == prepare_storage(j)
         whole == has_strict_content_identity /\ fully_durable_length(j, storage)
         begun == [Idle EXCEPT !.step = IF whole THEN "verify" ELSE "probe", !.storage = storage,
                               !.identity = IF storage = "Fresh" THEN None ELSE j.identity,
                               !.pieces = DOMAIN Evidence(j), !.total = IF whole THEN The(j.layout).total ELSE 0]
     IN IF storage = "refused" THEN Ends(handoff_new_or_recovered_journal(journal))
        ELSE journal' = manage(j) /\ run' = begun
  /\ completed' = FALSE /\ Rest /\ UNCHANGED disk
-----------------------------------------------------------------------------
(* Probing, and choosing among, the HTTP sources.                          *)

Matches(src, total, digest) ==
  /\ StyleOf(src.source) = "digest" /\ Total(src.version) = total /\ Token(src.source, src.version) = digest
Shared(list, mark) == [i \in DOMAIN list |-> [list[i] EXCEPT !.lease = mark, !.ordinary = i = 1, !.endgame = TRUE]]

\* Without a whole-entity digest a strict task keeps one source, or several
\* whose probed digest is the same (or the one recorded before a restart).
select_sources(prepared, identity) ==
  LET strict == task.policy = "RequireSharedDigest" /\ ~has_strict_content_identity
      first == Head(prepared)
      digest == Token(first.source, first.version)
      total == Total(first.version)
  IN CASE prepared = << >> -> << >>
       [] prepared # << >> /\ strict /\ identity # None ->
            Shared(SelectSeq(prepared, LAMBDA src : Matches(src, The(identity).total, The(identity).digest)),
                   shared_range_identity_fingerprint(The(identity).digest, The(identity).total))
       [] prepared # << >> /\ strict /\ identity = None /\ Len(prepared) > 1 ->
            IF \A i \in DOMAIN prepared : Matches(prepared[i], total, digest)
            THEN Shared(prepared, shared_range_identity_fingerprint(digest, total))
            ELSE <<first>>
       [] OTHER -> prepared

\* probe_source: the answer is a validator, metadata to follow, or a failure.
probe_source(s) ==
  LET src == PreparedSource(s, remote[s])
      settled == run.sources = << >> \/ Total(Head(run.sources).version) = Total(remote[s])
  IN run' = [run EXCEPT !.next = s + 1, !.sources = IF settled THEN Append(@, src) ELSE @]
SkipSource == run' = [run EXCEPT !.next = @ + 1]
Probe ==
  /\ run.step = "probe" /\ ~run.cancel /\ run.next \in Sources
  /\ \/ KindOf(run.next) = "http" /\ task.metadata = "no" /\ probe_source(run.next) /\ UNCHANGED journal
     \/ SkipSource /\ UNCHANGED journal
     \/ /\ task.metadata # "no"                                  \* MetalinkDiscovered, TorrentDiscovered
        /\ journal' = handoff_journal(journal) /\ run' = [Idle EXCEPT !.step = "follow"]
  /\ Rest /\ UNCHANGED <<disk, completed>>

ProbesDone ==
  /\ run.step = "probe" /\ ~run.cancel /\ run.next \notin Sources
  /\ LET chosen == select_sources(run.sources, run.identity)
         began == [run EXCEPT !.sources = chosen, !.next = 1, !.total = IF chosen = << >> THEN 0 ELSE Total(Head(chosen).version)]
     IN CASE run.flow = "http" /\ chosen # << >> ->
               /\ run' = [began EXCEPT !.step = IF run.identity # None /\ run.pieces # {} THEN "rebind" ELSE "finish"]
               /\ UNCHANGED journal
          [] run.flow = "http" /\ chosen = << >> -> Ends(handoff_journal(journal))
          [] run.flow # "http" /\ (chosen # << >> \/ \E s \in Sources : KindOf(s) # "http") ->
               run' = [began EXCEPT !.step = "connect"] /\ UNCHANGED journal
          [] OTHER -> Ends(journal)
  /\ Rest /\ UNCHANGED <<disk, completed>>

\* verify_recovered_range_digests: each durable piece is read again from the
\* source that will serve the rest.
Rebind ==
  /\ run.step = "rebind" /\ ~run.cancel
  /\ LET evidence == Evidence(journal)
         src == Head(run.sources)
         left == run.pieces \ Pieces(run.next - 1)
         p == CHOOSE q \in left : \A r \in left : q <= r
         same == Total(remote[src.source]) = run.total /\ remote[src.source] = evidence[p].digest
     IN IF left = {} THEN run' = [run EXCEPT !.step = "finish", !.next = 1] /\ UNCHANGED journal
        ELSE \/ same /\ run' = [run EXCEPT !.next = p + 2] /\ UNCHANGED journal
             \/ Ends(handoff_journal(journal))
  /\ Rest /\ UNCHANGED <<disk, completed>>
-----------------------------------------------------------------------------
(* finish_storage: only sources that can vouch for the recovered pieces.   *)

bind_recovered_strong_validator(list, strong) ==
  IF strong = None THEN list
  ELSE LET old == The(strong)
           same(src) == src.source = old.source /\ if_range(src.source) /\ src.version = old.tag
       IN IF old.total # run.total THEN << >>
          ELSE [i \in DOMAIN SelectSeq(list, same) |->
                  [SelectSeq(list, same)[i] EXCEPT !.lease = strong_validator_fingerprint(old.tag)]]
bind_recovered_range_identity(list, identity) ==
  IF identity = None THEN list
  ELSE SelectSeq(list, LAMBDA src : src.endgame /\ Matches(src, run.total, The(identity).digest))
ValidatorsTrusted(evidence, list) == TRUE
verify_recovered_piece_validators(evidence, list) ==
  LET accepted == {list[i].lease : i \in {k \in DOMAIN list : if_range(list[k].source) \/ list[k].endgame}}
  IN \A p \in DOMAIN evidence : evidence[p].lease \in accepted

\* A single source with a strong ETag is bound to it once the layout is flushed.
BindsStrong(list) == ~has_strict_content_identity /\ Len(list) = 1 /\ if_range(list[1].source)

FinishFresh ==                                     \* create_new_file, set_len
  /\ run.step = "finish" /\ run.storage = "Fresh"
  /\ IF disk[wants.output] = None
     THEN /\ disk' = [disk EXCEPT ![wants.output] = Some(File(run.total))]
          /\ run' = [run EXCEPT !.step = "layout", !.pieces = {}] /\ UNCHANGED journal
     ELSE Ends(handoff_new_or_recovered_journal(journal)) /\ UNCHANGED disk
  /\ Rest /\ UNCHANGED completed
FinishRecovered ==
  /\ run.step = "finish" /\ run.storage = "Recovered"
  /\ LET list == bind_recovered_range_identity(
                   bind_recovered_strong_validator(run.sources, journal.strong), run.identity)
         accepted == /\ The(journal.layout).total = run.total
                     /\ \/ has_strict_content_identity
                        \/ list # << >> /\ verify_recovered_piece_validators(journal.durable, list)
         kept == IF has_strict_content_identity THEN run.sources ELSE list
     IN IF accepted THEN run' = [run EXCEPT !.step = "ranges", !.sources = kept] /\ UNCHANGED journal
        ELSE Ends(handoff_new_or_recovered_journal(journal))
  /\ Rest /\ UNCHANGED <<disk, completed>>
FinishReadmission ==
  /\ run.step = "finish" /\ run.storage = "Readmission"
  /\ LET j == append_layout(journal, run.total)
         retains == LayoutId(The(journal.layout)) = LayoutId(The(j.layout))
         list == IF retains /\ ~has_strict_content_identity
                 THEN bind_recovered_range_identity(run.sources, run.identity) ELSE run.sources
         accepted == has_strict_content_identity \/ ~retains
                     \/ (list # << >> /\ verify_recovered_piece_validators(Evidence(journal), list))
     IN /\ disk' = [disk EXCEPT ![wants.output] = Some(set_len(The(@), run.total))]
        /\ IF accepted THEN journal' = j /\ run' = [run EXCEPT !.step = "bind", !.sources = list,
                                                    !.pieces = IF retains THEN @ ELSE {}]
           ELSE Ends(handoff_new_or_recovered_journal(j))
  /\ Rest /\ UNCHANGED completed
CommitLayout ==
  /\ run.step = "layout"
  /\ journal' = append_layout(journal, run.total)
  /\ run' = [run EXCEPT !.step = IF run.flow = "http" THEN "bind" ELSE "opened"]
  /\ Rest /\ UNCHANGED <<disk, completed>>
BindSources ==
  /\ run.step = "bind"
  /\ LET src == Head(run.sources)
         shares == run.identity = None /\ Len(run.sources) > 1 /\ \A i \in DOMAIN run.sources : run.sources[i].endgame
     IN IF BindsStrong(run.sources)
        THEN /\ journal' = append_http_strong_validator(journal, src.source, src.version)
             /\ run' = [run EXCEPT !.step = "ranges", !.sources[1].lease = strong_validator_fingerprint(src.version)]
        ELSE /\ journal' = IF shares THEN [journal EXCEPT !.identity =
                                             Some([total |-> run.total, digest |-> Token(src.source, src.version)])]
                           ELSE journal
             /\ run' = [run EXCEPT !.step = "ranges"]
  /\ Rest /\ UNCHANGED <<disk, completed>>
-----------------------------------------------------------------------------
(* The transfer, the final digest and the completion.                      *)

validate_range(src) ==
  /\ Total(remote[src.source]) = run.total
  /\ StyleOf(src.source) \in {"strong", "date"} => remote[src.source] = src.version
Whole == run.pieces = Pieces(run.total)
Refetch(src) == KindOf(src.source) # "http"

\* A piece arrives from a source whose answer still matches its probe; it is
\* durable, or the attempt dies with the bytes written.  A verified piece must
\* have its chunk's digest.
FetchPiece ==
  /\ run.step = "ranges" /\ ~run.cancel
  /\ \E i \in DOMAIN run.sources, p \in Pieces(run.total) \ run.pieces :
       LET src == run.sources[i]
           v == remote[src.source]
       IN /\ src.ordinary /\ (Refetch(src) => src.source \in run.sessions /\ Total(v) = run.total)
          /\ Refetch(src) \/ validate_range(src)
          /\ disk' = Written(wants.output, p, v)
          /\ \/ /\ task.manifest => v = task.checksum
                /\ journal' = append_piece(journal, p, src.lease, v)
                /\ run' = [run EXCEPT !.pieces = @ \cup {p}]
             \/ UNCHANGED <<journal, run>>
  /\ Rest /\ UNCHANGED completed
\* A stale answer ends the run, unless the policy revalidates it and the
\* checksum will settle what the source is (revalidate_range_source).
revalidate_range_source ==
  /\ run.step = "ranges" /\ ~run.cancel /\ has_strict_content_identity
  /\ \E i \in DOMAIN run.sources :
       LET src == run.sources[i]
       IN /\ ~Refetch(src) /\ ~validate_range(src) /\ Total(remote[src.source]) = run.total
          /\ run' = [run EXCEPT !.sources[i].version = remote[src.source],
                                !.sources[i].lease = fingerprint(src.source, remote[src.source])]
  /\ Rest /\ UNCHANGED <<journal, disk, completed>>
\* A closed SFTP session is drained and dialled again for the same file.
SftpReconnect ==
  /\ run.step = "ranges" /\ ~run.cancel
  /\ \E i \in DOMAIN run.sources :
       LET src == run.sources[i]
           s == src.source
           fresh == ProtocolValidator(s, remote[s])
       IN /\ KindOf(s) = "sftp" /\ ~Whole
          /\ IF permits_resume(fresh, src.lease, has_strict_content_identity)
             THEN journal' = [journal EXCEPT !.validators[s] = Some(fresh)] /\ UNCHANGED run
             ELSE Ends(handoff_journal(journal))
  /\ Rest /\ UNCHANGED <<disk, completed>>

\* SftpSession::finish at the end of a good transfer: size and time as at the start.
finish_sessions == \A i \in DOMAIN run.sources :
                     run.sources[i].source \in run.sessions =>
                       ProtocolValidator(run.sources[i].source, remote[run.sources[i].source]) = run.sources[i].lease
RangesDone ==
  /\ run.step = "ranges" /\ Whole /\ finish_sessions
  /\ run' = [run EXCEPT !.step = "verify", !.sessions = {}]
  /\ Rest /\ UNCHANGED <<journal, disk, completed>>
\* run_ranges gives up: attempts exhausted, a stale source, a changed session.
\* An FTP source of the task then takes over from what is verified.
RangesFail ==
  /\ run.step = "ranges" /\ ~run.cancel
  /\ IF run.flow = "other" /\ Of("ftp") # {}
     THEN /\ run' = [run EXCEPT !.step = "ftp", !.flow = "ftp", !.sessions = {}, !.sources = << >>,
                                !.pieces = DOMAIN journal.durable, !.next = 1]
          /\ UNCHANGED journal
     ELSE Ends(handoff_journal(journal))
  /\ Rest /\ UNCHANGED <<disk, completed>>

hash_output(expected) ==
  At(wants.output).len = run.total /\ \A p \in Pieces(run.total) : At(wants.output).bytes[p] = expected
verify_expected_checksum ==
  /\ run.step = "verify" /\ ~run.cancel
  /\ IF ~has_strict_content_identity \/ hash_output(task.checksum)
     THEN run' = [run EXCEPT !.step = "complete"] /\ UNCHANGED journal
     ELSE Ends(handoff_journal(journal))
  /\ Rest /\ UNCHANGED <<disk, completed>>
complete_storage_outcome ==
  /\ run.step = "complete"
  /\ journal' = handoff_journal([journal EXCEPT !.terminal = TRUE])
  /\ run' = [run EXCEPT !.step = "record"]
  /\ Rest /\ UNCHANGED <<disk, completed>>
record_completion ==
  /\ run.step = "record" /\ completed' = TRUE /\ run' = Idle /\ Rest /\ UNCHANGED <<journal, disk>>
-----------------------------------------------------------------------------
(* Manifest, SFTP and FTP tasks.                                           *)

BeginProtocol ==
  /\ run.step = "idle" /\ ~task.slice /\ requires_protocol_dispatch
  /\ run' = [Idle EXCEPT !.step = "probe", !.flow = IF Sources = Of("http") THEN "manifest" ELSE "other"]
  /\ completed' = FALSE /\ Rest /\ UNCHANGED <<journal, disk>>

\* connection_retry_budget and persist_connection_retry: the attempts made on
\* a source outlive the worker that made them.
AttemptsMade(j) == FoldFunctionOnSet(LAMBDA a, b : a + b, 0, j.retries, DOMAIN j.retries)
begin_attempt(j, s) == j.retries[s] < MaxPerMirror /\ AttemptsMade(j) < MaxAttempts
RetryUnrecorded(j, s) == j
persist_connection_retry(j, s) == [j EXCEPT !.retries[s] = @ + 1]
Counted(s) == seen' = [seen EXCEPT !.connects[s] = @ + 1]

\* connect_sftp_with_retry for each SFTP source, run_ftp_task until one FTP
\* source answers.
Undialled == {s \in Of(IF run.flow = "ftp" THEN "ftp" ELSE "sftp") : s >= run.next}
Connect ==
  /\ run.step = "connect" /\ ~run.cancel /\ Undialled # {}
  /\ LET s == CHOOSE q \in Undialled : \A r \in Undialled : q <= r
         j == close_flushed(manage(open_task_journal(journal)))
     IN \/ /\ begin_attempt(j, s)
           /\ journal' = persist_connection_retry(j, s) /\ run' = [run EXCEPT !.step = "dial", !.next = s]
        \/ journal' = j /\ run' = [run EXCEPT !.next = s + 1]             \* no attempt or time is left
  /\ Rest /\ UNCHANGED <<disk, completed>>
\* SftpSession::connect: an unknown host key ends the run with a challenge, a
\* file of another length is drained.
sftp_connect(s, skipped) ==
  LET fits == run.sources # << >> => Total(Head(run.sources).version) = Total(remote[s])
  IN \/ run' = Idle
     \/ run' = IF fits THEN [skipped EXCEPT !.sources = Append(@, PreparedSource(s, remote[s])), !.sessions = @ \cup {s}]
               ELSE skipped
\* FtpSession::connect: SIZE and MDTM are asked for before any data.
ftp_connect(s) ==
  run' = [run EXCEPT !.step = "open", !.connection = Some([source |-> s, version |-> remote[s]]),
                     !.total = Total(remote[s]), !.index = s]
Dial ==
  /\ run.step = "dial" /\ ~run.cancel
  /\ LET s == run.next
         again == [run EXCEPT !.step = "connect"]
         skipped == [again EXCEPT !.next = s + 1]
     IN /\ \/ run' = again \/ run' = skipped                                \* budget.failure: retry, or not
           \/ run.flow # "ftp" /\ sftp_connect(s, skipped)
           \/ run.flow = "ftp" /\ ftp_connect(s)
        /\ Counted(s)
  /\ Stays /\ UNCHANGED <<journal, disk, completed>>
ConnectDone ==
  /\ run.step = "connect" /\ ~run.cancel /\ Undialled = {}
  /\ LET alone == task.policy = "RequireSharedDigest" /\ ~has_strict_content_identity
         kept == IF alone THEN <<Head(run.sources)>> ELSE run.sources
     IN CASE run.sources # << >> ->
               run' = [run EXCEPT !.step = "open", !.sources = kept, !.total = Total(Head(run.sources).version),
                                  !.sessions = @ \cap {kept[i].source : i \in DOMAIN kept}]
          [] run.sources = << >> /\ run.flow = "other" /\ Of("ftp") # {} -> run' = [run EXCEPT !.flow = "ftp", !.next = 1]
          [] OTHER -> run' = Idle
  /\ Rest /\ UNCHANGED <<journal, disk, completed>>

\* open_protocol_storage: pieces a crash left must match the file and the
\* manifest; otherwise the output is created.
protocol_layout_matches(j) ==
  /\ LayoutId(The(j.layout)) = <<wants.output, wants.geometry, run.total>>
  /\ disk[wants.output] # None /\ At(wants.output).len = run.total
  /\ verify_recovered_piece_digests(At(wants.output), j.durable)
  /\ task.manifest => \A p \in DOMAIN j.durable : j.durable[p].digest = task.checksum
open_protocol_storage ==
  /\ run.step = "open"
  /\ LET j == manage(open_task_journal(journal))
         fits == task.manifest => Total(task.checksum) = run.total         \* transfer_manifest
     IN CASE fits /\ ~j.terminal /\ j.layout # None /\ protocol_layout_matches(j) ->
               /\ journal' = append_layout(j, run.total)
               /\ run' = [run EXCEPT !.step = "opened", !.pieces = DOMAIN j.durable] /\ UNCHANGED disk
          [] fits /\ ~j.terminal /\ j.layout = None /\ disk[wants.output] = None ->
               /\ disk' = [disk EXCEPT ![wants.output] = Some(File(run.total))]
               /\ journal' = j /\ run' = [run EXCEPT !.step = "layout", !.pieces = {}]
          [] OTHER -> Ends(IF fits THEN j ELSE journal) /\ UNCHANGED disk
  /\ Rest /\ UNCHANGED completed

\* Recovered pieces are continued from an SFTP server that still reports the
\* size and time they were fetched under.
PermitsPieces(s, fresh) ==
  \/ run.pieces = {} \/ has_strict_content_identity
  \/ journal.validators[s] # None /\ permits_resume(fresh, The(journal.validators[s]), FALSE)
run_other_protocols ==
  /\ run.step = "opened"
  /\ LET sftp == {i \in DOMAIN run.sources : run.sources[i].source \in run.sessions}
         marks == [s \in Sources |-> IF \E i \in sftp : run.sources[i].source = s
                                     THEN Some((CHOOSE x \in {run.sources[i] : i \in sftp} : x.source = s).lease)
                                     ELSE journal.validators[s]]
     IN CASE run.flow = "ftp" -> /\ UNCHANGED journal
                                /\ \E reused \in BOOLEAN :              \* ftp_reuse_connection
                                     run' = [run EXCEPT !.step = "ftp", !.connection = IF reused THEN @ ELSE None]
          [] run.flow # "ftp" /\ \A i \in sftp : PermitsPieces(run.sources[i].source, run.sources[i].lease) ->
               journal' = [journal EXCEPT !.validators = marks] /\ run' = [run EXCEPT !.step = "ranges"]
          [] OTHER -> Ends(handoff_journal(journal))
  /\ Rest /\ UNCHANGED <<disk, completed>>
-----------------------------------------------------------------------------
(* run_ftp_sources: one sequential stream, from the verified prefix on.    *)

NextFtp == LET left == Of("ftp") \ run.exhausted
               after == {s \in left : s >= run.index}
               from == IF after = {} THEN left ELSE after
           IN CHOOSE s \in from : \A r \in from : s <= r
FtpAttempt ==
  /\ run.step = "ftp" /\ ~run.cancel /\ run.connection = None
  /\ IF Of("ftp") \subseteq run.exhausted THEN Ends(handoff_journal(journal))
     ELSE \/ /\ begin_attempt(journal, NextFtp)
             /\ journal' = persist_connection_retry(journal, NextFtp)
             /\ run' = [run EXCEPT !.step = "redial", !.index = NextFtp]
          \/ UNCHANGED journal /\ run' = [run EXCEPT !.exhausted = @ \cup {NextFtp}, !.index = NextFtp]
  /\ Rest /\ UNCHANGED <<disk, completed>>
FtpFailed == \/ run' = [run EXCEPT !.step = "ftp", !.connection = None, !.stream = 0] /\ UNCHANGED journal
             \/ /\ run' = [run EXCEPT !.step = "ftp", !.connection = None, !.stream = 0,
                                      !.exhausted = @ \cup {run.index}]
                /\ UNCHANGED journal
             \/ Ends(handoff_journal(journal))                            \* not retriable
FtpDial ==
  /\ run.step = "redial" /\ ~run.cancel
  /\ \/ /\ run' = [run EXCEPT !.step = "ftp", !.connection = Some([source |-> run.index, version |-> remote[run.index]])]
        /\ UNCHANGED journal
     \/ FtpFailed
  /\ Counted(run.index) /\ Stays /\ UNCHANGED <<disk, completed>>
\* Pieces beyond the contiguous prefix are invalidated; RETR starts behind it.
FtpResume ==
  /\ run.step = "ftp" /\ ~run.cancel /\ run.connection # None
  /\ LET s == The(run.connection).source
         fresh == ProtocolValidator(s, The(run.connection).version)
         prefix == {p \in run.pieces : 0 .. p \subseteq run.pieces}
     IN IF fresh[3] # run.total \/ ~PermitsPieces(s, fresh) THEN Ends(handoff_journal(journal))
        ELSE /\ journal' = [journal EXCEPT !.validators[s] = Some(fresh), !.durable = Without(@, run.pieces \ prefix)]
             /\ run' = [run EXCEPT !.pieces = prefix, !.stream = remote[s],
                                   !.step = IF prefix = Pieces(run.total) THEN "verify" ELSE "stream"]
  /\ Rest /\ UNCHANGED <<disk, completed>>
stream_ftp ==
  /\ run.step = "stream" /\ ~run.cancel
  /\ LET p == Cardinality(run.pieces)
         v == run.stream
         last == p + 1 = run.total
         whole == last => Total(v) = run.total                            \* OversizedBody otherwise
         fingerprinted == ProtocolValidator(run.index, The(run.connection).version)
     IN /\ p < Total(v)
        /\ disk' = Written(wants.output, p, v)
        /\ IF whole /\ (task.manifest => v = task.checksum)
           THEN /\ journal' = append_piece(journal, p, fingerprinted, v)
                /\ run' = [run EXCEPT !.pieces = @ \cup {p}, !.step = IF last THEN "verify" ELSE @]
           ELSE Ends(handoff_journal(journal))
  /\ Rest /\ UNCHANGED completed
\* ShortBody, a timeout or a lost connection: the lease is aborted.
FtpBroken ==
  /\ run.step = "stream" /\ ~run.cancel /\ FtpFailed
  /\ Rest /\ UNCHANGED <<disk, completed>>
-----------------------------------------------------------------------------
(* Metadata: the document is fetched whole, kept beside the task when the  *)
(* option says so, and its children are admitted by the control plane.     *)

Retained == task.metadata = "kept"
Document(v) == [len |-> Total(v), bytes |-> [p \in Pieces(Total(v)) |-> v]]
save_metadata_document(j, v) ==
  IF j.layout = None THEN disk[wants.output] = None
  ELSE The(j.layout).output = wants.output /\ The(j.layout).total = Total(v) /\ disk[wants.output] # None
follow_metadata ==
  /\ run.step = "follow" /\ ~run.cancel
  /\ LET v == remote[1]
         j == close_flushed(manage(open_task_journal(journal)))
     IN \/ Ends(journal) /\ UNCHANGED disk                                \* no answer, or not a document
        \/ task.checksum \notin {0, v} /\ Ends(journal) /\ UNCHANGED disk
        \/ /\ task.checksum \in {0, v} /\ ~Retained
           /\ run' = [run EXCEPT !.step = "push", !.stream = v] /\ UNCHANGED <<journal, disk>>
        \/ /\ task.checksum \in {0, v} /\ Retained
           /\ IF ~save_metadata_document(j, v) THEN Ends(j) /\ UNCHANGED disk
              ELSE /\ run' = [run EXCEPT !.step = IF j.layout = None THEN "save" ELSE "push", !.stream = v, !.total = Total(v)]
                   /\ disk' = [disk EXCEPT ![wants.output] =
                                 Some(IF j.layout = None THEN File(Total(v)) ELSE Document(v))]
                   /\ journal' = j
  /\ Rest /\ UNCHANGED completed
\* The new file's layout is flushed before the document is written.
WriteDocument ==
  /\ run.step = "save"
  /\ journal' = append_layout(journal, run.total)
  /\ disk' = [disk EXCEPT ![wants.output] = Some(Document(run.stream))]
  /\ run' = [run EXCEPT !.step = "push"]
  /\ Rest /\ UNCHANGED completed
\* MetadataFollowQueue::push; 64 requests in the code.
PushFollow ==
  /\ run.step = "push"
  /\ IF Len(follow.queue) < MaxQueued
     THEN /\ follow' = [follow EXCEPT !.queue = Append(@, [doc |-> run.stream, gen |-> journal.gen, live |-> TRUE])]
          /\ run' = [run EXCEPT !.step = "await"] /\ UNCHANGED journal
     ELSE Ends(journal) /\ UNCHANGED follow
  /\ UNCHANGED <<task, wants, remote, seen, disk, completed>>
\* A worker that ends drops its receiver, not its request.
Orphan(requests) == [i \in DOMAIN requests |-> [requests[i] EXCEPT !.live = FALSE]]
Orphaned(f) == [f EXCEPT !.queue = Orphan(@), !.pending = Orphan(@)]
Refused(request, f) ==
  IF request.live THEN run' = Idle /\ follow' = f ELSE follow' = f /\ UNCHANGED run
poll_metadata_follow ==
  /\ follow.pending = None /\ follow.queue # << >>
  /\ LET request == Head(follow.queue)
         popped == [follow EXCEPT !.queue = Tail(@)]
         active == run.step # "idle" /\ ~run.cancel /\ journal.gen = request.gen
     IN \/ active /\ follow' = [popped EXCEPT !.pending = Some(request)] /\ UNCHANGED run
        \/ Refused(request, popped)                  \* not active any more, or no admission
  /\ UNCHANGED <<task, wants, remote, seen, journal, disk, completed>>
\* The children and the parent's expansion are one transaction; parent_spec
\* refuses a parent that was expanded before.
parent_spec == follow.expansion = None
CommitFollow ==
  /\ follow.pending # None
  /\ LET request == The(follow.pending)
         done == [follow EXCEPT !.pending = None]
     IN \/ /\ parent_spec
           /\ follow' = [done EXCEPT !.expansion = Some(request.doc), !.batches = @ + 1]
           /\ run' = IF request.live THEN [run EXCEPT !.step = "parent"] ELSE run
        \/ Refused(request, done)
  /\ UNCHANGED <<task, wants, remote, seen, journal, disk, completed>>
BeginParent ==
  /\ run.step = "idle" /\ ~task.slice /\ follow.expansion # None
  /\ run' = [Idle EXCEPT !.step = "parent"]
  /\ completed' = FALSE /\ Rest /\ UNCHANGED <<journal, disk>>
finish_metadata_parent ==
  /\ run.step = "parent"
  /\ LET j == close_flushed(manage(open_task_journal(journal)))
         kept == /\ j.layout # None /\ disk[The(j.layout).output] # None
                 /\ disk[The(j.layout).output] = Some(Document(The(follow.expansion)))
     IN IF ~j.terminal /\ (Retained => kept)
        THEN journal' = [j EXCEPT !.terminal = TRUE] /\ run' = [run EXCEPT !.step = "record"]
        ELSE Ends(j)
  /\ Rest /\ UNCHANGED <<disk, completed>>
-----------------------------------------------------------------------------
(* http_first_slice: one response, without a session.                      *)

SliceBegin ==
  /\ run.step = "idle" /\ task.slice /\ journal.at = "none" /\ disk[wants.output] = None
  /\ disk' = [disk EXCEPT ![wants.output] = Some(File(0))]
  /\ run' = [Idle EXCEPT !.step = "admit"]
  /\ Rest /\ UNCHANGED <<journal, completed>>
append_initial_admission ==
  /\ run.step = "admit"
  /\ journal' = [journal EXCEPT !.at = "local"] /\ run' = [run EXCEPT !.step = "head"]
  /\ Rest /\ UNCHANGED <<disk, completed>>
validate_fresh_response_head ==
  /\ run.step = "head"
  /\ LET v == remote[1]
         j == append_layout(journal, Total(v))
     IN \/ /\ disk' = [disk EXCEPT ![wants.output] = Some(set_len(The(@), Total(v)))]
           /\ journal' = IF if_range(1) THEN append_http_strong_validator(j, 1, v) ELSE j
           /\ run' = [run EXCEPT !.step = "body", !.stream = v, !.total = Total(v)]
        \/ Ends(journal) /\ UNCHANGED disk
  /\ Rest /\ UNCHANGED completed
stream_known_length_body ==
  /\ run.step = "body" /\ ~Whole
  /\ LET p == Cardinality(run.pieces)
         mark == IF if_range(1) THEN strong_validator_fingerprint(run.stream) ELSE fingerprint(1, run.stream)
     IN /\ disk' = Written(wants.output, p, run.stream)
        /\ \/ journal' = append_piece(journal, p, mark, run.stream) /\ run' = [run EXCEPT !.pieces = @ \cup {p}]
           \/ Ends(journal)                                               \* abort_current
  /\ Rest /\ UNCHANGED completed
SliceComplete ==
  /\ run.step = "body" /\ Whole
  /\ completed' = TRUE /\ Ends([journal EXCEPT !.terminal = TRUE]) /\ Rest /\ UNCHANGED disk
\* prepare_known_length_recovery and hash_recovered_durable_prefix.
prepare_known_length_recovery(j) ==
  /\ ~j.terminal /\ j.layout # None /\ j.strong # None
  /\ disk[wants.output] # None /\ At(wants.output).len = The(j.layout).total
  /\ The(j.strong).total = The(j.layout).total
  /\ 0 \in DOMAIN j.durable
  /\ \A p \in DOMAIN j.durable : j.durable[p].lease = strong_validator_fingerprint(The(j.strong).tag)
  /\ verify_recovered_piece_digests(At(wants.output), j.durable)
IfRangeUnchecked(j) == TRUE
validate_resume_response_head(j) == remote[1] = The(j.strong).tag /\ Total(remote[1]) = The(j.layout).total
SliceResume ==
  /\ run.step = "idle" /\ task.slice /\ journal.at = "closed"
  /\ prepare_known_length_recovery(journal)
  /\ DOMAIN journal.durable = Pieces(The(journal.layout).total) \/ validate_resume_response_head(journal)
  /\ journal' = [journal EXCEPT !.at = "local"]
  /\ run' = [Idle EXCEPT !.step = "body", !.stream = remote[1], !.total = The(journal.layout).total,
                         !.pieces = DOMAIN journal.durable]
  /\ Rest /\ UNCHANGED <<disk, completed>>
-----------------------------------------------------------------------------
(* Cancellation, crashes, new generations and the servers.                 *)

Cancel ==
  /\ run.step # "idle" /\ ~task.slice /\ ~run.cancel
  /\ run' = [run EXCEPT !.cancel = TRUE]
  /\ Rest /\ UNCHANGED <<journal, disk, completed>>
\* Every wait is biased towards the cancellation.
Cancelled ==
  /\ run.cancel
  /\ \/ /\ run.step \in {"probe", "rebind"} /\ run.flow = "http" /\ Ends(handoff_journal(journal))
     \/ run.step \in {"connect", "dial", "follow", "await"} /\ Ends(journal)
     \/ run.step = "probe" /\ run.flow # "http" /\ Ends(journal)
     \/ run.step \in {"ranges", "ftp", "redial", "stream", "verify"} /\ Ends(handoff_journal(journal))
  /\ follow' = Orphaned(follow)
  /\ UNCHANGED <<task, wants, remote, seen, disk, completed>>
Crash ==
  /\ run.step # "idle" /\ seen.failures < MaxFailures
  /\ run' = Idle /\ completed' = FALSE
  /\ follow' = [follow EXCEPT !.queue = << >>, !.pending = None]
  /\ journal' = [journal EXCEPT !.at = IF @ = "none" THEN @ ELSE IF task.session THEN "owner" ELSE "closed"]
  /\ seen' = [seen EXCEPT !.failures = @ + 1]
  /\ UNCHANGED <<task, wants, remote, disk>>
\* GenerationStarted: validators, identities and attempts are the old
\* generation's; a restart also drops the pieces.
NewGeneration ==
  /\ run.step = "idle" /\ journal.at = "owner" /\ journal.gen < MaxGenerations /\ ~journal.terminal
  /\ \E restart \in BOOLEAN, o \in Outputs, g \in {wants.geometry, 2} :
       /\ wants' = [output |-> o, geometry |-> g]
       /\ journal' = [journal EXCEPT !.gen = @ + 1, !.strong = None, !.identity = None,
                                     !.durable = IF restart THEN EmptyMap ELSE @,
                                     !.retries = [s \in Sources |-> 0], !.validators = [s \in Sources |-> None]]
  /\ seen' = [seen EXCEPT !.connects = [s \in Sources |-> 0]]
  /\ UNCHANGED <<task, remote, disk, run, completed, follow>>
ChangeRemote ==
  /\ \E s \in Sources :
       /\ remote[s] = 1 /\ remote' = [remote EXCEPT ![s] = 2]
       /\ seen' = [seen EXCEPT !.slipped = @ \/ (run.connection # None /\ The(run.connection).source = s)]
  /\ UNCHANGED <<task, wants, journal, disk, run, completed, follow>>

WorkerNext ==
  \/ BeginPayload \/ Probe \/ ProbesDone \/ Rebind
  \/ FinishFresh \/ FinishRecovered \/ FinishReadmission \/ CommitLayout \/ BindSources
  \/ FetchPiece \/ revalidate_range_source \/ SftpReconnect \/ RangesDone \/ RangesFail
  \/ verify_expected_checksum \/ complete_storage_outcome \/ record_completion
  \/ BeginProtocol \/ Connect \/ Dial \/ ConnectDone \/ open_protocol_storage \/ run_other_protocols
  \/ FtpAttempt \/ FtpDial \/ FtpResume \/ stream_ftp \/ FtpBroken
  \/ follow_metadata \/ WriteDocument \/ PushFollow \/ poll_metadata_follow \/ CommitFollow
  \/ BeginParent \/ finish_metadata_parent
  \/ SliceBegin \/ append_initial_admission \/ validate_fresh_response_head \/ stream_known_length_body
  \/ SliceComplete \/ SliceResume
  \/ Cancel \/ Cancelled \/ Crash \/ NewGeneration \/ ChangeRemote
-----------------------------------------------------------------------------
(* What a run leaves behind.                                               *)

Bytes == At(The(journal.layout).output).bytes
\* A payload recorded complete is whole on disk, and is what the checksum says.
CompleteIsWhole ==
  (journal.terminal /\ task.metadata = "no") =>
    /\ journal.layout # None /\ disk[The(journal.layout).output] # None
    /\ At(The(journal.layout).output).len = The(journal.layout).total
    /\ \A p \in DOMAIN Bytes : Bytes[p] # 0 /\ task.checksum \in {0, Bytes[p]}
\* A file is never pieced together from two versions a server can tell apart,
\* whatever changed between runs, crashes and generations.
OneVersion ==
  LET told == \A s \in Sources : StyleOf(s) \in {"strong", "date", "mtime"}
      single == Len(task.sources) = 1 \/ Sources = Of("http")
  IN (journal.terminal /\ task.metadata = "no" /\ told /\ single /\ task.policy = "RequireSharedDigest" /\ ~seen.slipped) =>
       \A p, q \in DOMAIN Bytes : Bytes[p] = Bytes[q]
\* Whatever ends a run, its journal is back with the session's owner and its
\* SFTP sessions are closed.
NothingHeld ==
  run.step = "idle" => run.sessions = {} /\ (task.session => journal.at # "local")
\* Attempts made before a crash or a cancellation count after it.
AttemptsBounded ==
  /\ \A s \in Sources : seen.connects[s] <= MaxPerMirror
  /\ FoldFunctionOnSet(LAMBDA a, b : a + b, 0, seen.connects, DOMAIN seen.connects) <= MaxAttempts
CompletionRecorded == completed => journal.terminal
\* A followed document is expanded once, and the parent completes only with
\* the document its children came from.
ExpandedOnce ==
  /\ follow.batches <= 1
  /\ (journal.terminal /\ task.metadata # "no") =>
       /\ follow.expansion # None
       /\ Retained => disk[The(journal.layout).output] = Some(Document(The(follow.expansion)))
WorkerSound ==
  /\ CompleteIsWhole /\ OneVersion /\ NothingHeld /\ AttemptsBounded /\ CompletionRecorded /\ ExpandedOnce
=================================================================================
