------------------------------- MODULE CrashRestart -------------------------------
(***************************************************************************)
(* The control plane between two crashes: what it writes for each          *)
(* scheduler input (ariax-engine/src/http_control.rs, control_io.rs), in   *)
(* which order, and what the next start makes of a crash between any two   *)
(* of these writes (lib.rs, startup_native.rs, restore_catalog).           *)
(*                                                                         *)
(* db is the session database and jr the task journals as replay would     *)
(* find them: both survive a crash.  mem is the scheduler, todo the plans  *)
(* still to be written, effect by effect; both are lost.  recovered is the *)
(* engine's list of recovered journals.  Every write is flushed before the *)
(* next one is submitted.                                                  *)
(***************************************************************************)
EXTENDS SessionStore, SequencesExt

---------------------------------------------------------------------------------
(* Startup reconciliation (lib.rs): the session database and the replayed    *)
(* journals of its tasks are brought together.  The result is the            *)
(* scheduler's state and a list of repairs of the database, or a refusal of  *)
(* the whole start.                                                          *)

\* RecoveredTaskJournal: what replay found.  bad: why replay refuses it.
\* leases: whether a lease is open, and whether its worker died in a crash.
NewJournal(id, options) ==
  [id |-> id, generation |-> 0, current |-> [options |-> options, patch |-> None], pending |-> None, paused |-> None,
   hostKey |-> None, layout |-> FALSE, leases |-> "none", terminal |-> None, bad |-> None]

---------------------------------------------------------------------------------
is_runnable_source(s) == s.uri /\ ~s.credentials
derive_credential_admissions(row) ==
  /\ row.queue # "Stopped" /\ ~\E s \in row.sources : is_runnable_source(s)
  /\ \E s \in row.sources : s.credentials

Transfers(db) == {g \in DOMAIN db.tasks : db.tasks[g].kind = "Transfer"}
Torrents(db) == DOMAIN db.tasks \ Transfers(db)
Ascending(S) == SetToSortSeq(S, LAMBDA a, b : a < b)

CompleteResult == [status |-> "Complete", error |-> FALSE, layout |-> TRUE]
\* The journal decides whether a task has ended; only a completion can be
\* written into the database from the journal alone.
MissingStoppedResult(row, j) ==
  Is(j.terminal) /\ The(j.terminal) # "Complete" /\ (row.queue # "Stopped" \/ ~Is(row.result))
TerminalRefused(row, j) ==
  IF ~Is(j.terminal) THEN row.queue = "Stopped" \/ Is(row.result)
  ELSE \/ row.queue # "Stopped" /\ Is(row.result)
       \/ MissingStoppedResult(row, j)
       \/ Is(row.result) /\ The(row.result).status # The(j.terminal)
\* The journal's completion is not written back.
CompletionForgotten(row, j) == FALSE
TerminalRepair(row, j) == j.terminal = Some("Complete") /\ (row.queue # "Stopped" \/ ~Is(row.result))

Decided(j, decision) == Is(j.hostKey) /\ The(j.hostKey).decision = decision
HostKeyRefused(row, j) ==
  IF Is(j.hostKey)
  THEN \/ /\ Is(row.challenge)
          /\ The(row.challenge).id # The(j.hostKey).id \/ The(row.challenge).key # The(j.hostKey).key
       \/ Decided(j, "Pending") /\ ~Is(j.terminal) /\ j.paused # Some("HostKeyApproval")
  ELSE IF Is(j.terminal) THEN Is(row.challenge)
  ELSE \/ Is(row.challenge) # (j.paused = Some("HostKeyApproval"))
       \/ Is(row.challenge) /\ row.queue # "Paused"
\* reconcile_host_key: the challenge the task still waits on, if any.
Challenged(row, j) ==
  ~Is(j.terminal) /\ (IF Is(j.hostKey) THEN Decided(j, "Pending") ELSE Is(row.challenge))
Resolution(g, row, j) ==
  IF ~Is(j.hostKey) \/ ~Is(row.challenge) \/ Challenged(row, j) THEN << >>
  ELSE LET key == The(j.hostKey) IN
       IF key.decision = "Approved" /\ ~Is(j.terminal)
       THEN <<[op |-> "ResolveHostKeyChallenge", gid |-> g, id |-> key.id, key |-> key.key,
               scope |-> "CurrentGeneration", options |-> j.current.options]>>
       ELSE <<[op |-> "RejectHostKeyChallenge", gid |-> g, id |-> key.id]>>
ChallengeRepair(g, row, j) ==
  IF Is(j.hostKey) /\ Challenged(row, j) /\ ~Is(row.challenge)
  THEN <<[op |-> "PutHostKeyChallenge", gid |-> g, id |-> The(j.hostKey).id, key |-> The(j.hostKey).key]>> ELSE << >>

Task(state, queue) == [state |-> state, queue |-> queue]
\* A retry is found for the whole task only, and no worker records one: RetryWait
\* is never restored.
PausedBy(j) == IF j.paused = Some("SlowSlot") THEN "PausedSlow" ELSE "Paused"
normalize_task(row, j) ==
  CASE Is(j.terminal) -> Task("StoppedResult", "Stopped")
    [] Challenged(row, j) -> Task("PausedHostKey", "Paused")
    [] Decided(j, "Approved") /\ ~row.paused -> Task("Waiting", "Waiting")
    [] Decided(j, "Rejected") -> Task("Paused", "Paused")
    [] row.paused \/ row.queue = "Paused" -> Task(PausedBy(j), "Paused")
    [] row.queue = "Demoted" -> Task("WaitingSlow", "Demoted")
    [] OTHER -> Task("Waiting", "Waiting")
normalize_bt(row) ==
  CASE Is(row.result) -> Task("StoppedResult", "Stopped")
    [] row.paused \/ row.queue = "Paused" -> Task("Paused", "Paused")
    [] OTHER -> Task("Waiting", "Waiting")
BtRefused(row) == (row.queue = "Stopped") # Is(row.result) \/ row.queue = "Demoted"
Normalized(db, jr) ==
  [g \in DOMAIN db.tasks |-> IF g \in Transfers(db) THEN normalize_task(db.tasks[g], jr[g]) ELSE normalize_bt(db.tasks[g])]

---------------------------------------------------------------------------------
\* The scheduler's queues: those that were there keep their places, those that
\* come from other queues follow, queue by queue.
queue_source_rank(class, source) ==
  LET after == [Waiting |-> <<"Waiting", "Active">>, Paused |-> <<"Paused", "Waiting", "Active", "Demoted">>,
                Stopped |-> <<"Stopped", "Waiting", "Active", "Paused", "Demoted">>,
                Active |-> << >>, Demoted |-> << >>][class]
  IN IF source \in Range(after) THEN CHOOSE i \in DOMAIN after : after[i] = source ELSE 1
Before(db, class, a, b) ==
  LET Key(g) == <<queue_source_rank(class, db.tasks[g].queue), db.tasks[g].pos, g>>
  IN \E i \in 1..3 : Key(a)[i] < Key(b)[i] /\ \A k \in 1..(i - 1) : Key(a)[k] = Key(b)[k]
build_scheduler_queues(db, norm) ==
  [q \in Queues |-> SetToSortSeq({g \in DOMAIN norm : norm[g].queue = q}, LAMBDA a, b : Before(db, q, a, b))]
collect_persisted_queues(db) == [q \in Queues |-> read_queue_order(db, q)]

\* Each repair names the complete order of both queues it touches, in the
\* order the next repair will find them in.
Ranked(order, g) == CHOOSE i \in DOMAIN order : order[i] = g
sort_intermediate_queue(S, final) ==
  SetToSortSeq(S, LAMBDA a, b : IF a \in Range(final) /\ b \in Range(final) THEN Ranked(final, a) < Ranked(final, b)
                                ELSE IF (a \in Range(final)) # (b \in Range(final)) THEN a \in Range(final)
                                ELSE a < b)
Relocated(queues, g, from, to, final) ==
  [queues EXCEPT ![from] = SelectSeq(@, LAMBDA h : h # g), ![to] = sort_intermediate_queue(Range(@) \cup {g}, final[to])]
Pair(queues, from, to) == [q \in {from, to} |-> queues[q]]
build_queue_session_repairs(db, norm, final, candidates) ==
  FoldLeft(LAMBDA acc, g :
     LET row == db.tasks[g]
         queues == Relocated(acc.queues, g, row.queue, norm[g].queue, final)
     IN [queues |-> queues,
         out |-> Append(acc.out, [op |-> "TransitionTaskQueue", gid |-> g, from |-> row.queue, to |-> norm[g].queue,
                                  paused |-> row.paused, demotions |-> row.demotions, slow |-> None,
                                  orders |-> Pair(queues, row.queue, norm[g].queue)])],
     [queues |-> collect_persisted_queues(db), out |-> << >>], candidates)
build_terminal_session_repairs(db, base, final, candidates) ==
  FoldLeft(LAMBDA acc, g :
     LET row == db.tasks[g]
         queues == Relocated(acc.queues, g, row.queue, "Stopped", final)
     IN [queues |-> queues,
         out |-> Append(acc.out, [op |-> "PersistStoppedResult", gid |-> g, result |-> CompleteResult, from |-> row.queue,
                                  to |-> "Stopped", paused |-> FALSE, demotions |-> row.demotions, slow |-> None,
                                  orders |-> Pair(queues, row.queue, "Stopped")])],
     [queues |-> base, out |-> << >>], candidates)
validate_repaired_queues(queues, final) == queues = final
AuthorityRepair(g, row, j) ==
  IF row.layout = j.layout THEN << >>
  ELSE <<[op |-> "ReconcileJournalAuthority", gid |-> g, journal |-> j.id, layout |-> j.layout]>>

\* A demoted task must say when it is readmitted.
recover_slow_slot(row, j) == ~Is(j.terminal) /\ row.queue = "Demoted" => Is(row.slow)

TaskRefused(db, jr, g) ==
  \/ Is(jr[g].bad) \/ db.tasks[g].journal # Some(jr[g].id) \/ ~recover_slow_slot(db.tasks[g], jr[g])
  \/ TerminalRefused(db.tasks[g], jr[g]) \/ HostKeyRefused(db.tasks[g], jr[g])
reconcile_startup(db, jr) ==
  LET norm == Normalized(db, jr)
      final == build_scheduler_queues(db, norm)
      transfers == Ascending(Transfers(db))
      moved == SelectSeq(transfers, LAMBDA g : ~Is(jr[g].terminal) /\ norm[g].queue # db.tasks[g].queue)
               \o SelectSeq(Ascending(Torrents(db)), LAMBDA g : norm[g].queue # db.tasks[g].queue)
      ended == SelectSeq(transfers, LAMBDA g : TerminalRepair(db.tasks[g], jr[g]))
      queue == build_queue_session_repairs(db, norm, final, moved)
      terminal == build_terminal_session_repairs(db, queue.queues, final, ended)
      All(Op(_)) == FlattenSeq([i \in DOMAIN transfers |-> Op(transfers[i])])
      refused == \/ ~validate_dense_queues(db) \/ (DOMAIN db.tasks # {} /\ ~Is(db.session))
                 \/ \E g \in Transfers(db) : TaskRefused(db, jr, g)
                 \/ \E g \in Torrents(db) : BtRefused(db.tasks[g])
  IN IF refused THEN [refused |-> TRUE]
     ELSE [refused |-> ~validate_repaired_queues(terminal.queues, final), tasks |-> norm, queues |-> final,
           repairs |-> All(LAMBDA g : Resolution(g, db.tasks[g], jr[g])) \o queue.out
                       \o All(LAMBDA g : ChallengeRepair(g, db.tasks[g], jr[g])) \o terminal.out
                       \o All(LAMBDA g : AuthorityRepair(g, db.tasks[g], jr[g]))]

\* The owner executes one command: the arms of execute_command that plans and
\* repairs use.
execute_command(db, c, now) ==
  CASE c.op = "TransitionTaskQueue" ->
         transition_task_queue_exact(db, c.gid, c.from, c.to, c.paused, c.demotions, c.slow, c.orders, now)
    [] c.op = "PersistStoppedResult" ->
         persist_stopped_result_exact(db, c.gid, c.result, c.from, c.paused, c.demotions, c.orders, now)
    [] c.op = "ReplaceTaskOptions" -> replace_task_options(db, c.gid, c.scope, c.options)
    [] c.op = "PromoteTaskOptions" -> promote_task_options(db, c.gid, c.options)
    [] c.op = "PutHostKeyChallenge" -> put_host_key_challenge(db, c.gid, c.id, c.key)
    [] c.op = "ResolveHostKeyChallenge" -> resolve_host_key_challenge(db, c.gid, c.id, c.key, c.scope, c.options)
    [] c.op = "RejectHostKeyChallenge" -> reject_host_key_challenge(db, c.gid, c.id)
    [] c.op = "ReconcileJournalAuthority" -> reconcile_journal_authority(db, c.gid, c.journal, c.layout, c.layout, now)
    [] c.op = "SetNoSpaceCondition" -> set_task_no_space_condition(db, c.gid, c.on, now)
    [] c.op = "DeleteStoppedTaskMetadata" -> delete_stopped_task_metadata(db, c.gid, c.remaining, now)
    [] c.op = "CreateTaskWithMetadata" ->
         create_task_with_metadata(db, c.task.gid, c.task.queue, c.task.pos, c.task.paused, c.task.journal, c.task.options, now)

---------------------------------------------------------------------------------
(* The plans (effect_sink.rs): an effect becomes a short sequence of owner   *)
(* commands, admitted only when it says exactly what the effect says.        *)

MaxPlanSteps == 4

PersistenceKinds == {"PersistTask", "PersistQueueTransition", "StageOptionPatch", "PersistGenerationStarted",
  "PersistConditions", "PersistHostKeyChallenge", "PersistHostKeyPinAndClearChallenge",
  "PersistHostKeyChallengeRejected", "PersistTerminal", "DeleteStoppedTaskMetadata"}
is_persistence_effect(kind) == kind \in PersistenceKinds

Ops(steps) == [i \in DOMAIN steps |-> steps[i].op]
IsAppend(step, type) == step.op = "AppendAndFlushJournal" /\ step.rec.type = type
Redacted(source) == ~source.uri /\ ~source.credentials

orders_match(core, session) == core = session
slow_slot_matches(core, session) == core = session
validate_transition(e, step) ==
  /\ step.gid = e.gid
  /\ step.from = e.from /\ step.to = e.to /\ step.paused = e.paused /\ step.demotions = e.demotions
  /\ slow_slot_matches(e.slow, step.slow) /\ orders_match(e.orders, step.orders)
validate_terminal(e, rec, result) ==
  \/ e.status = "Complete" /\ ~e.error /\ rec.type = "TaskComplete" /\ result.status = "Complete" /\ result.layout /\ ~result.error
  \/ e.status = "Error" /\ e.error /\ rec.type = "TaskError" /\ result.status = "Error" /\ result.error /\ ~result.layout
  \/ e.status = "Removed" /\ ~e.error /\ rec.type = "TaskRemoved" /\ result.status = "Removed" /\ ~result.error /\ ~result.layout
\* A member of an import or of a batch, and the single creation.
validate_import_member(e, task) ==
  /\ task.gid = e.gid /\ task.sources # {} /\ ~\E s \in task.sources : Redacted(s)
  /\ task.queue = e.queue /\ task.pos = e.pos /\ task.paused = e.paused
  /\ task.demotions = e.demotions /\ ~Is(task.slow) /\ task.noSpace = e.noSpace
BtMember(e, task) ==
  /\ task.gid = e.gid /\ task.queue = e.queue /\ task.pos = e.pos /\ task.paused = e.paused
  /\ e.demotions = 0 /\ ~e.noSpace /\ task.generation = 0

TaskPlan(e, s) ==
  \/ s.op = "CreateTaskWithMetadata" /\ validate_import_member(e, s.task)
  \/ s.op = "CreateBtTask" /\ BtMember(e, s.task)
  \/ s.op = "CreateTaskBatch" /\ s.tasks # << >> /\ validate_import_member(e, s.tasks[1])
BtTerminalPlan(e, s) ==
  /\ s.op = "PersistBtTerminal" /\ s.gid = e.gid /\ s.generation = e.gen
  /\ s.result.status = e.status /\ s.result.error = e.error /\ s.result.layout = (e.status = "Complete")
  /\ validate_transition(e, s)
TerminalPlan(e, steps) ==
  /\ Len(steps) = 2 /\ steps[1].gid = e.gid
  /\ steps[2].op = "PersistStoppedResult" /\ steps[2].gid = e.gid
  /\ \/ steps[1].op = "AppendAndFlushJournal" /\ steps[1].gen = e.gen /\ validate_terminal(e, steps[1].rec, steps[2].result)
     \/ /\ steps[1].op = "FlushJournal" /\ e.status = "Complete" /\ ~e.error
        /\ steps[2].result = [status |-> "Complete", error |-> FALSE, layout |-> TRUE]
  /\ validate_transition(e, steps[2])
StagePlan(e, steps) ==
  /\ Ops(steps) = <<"AppendAndFlushJournal", "ReplaceTaskOptions">> /\ IsAppend(steps[1], "OptionsSnapshot")
  /\ steps[1].gid = e.gid /\ steps[2].gid = e.gid
  /\ steps[1].rec.patch = Some(e.patch)
  /\ steps[1].rec.scope = "NextAdmission" /\ steps[2].scope = "NextAdmission"
  /\ steps[1].rec.options = steps[2].options

\* A generation starts from the staged snapshot of a patch, from a snapshot
\* staged by the same plan, after the marker of a representation restart, or
\* from a staged snapshot that a crash left behind such a marker.
Started(e, step) ==
  /\ IsAppend(step, "GenerationStarted") /\ step.gid = e.gid /\ step.gen = e.gen /\ step.rec.previous + 1 = e.gen
\* The snapshot is expected under the generation it prepares.
StagedNow(e, step, started) ==
  /\ IsAppend(step, "OptionsSnapshot") /\ step.gid = e.gid /\ step.gen = e.gen
  /\ step.rec.scope = "NextAdmission" /\ ~Is(step.rec.patch) /\ ~Is(started.rec.patch)
  /\ step.rec.options = started.rec.options
StagedBy(e, step, started) ==
  /\ IsAppend(step, "OptionsSnapshot") /\ step.gid = e.gid /\ step.gen = started.rec.previous
  /\ step.rec.scope = "NextAdmission" /\ ~Is(step.rec.patch) /\ ~Is(started.rec.patch)
  /\ step.rec.options = started.rec.options
GenerationPlan(e, steps) ==
  \/ /\ Len(steps) = 2 /\ Started(e, steps[1]) /\ steps[2].op = "PromoteTaskOptions" /\ steps[2].gid = e.gid
     /\ steps[1].rec.reason = "OptionPatch" /\ Is(steps[1].rec.patch) /\ steps[1].rec.options = steps[2].options
  \/ /\ Len(steps) = 3 /\ IsAppend(steps[1], "TaskPaused") /\ steps[1].gid = e.gid
     /\ Started(e, steps[3]) /\ steps[1].gen = steps[3].rec.previous /\ StagedBy(e, steps[2], steps[3])
     /\ steps[1].rec.reason = "Restarting" /\ steps[3].rec.reason = "RepresentationRestart"
  \/ /\ Len(steps) = 2 /\ Started(e, steps[2]) /\ StagedBy(e, steps[1], steps[2]) /\ steps[2].rec.reason # "OptionPatch"
  \/ Len(steps) = 1 /\ Started(e, steps[1]) /\ steps[1].rec.reason = "RepresentationRestart" /\ ~Is(steps[1].rec.patch)
  \/ Len(steps) = 1 /\ e.gen = 0 /\ steps[1].op = "FlushJournal" /\ steps[1].gid = e.gid
  \/ Len(steps) = 1 /\ steps[1].op = "BeginBtGeneration" /\ steps[1].gid = e.gid /\ steps[1].generation = e.gen
     /\ steps[1].expected = (IF e.gen = 0 THEN 0 ELSE e.gen - 1)
HostKeyPlan(e, s) ==
  /\ s.gid = e.gid /\ s.id = e.id
  /\ CASE e.kind = "PersistHostKeyChallenge" -> s.op = "PutHostKeyChallenge" /\ s.key = e.key
       [] e.kind = "PersistHostKeyPinAndClearChallenge" ->
            s.op = "ResolveHostKeyChallenge" /\ s.key = e.key /\ s.scope = "CurrentGeneration" /\ <<"pin", e.key>> \in s.options
       [] OTHER -> s.op = "RejectHostKeyChallenge"
QueuePlan(e, s) ==
  \/ s.op = "TransitionTaskQueue" /\ validate_transition(e, s)
  \/ s.op = "ReplaceTaskSourcesAndQueue" /\ s.sources # {} /\ ~\E x \in s.sources : Redacted(x) /\ validate_transition(e, s)

validate_plan(e, steps) ==
  /\ is_persistence_effect(e.kind) /\ steps # << >> /\ Len(steps) <= MaxPlanSteps
  /\ CASE e.kind = "PersistTask" -> Len(steps) = 1 /\ TaskPlan(e, steps[1])
       [] e.kind = "PersistQueueTransition" -> Len(steps) = 1 /\ QueuePlan(e, steps[1])
       [] e.kind = "StageOptionPatch" -> StagePlan(e, steps)
       [] e.kind = "PersistGenerationStarted" -> GenerationPlan(e, steps)
       [] e.kind = "PersistConditions" ->
            Len(steps) = 1 /\ steps[1].op = "SetNoSpaceCondition" /\ steps[1].gid = e.gid /\ steps[1].on = e.noSpace
       [] e.kind = "PersistTerminal" -> TerminalPlan(e, steps) \/ (Len(steps) = 1 /\ BtTerminalPlan(e, steps[1]))
       [] e.kind = "DeleteStoppedTaskMetadata" ->
            /\ Len(steps) = 1 /\ steps[1].op = "DeleteStoppedTaskMetadata"
            /\ steps[1].gid = e.gid /\ steps[1].remaining = e.remaining
       [] OTHER -> Len(steps) = 1 /\ HostKeyPlan(e, steps[1])
\* At dispatch: records of the generation before are only those that prepare the next one.
validate_dispatched_plan(e, taskGeneration, steps) ==
  /\ "gen" \in DOMAIN e => e.gen = taskGeneration
  /\ \A i \in DOMAIN steps : steps[i].op = "AppendAndFlushJournal" /\ steps[i].gen # taskGeneration =>
       /\ e.kind = "PersistGenerationStarted" /\ steps[i].gen + 1 = e.gen
       /\ \/ IsAppend(steps[i], "OptionsSnapshot") /\ steps[i].rec.scope = "NextAdmission" /\ ~Is(steps[i].rec.patch)
          \/ IsAppend(steps[i], "TaskPaused") /\ steps[i].rec.reason = "Restarting"

---------------------------------------------------------------------------------
(* The control plane. *)

CONSTANTS HostKeyed, Patched, Restless, MaxPatches
  \* the tasks that meet an unknown host key, whose options are patched, that users pause and workers end

VARIABLES db, jr, mem, todo, recovered, phase
crashVars == <<db, jr, mem, todo, recovered, phase>>

Phases == {"up", "repairing", "restoring", "refused", "failed", "fault", "down"}
Base == {<<"base", 0>>}
PatchIds == 1..MaxPatches
Patch(id) == <<"patch", id>>
Now == MaxTime

MemTask(state, gen, started, paused, options, patch, slow) ==
  [state |-> state, gen |-> gen, started |-> started, paused |-> paused, options |-> options, patch |-> patch, demotions |-> slow]
QueueOf(state) ==
  CASE state \in {"Waiting"} -> "Waiting"
    [] state \in {"Demoting", "WaitingSlow"} -> "Demoted"
    [] state \in {"Active", "PausedRestarting"} -> "Active"
    [] state \in {"Pausing", "PausingSlow", "Paused", "PausedSlow", "PausedHostKey"} -> "Paused"
    [] OTHER -> "Stopped"

---------------------------------------------------------------------------------
\* The records of a task journal, as replay applies them; a record replay
\* refuses is still appended, and spoils the journal.
Bad(j, why) == [j EXCEPT !.bad = Some(why)]
\* GenerationNotDrained
NotDrained(j) == Bad(j, IF j.leases = "left" THEN "LeasesLeft" ELSE "LeasesOpen")
apply_options_snapshot(j, rec) ==
  IF Is(j.pending) /\ (~Is(rec.patch) \/ rec.patch = The(j.pending).patch) THEN Bad(j, "StagedTwice")
  ELSE [j EXCEPT !.pending = Some([options |-> rec.options, patch |-> rec.patch])]
apply_generation_started(j, rec) ==
  IF j.leases # "none" THEN NotDrained(j)
  ELSE IF j.pending # Some([options |-> rec.options, patch |-> rec.patch]) \/ rec.previous # j.generation THEN Bad(j, "NotStaged")
  ELSE [j EXCEPT !.generation = @ + 1, !.current = The(j.pending), !.pending = None, !.paused = None, !.hostKey = None]
apply_host_key_state(j, rec) ==
  LET key == [id |-> rec.id, key |-> rec.key, decision |-> rec.decision]
      waiting == Is(j.hostKey) /\ The(j.hostKey) = [key EXCEPT !.decision = "Pending"] /\ j.paused = Some("HostKeyApproval")
  IN CASE j.leases # "none" -> NotDrained(j)
       [] rec.decision = "Pending" -> IF Is(j.hostKey) THEN Bad(j, "HostKey")
                                      ELSE [j EXCEPT !.hostKey = Some(key), !.paused = Some("HostKeyApproval")]
       [] rec.decision = "Approved" -> IF ~waiting THEN Bad(j, "HostKey")
            ELSE [j EXCEPT !.hostKey = Some(key), !.paused = None, !.current.options = @ \cup {Pin(rec.key)}]
       [] OTHER -> IF ~waiting THEN Bad(j, "HostKey") ELSE [j EXCEPT !.hostKey = Some(key), !.paused = Some("RecoveryHold")]
apply_record(j, gen, rec) ==
  CASE Is(j.bad) -> j
    [] Is(j.terminal) -> Bad(j, "AfterTerminal")
    [] rec.type # "GenerationStarted" /\ gen # j.generation -> Bad(j, "Generation")
    [] rec.type = "OptionsSnapshot" -> apply_options_snapshot(j, rec)
    [] rec.type = "GenerationStarted" -> apply_generation_started(j, rec)
    [] rec.type = "HostKeyState" -> apply_host_key_state(j, rec)
    [] rec.type \in {"TaskPaused", "TaskComplete"} /\ j.leases # "none" -> NotDrained(j)
    [] rec.type = "TaskPaused" -> [j EXCEPT !.paused = Some(rec.reason)]
    [] rec.type = "LeaseStarted" -> [j EXCEPT !.leases = "open"]
    [] rec.type \in {"LeaseCommitted", "LeaseAborted"} -> [j EXCEPT !.leases = "none"]
    [] rec.type = "LayoutCommitted" -> [j EXCEPT !.layout = TRUE]
    [] OTHER -> [j EXCEPT !.terminal = Some(CASE rec.type = "TaskComplete" -> "Complete" [] rec.type = "TaskError" -> "Error"
                                              [] OTHER -> "Removed")]

JournalWrite(g, gen, rec) == [op |-> "AppendAndFlushJournal", gid |-> g, gen |-> gen, rec |-> rec]
Paused(reason) == [type |-> "TaskPaused", reason |-> reason]
Snapshot(options, patch) == [type |-> "OptionsSnapshot", scope |-> "NextAdmission", options |-> options, patch |-> patch]
GenerationRecord(previous, reason, options, patch) ==
  [type |-> "GenerationStarted", previous |-> previous, reason |-> reason, options |-> options, patch |-> patch]
KeyRecord(id, decision) == [type |-> "HostKeyState", id |-> id, key |-> id, decision |-> decision]

---------------------------------------------------------------------------------
\* Plans.
Plan(effect, steps) == [effect |-> effect, steps |-> steps, done |-> 0]
Pre(steps) == Plan(None, steps)             \* SessionWrites: written before the input is applied

\* The order of a queue after g leaves it or joins its end.
Order(q) == SetToSortSeq({g \in DOMAIN mem : QueueOf(mem[g].state) = q}, LAMBDA a, b : db.tasks[a].pos < db.tasks[b].pos)
Orders(g, from, to) ==
  [q \in {from, to} |-> IF q = to THEN Append(SelectSeq(Order(q), LAMBDA h : h # g), g) ELSE SelectSeq(Order(q), LAMBDA h : h # g)]
Transition(g, to, paused, demotions) ==
  LET from == QueueOf(mem[g].state)
      slow == IF to = "Demoted" THEN Some(0) ELSE None
      fields == [gid |-> g, from |-> from, to |-> to, paused |-> paused, demotions |-> demotions, slow |-> slow,
                 orders |-> Orders(g, from, to)]
  IN Plan(Some(fields @@ [kind |-> "PersistQueueTransition"]), <<fields @@ [op |-> "TransitionTaskQueue"]>>)

\* plan_for_effect(PersistGenerationStarted)
generation_steps(g, t, gen, reason) ==
  LET previous == gen - 1
      before == IF g \in DOMAIN recovered /\ recovered[g].generation = previous THEN Some(recovered[g]) ELSE None
      restarting == Is(before) /\ The(before).paused = Some("Restarting")
      why == IF restarting THEN "RepresentationRestart" ELSE reason
      staged == restarting /\ Is(The(before).pending)
      Mark == IF why = "RepresentationRestart" /\ ~restarting THEN <<JournalWrite(g, previous, Paused("Restarting"))>> ELSE << >>
      Stage == IF staged THEN << >> ELSE <<JournalWrite(g, previous, Snapshot(t.options, None))>>
  IN CASE Is(t.patch) -> <<JournalWrite(g, gen, GenerationRecord(previous, "OptionPatch", t.options, t.patch)),
                          [op |-> "PromoteTaskOptions", gid |-> g, options |-> t.options]>>
       [] gen = 0 -> <<[op |-> "FlushJournal", gid |-> g]>>
       [] OTHER -> Mark \o Stage \o <<JournalWrite(g, gen, GenerationRecord(previous, why, t.options, None))>>
Generation(g, t, gen, reason) ==
  Plan(Some([kind |-> "PersistGenerationStarted", gid |-> g, gen |-> gen]), generation_steps(g, t, gen, reason))

Result(status) == [status |-> status, error |-> status = "Error", layout |-> status = "Complete"]
terminal_plan(g, status) ==
  LET t == mem[g]
      transition == The(Transition(g, "Stopped", t.paused, t.demotions).effect)
      first == IF status = "Complete" THEN [op |-> "FlushJournal", gid |-> g]
               ELSE JournalWrite(g, t.gen, [type |-> IF status = "Error" THEN "TaskError" ELSE "TaskRemoved"])
  IN Plan(Some([transition EXCEPT !.kind = "PersistTerminal"] @@ [gen |-> t.gen, status |-> status, error |-> status = "Error"]),
          <<first, transition @@ [op |-> "PersistStoppedResult", result |-> Result(status)]>>)
stage_plan(g, options, patch) ==
  Plan(Some([kind |-> "StageOptionPatch", gid |-> g, patch |-> patch]),
       <<JournalWrite(g, mem[g].gen, Snapshot(options, Some(patch))),
         [op |-> "ReplaceTaskOptions", gid |-> g, scope |-> "NextAdmission", options |-> options]>>)
HostKey(g, kind, op, options) ==
  Plan(Some([kind |-> kind, gid |-> g, id |-> g, key |-> g]),
       <<[op |-> op, gid |-> g, id |-> g, key |-> g, scope |-> "CurrentGeneration", options |-> options]>>)

---------------------------------------------------------------------------------
\* One write of the plan at hand (poll_dispatch, SessionWrites::poll).
Finished(plan) == plan.done = Len(plan.steps)
Pending == SelectSeq(todo, LAMBDA p : ~Finished(p))
Advanced == SelectSeq([todo EXCEPT ![1].done = @ + 1], LAMBDA p : ~Finished(p))
Write ==
  LET step == todo[1].steps[todo[1].done + 1]
  IN /\ todo # << >> /\ phase \in {"up", "repairing", "restoring"}
     /\ CASE step.op = "AppendAndFlushJournal" ->
              /\ jr' = [jr EXCEPT ![step.gid] = apply_record(@, step.gen, step.rec)]
              /\ todo' = Advanced /\ UNCHANGED <<db, phase>>
          [] step.op = "CreateJournal" ->
              /\ jr' = Put(jr, step.gid, NewJournal(CHOOSE j \in Journals : TRUE, step.options))
              /\ todo' = Advanced /\ UNCHANGED <<db, phase>>
          [] step.op = "FlushJournal" -> todo' = Advanced /\ UNCHANGED <<db, jr, phase>>
          [] OTHER -> IF execute_command(db, step, Now) = {}
                      THEN phase' = "fault" /\ todo' = << >> /\ UNCHANGED <<db, jr>>
                      ELSE db' \in execute_command(db, step, Now) /\ todo' = Advanced /\ UNCHANGED <<jr, phase>>
     /\ UNCHANGED <<mem, recovered>>

Idle == phase = "up" /\ todo = << >>
Input(t, g, plans) ==
  /\ mem' = Put(mem, g, t) /\ todo' = SelectSeq(plans, LAMBDA p : p.steps # << >>) /\ UNCHANGED <<db, jr, recovered, phase>>
In(g, states) == Idle /\ g \in DOMAIN mem /\ mem[g].state \in states

\* enqueue: the journal first, then the rows of the task.
Add(g, paused) ==
  /\ Idle /\ g \notin DOMAIN jr
  /\ LET q == IF paused THEN "Paused" ELSE "Waiting"
         task == [gid |-> g, queue |-> q, pos |-> Len(Order(q)), paused |-> paused, journal |-> Some(CHOOSE j \in Journals : TRUE),
                  options |-> Base, sources |-> {Plain}, demotions |-> 0, slow |-> None, noSpace |-> FALSE]
     IN Input(MemTask(IF paused THEN "Paused" ELSE "Waiting", 0, FALSE, paused, Base, None, 0), g,
              <<Pre(<<[op |-> "CreateJournal", gid |-> g, options |-> Base]>>),
                Plan(Some([kind |-> "PersistTask", gid |-> g, queue |-> q, pos |-> Len(Order(q)), paused |-> paused,
                           demotions |-> 0, noSpace |-> FALSE]), <<[op |-> "CreateTaskWithMetadata", gid |-> g, task |-> task]>>)>>)

\* try_admit_one
Next0(t) == IF t.started THEN t.gen + 1 ELSE 0
StagedDiffers(g) ==
  /\ mem[g].started /\ g \in DOMAIN recovered /\ recovered[g].generation = mem[g].gen /\ recovered[g].paused = Some("Restarting") /\ ~Is(mem[g].patch)
  /\ Is(recovered[g].pending) /\ The(recovered[g].pending) # [options |-> mem[g].options, patch |-> None]
Admit(g) ==
  /\ In(g, {"Waiting", "WaitingSlow"}) /\ Next0(mem[g]) <= MaxGenerations
  /\ ~StagedDiffers(g)
  /\ LET t == mem[g]
         gen == Next0(t)
         u == [t EXCEPT !.state = "Active", !.gen = gen, !.started = TRUE, !.patch = None]
     IN Input(u, g, <<Generation(g, t, gen, "RetryReadmission"), Transition(g, "Active", FALSE, t.demotions)>>)
\* plan_for_effect refuses: the error ends the control plane.
AdmitFails(g) ==
  /\ In(g, {"Waiting", "WaitingSlow"}) /\ StagedDiffers(g)
  /\ phase' = "failed" /\ UNCHANGED <<db, jr, mem, todo, recovered>>
\* The worker of g, if there is one, has settled its leases.
Settled(g) == jr[g].leases # "open" \/ Is(jr[g].bad)
RepresentationRestart(g) ==
  /\ In(g, {"Active"}) /\ Settled(g) /\ mem[g].gen < MaxGenerations /\ ~Is(jr[g].terminal)
  /\ Input([mem[g] EXCEPT !.gen = @ + 1], g, <<Generation(g, mem[g], mem[g].gen + 1, "RepresentationRestart")>>)

\* The user's pause: a running task is drained first.
Pause(g) ==
  /\ In(g, {"Active", "Waiting"}) /\ ~Is(jr[g].terminal)
  /\ LET running == mem[g].state = "Active"
     IN Input([mem[g] EXCEPT !.state = IF running THEN "Pausing" ELSE "Paused", !.paused = TRUE], g,
              <<Pre(IF running THEN << >> ELSE <<JournalWrite(g, mem[g].gen, Paused("User"))>>),
                Transition(g, "Paused", TRUE, mem[g].demotions)>>)
\* The supervisor's drained event ends a pause or a demotion; TaskPaused is
\* written only then.
Drained(g) ==
  /\ In(g, {"Pausing", "PausingSlow", "Demoting"}) /\ Settled(g)
  /\ CASE mem[g].state = "Pausing" ->
            Input([mem[g] EXCEPT !.state = "Paused"], g, <<Pre(<<JournalWrite(g, mem[g].gen, Paused("User"))>>)>>)
       [] mem[g].state = "PausingSlow" ->
            Input([mem[g] EXCEPT !.state = "PausedSlow"], g, <<Pre(<<JournalWrite(g, mem[g].gen, Paused("SlowSlot"))>>)>>)
       [] OTHER -> Input([mem[g] EXCEPT !.state = "WaitingSlow"], g, << >>)
Resume(g) ==
  /\ In(g, {"Paused", "PausedSlow"})
  /\ Input([mem[g] EXCEPT !.state = "Waiting", !.paused = FALSE], g, <<Transition(g, "Waiting", FALSE, mem[g].demotions)>>)
\* The slow-slot policy pauses a slow task, or puts it behind the waiting ones.
\* Mutant: the pause is written while the worker still holds its leases.
SlowPauseUndrained(g) ==
  /\ In(g, {"Active"}) /\ ~Is(jr[g].terminal)
  /\ Input([mem[g] EXCEPT !.state = "PausedSlow", !.paused = TRUE], g,
           <<Pre(<<JournalWrite(g, mem[g].gen, Paused("SlowSlot"))>>), Transition(g, "Paused", TRUE, mem[g].demotions)>>)
SlowPause(g) ==
  /\ In(g, {"Active"}) /\ ~Is(jr[g].terminal)
  /\ Input([mem[g] EXCEPT !.state = "PausingSlow", !.paused = TRUE], g, <<Transition(g, "Paused", TRUE, mem[g].demotions)>>)
Demote(g) ==
  /\ In(g, {"Active"}) /\ ~Is(jr[g].terminal) /\ mem[g].demotions = 0
  /\ Input([mem[g] EXCEPT !.state = "Demoting", !.demotions = 1], g, <<Transition(g, "Demoted", FALSE, 1)>>)

\* Host keys: the worker met an unknown key; the user approves it, or removes the task.
Challenge(g) ==
  /\ In(g, {"Active"}) /\ Settled(g) /\ g \in HostKeyed /\ Pin(g) \notin mem[g].options /\ ~Is(jr[g].terminal)
  /\ Input([mem[g] EXCEPT !.state = "PausedHostKey"], g,
           <<Pre(<<JournalWrite(g, mem[g].gen, KeyRecord(g, "Pending")), JournalWrite(g, mem[g].gen, Paused("HostKeyApproval"))>>),
             Transition(g, "Paused", mem[g].paused, mem[g].demotions),
             HostKey(g, "PersistHostKeyChallenge", "PutHostKeyChallenge", {})>>)
Approve(g) ==
  /\ In(g, {"PausedHostKey"})
  /\ LET pinned == mem[g].options \cup {Pin(g)}
         wait == ~mem[g].paused
     IN Input([mem[g] EXCEPT !.options = pinned, !.state = IF wait THEN "Waiting" ELSE "Paused"], g,
              <<Pre(<<JournalWrite(g, mem[g].gen, KeyRecord(g, "Approved"))>>),
                HostKey(g, "PersistHostKeyPinAndClearChallenge", "ResolveHostKeyChallenge", pinned),
                IF wait THEN Transition(g, "Waiting", FALSE, mem[g].demotions) ELSE Pre(<<JournalWrite(g, mem[g].gen, Paused("User"))>>)>>)

\* What a worker writes into the journal of its task.
Worker(g, type) ==
  /\ jr' = [jr EXCEPT ![g] = apply_record(@, mem[g].gen, [type |-> type])]
  /\ UNCHANGED <<db, mem, todo, recovered, phase>>

\* The end of a task.  A worker writes TaskComplete itself.
WorkerCompletes(g) ==
  /\ In(g, {"Active"}) /\ Settled(g) /\ ~Is(jr[g].terminal) /\ jr[g].layout
  /\ Worker(g, "TaskComplete")
WorkerCommitsLayout(g) ==
  /\ In(g, {"Active"}) /\ ~Is(jr[g].terminal) /\ ~jr[g].layout
  /\ Worker(g, "LayoutCommitted")
\* Leases are open only under a worker, which settles them before it ends.
WorkerLeases(g) ==
  /\ In(g, {"Active"}) /\ ~Is(jr[g].terminal) /\ jr[g].layout /\ jr[g].leases = "none" /\ Worker(g, "LeaseStarted")
WorkerSettles(g) ==
  /\ In(g, {"Active", "Pausing", "PausingSlow", "Demoting", "PausedRestarting"}) /\ jr[g].leases = "open"
  /\ \E type \in {"LeaseCommitted", "LeaseAborted"} : Worker(g, type)
Terminate(g, status) ==
  /\ CASE status = "Complete" -> In(g, {"Active"}) /\ Is(jr[g].terminal)
       [] status = "Error" -> In(g, {"Active"}) /\ ~Is(jr[g].terminal)
       [] OTHER -> In(g, {"Active", "Waiting", "Paused", "PausedSlow", "PausedHostKey", "WaitingSlow"}) /\ ~Is(jr[g].terminal)
  /\ mem[g].state = "Active" => Settled(g)
  /\ LET asked == mem[g].state = "PausedHostKey"
     IN Input([mem[g] EXCEPT !.state = "StoppedResult"], g,
              <<Pre(IF asked THEN <<JournalWrite(g, mem[g].gen, KeyRecord(g, "Rejected"))>> ELSE << >>)>>
              \o (IF asked THEN <<HostKey(g, "PersistHostKeyChallengeRejected", "RejectHostKeyChallenge", {})>> ELSE << >>)
              \o <<terminal_plan(g, status)>>)
Delete(g) ==
  /\ In(g, {"StoppedResult"})
  /\ LET remaining == SelectSeq(Order("Stopped"), LAMBDA h : h # g)
     IN /\ todo' = <<Plan(Some([kind |-> "DeleteStoppedTaskMetadata", gid |-> g, remaining |-> remaining]),
                          <<[op |-> "DeleteStoppedTaskMetadata", gid |-> g, remaining |-> remaining]>>)>>
        /\ mem' = Without(mem, {g}) /\ UNCHANGED <<db, jr, recovered, phase>>

\* apply_option_patch: in place the database alone is written; a running task
\* stages the patch in its journal and restarts under it.
NextPatch(g) == {id \in PatchIds : \A k \in PatchIds : Patch(k) \in mem[g].options => id > k}
PatchInPlace(g, id) ==
  /\ In(g, {"Waiting", "Paused", "PausedSlow", "PausedHostKey", "WaitingSlow"}) /\ g \in Patched /\ id \in NextPatch(g) /\ ~Is(mem[g].patch)
  /\ LET options == mem[g].options \cup {Patch(id)}
     IN Input([mem[g] EXCEPT !.options = options], g,
              <<Pre(<<[op |-> "ReplaceTaskOptions", gid |-> g, scope |-> "CurrentGeneration", options |-> options]>>)>>)
PatchRestart(g, id) ==
  /\ In(g, {"Active"}) /\ g \in Patched /\ id \in NextPatch(g) /\ ~Is(jr[g].terminal) /\ mem[g].gen < MaxGenerations
  /\ LET options == mem[g].options \cup {Patch(id)}
     IN Input([mem[g] EXCEPT !.options = options, !.patch = Some(id), !.state = "PausedRestarting"], g, <<stage_plan(g, options, id)>>)
RestartDrained(g) ==
  /\ In(g, {"PausedRestarting"}) /\ Settled(g)
  /\ Input([mem[g] EXCEPT !.state = "Waiting"], g, <<Transition(g, "Waiting", mem[g].paused, mem[g].demotions)>>)

---------------------------------------------------------------------------------
\* Crash and restart.
Crash ==
  /\ phase # "down"
  /\ mem' = EmptyMap /\ todo' = << >> /\ recovered' = EmptyMap /\ phase' = "down"
  /\ jr' = [g \in DOMAIN jr |-> [jr[g] EXCEPT !.leases = IF @ = "open" THEN "left" ELSE @]]
  /\ UNCHANGED db
Start ==
  /\ phase = "down"
  /\ LET r == reconcile_startup(db, jr)
     IN IF r.refused THEN phase' = "refused" /\ UNCHANGED <<mem, todo, recovered>>
        ELSE /\ mem' = [g \in DOMAIN db.tasks |->
                         MemTask(r.tasks[g].state, jr[g].generation, TRUE, db.tasks[g].paused, db.tasks[g].current, None,
                                 db.tasks[g].demotions)]
             /\ recovered' = [g \in DOMAIN db.tasks |-> jr[g]]
             /\ todo' = IF r.repairs = << >> THEN << >> ELSE <<Pre(r.repairs)>>
             /\ phase' = "repairing"
  /\ UNCHANGED <<db, jr>>

\* restore_catalog: the options each task goes on with.
Staged(g) == Is(jr[g].pending) /\ Is(The(jr[g].pending).patch)
Promoted(g) == ~Staged(g) /\ Is(jr[g].current.patch) /\ db.tasks[g].staged # {}
Restored(g) == IF Staged(g) THEN The(jr[g].pending).options ELSE IF Promoted(g) THEN db.tasks[g].staged ELSE db.tasks[g].current
MirrorRefused(g) ==
  \/ Promoted(g) /\ db.tasks[g].staged # jr[g].current.options
  \/ Decided(jr[g], "Approved") /\ jr[g].current.options # Restored(g)
restore_writes(g) ==
  CASE Staged(g) -> <<[op |-> "ReplaceTaskOptions", gid |-> g, scope |-> "NextAdmission", options |-> Restored(g)]>>
    [] Promoted(g) -> <<[op |-> "PromoteTaskOptions", gid |-> g, options |-> Restored(g)]>>
    [] OTHER -> << >>
RestoreCatalog ==
  /\ phase = "repairing" /\ todo = << >>
  /\ IF \E g \in DOMAIN mem : MirrorRefused(g)
     THEN phase' = "refused" /\ UNCHANGED <<mem, todo>>
     ELSE LET tasks == Ascending(DOMAIN mem)
              writes == FlattenSeq([i \in DOMAIN tasks |-> restore_writes(tasks[i])])
          IN /\ mem' = [g \in DOMAIN mem |-> [mem[g] EXCEPT !.options = Restored(g),
                                                            !.patch = IF Staged(g) THEN The(jr[g].pending).patch ELSE None]]
             /\ todo' = IF writes = << >> THEN << >> ELSE <<Pre(writes)>>
             /\ phase' = "restoring"
  /\ UNCHANGED <<db, jr, recovered>>
Up == phase = "restoring" /\ todo = << >> /\ phase' = "up" /\ UNCHANGED <<db, jr, mem, todo, recovered>>

CrashInit ==
  /\ db = [EmptyDatabase EXCEPT !.session = Some(1)]
  /\ jr = EmptyMap /\ mem = EmptyMap /\ todo = << >> /\ recovered = EmptyMap /\ phase = "up"
CrashNext ==
  \/ Write \/ Crash \/ Start \/ RestoreCatalog \/ Up
  \/ \E g \in Gids :
       \/ \E paused \in BOOLEAN : Add(g, paused)
       \/ Admit(g) \/ AdmitFails(g)
       \/ Challenge(g) \/ Approve(g)
       \/ \E id \in PatchIds : PatchInPlace(g, id) \/ PatchRestart(g, id)
       \/ RestartDrained(g)
  \/ \E g \in Restless :
       \/ Pause(g) \/ Drained(g) \/ Resume(g) \/ RepresentationRestart(g) \/ SlowPause(g) \/ Demote(g)
       \/ WorkerCompletes(g) \/ WorkerCommitsLayout(g) \/ WorkerLeases(g) \/ WorkerSettles(g) \/ Delete(g)
       \/ \E status \in {"Complete", "Error", "Removed"} : Terminate(g, status)
CrashSpec == CrashInit /\ [][CrashNext]_crashVars

---------------------------------------------------------------------------------
\* The types of the variables: an open database, and journals for all its tasks.
CrashTypeOK ==
  /\ DOMAIN db.tasks \subseteq Gids /\ DOMAIN db.tasks \subseteq DOMAIN jr /\ DOMAIN mem \subseteq Gids
  /\ DOMAIN recovered \subseteq DOMAIN jr
  /\ phase \in Phases
  /\ \A g \in DOMAIN jr : jr[g].generation \in 0..MaxGenerations
  /\ \A i \in DOMAIN todo : todo[i].steps # << >> /\ todo[i].done < Len(todo[i].steps)

\* Every plan the control plane builds for an effect is one the effect sink
\* admits and dispatches (plan_for_effect and terminal_plan against
\* validate_plan and validate_dispatched_plan): an effect whose plan is refused
\* would stop the engine.
PlansAdmitted ==
  \A i \in DOMAIN todo : Is(todo[i].effect) /\ todo[i].done = 0 =>
    LET e == The(todo[i].effect)
    IN /\ validate_plan(e, todo[i].steps)
       /\ e.gid \in DOMAIN mem => validate_dispatched_plan(e, mem[e.gid].gen, todo[i].steps)

\* Every write the control plane submits, and every repair of a start after a
\* crash between any two of them, is accepted by the session store: the
\* expected queues, orders, challenges and mirrors are the ones the store has.
WritesAccepted == phase # "fault"

\* The repairs of a start are complete: once they are written, reconciling
\* again refuses nothing, repairs nothing and gives the same tasks
\* (reconcile_startup, startup_executor).
RepairsConverge ==
  phase = "restoring" =>
    LET r == reconcile_startup(db, jr)
    IN /\ ~r.refused /\ r.repairs = << >>
       /\ \A g \in DOMAIN mem : r.tasks[g].state = mem[g].state

\* Between inputs, the two stores say what the scheduler says, so that a crash
\* here loses nothing: the queue and place of each task, the user's pause, the
\* generation, the options, and the state the next start gives the task.  (A
\* task whose key was rejected, resumed but not yet admitted, starts paused.)
Reborn(state) == CASE state = "Active" -> "Waiting" [] state = "PausedRestarting" -> "Waiting" [] state \in {"Pausing", "PausingSlow"} -> "Paused" [] state = "Demoting" -> "WaitingSlow" [] OTHER -> state
IdleCrashKeeps ==
  Idle =>
    /\ DOMAIN mem = DOMAIN db.tasks
    /\ \A g \in {h \in DOMAIN mem : ~Is(jr[h].bad)} :
         /\ db.tasks[g].queue = QueueOf(mem[g].state)
         /\ mem[g].state # "StoppedResult" => db.tasks[g].paused = mem[g].paused /\ Restored(g) = mem[g].options
         /\ jr[g].generation = mem[g].gen
         /\ Decided(jr[g], "Rejected") \/ normalize_task(db.tasks[g], jr[g]).state = IF Is(jr[g].terminal) THEN "StoppedResult" ELSE Reborn(mem[g].state)

\* A start is refused, or an admission ends the control plane, only after a
\* crash inside one of four writes: between the journal's terminal record and
\* the stopped result (terminal_plan), after a snapshot staged without a patch
\* (an automatic readmission, whose snapshot is then staged again, or a
\* representation restart whose task is patched in place before it is admitted),
\* or with options patched in place before a host key was approved
\* (apply_option_patch, restore_catalog); or because a crash left a lease open,
\* which nothing settles: the readmission or the pause written next spoils the
\* journal.  A lease of a worker that runs is never in the way of a record.
RefusalsExplained ==
  phase \in {"refused", "failed"} =>
    \E g \in DOMAIN db.tasks :
      \/ phase = "failed" /\ Is(jr[g].pending) /\ ~Staged(g) /\ The(jr[g].pending).options # db.tasks[g].current
      \/ MissingStoppedResult(db.tasks[g], jr[g])
      \/ jr[g].bad \in {Some("StagedTwice"), Some("LeasesLeft")}
      \/ Decided(jr[g], "Approved") /\ \E id \in PatchIds : Patch(id) \in db.tasks[g].current /\ Patch(id) \notin jr[g].current.options

\* The journal wins over the SQLite caches, so every crash is recovered from:
\* no start is refused.  (It is not so: see RefusalsExplained.)
EveryStartOpens == phase \notin {"refused", "failed"}

\* CrashTypeOK, PlansAdmitted and WritesAccepted: the control plane, the
\* effect sink and the session store agree on every write.
WritesSound == CrashTypeOK /\ PlansAdmitted /\ WritesAccepted
\* RepairsConverge, IdleCrashKeeps and RefusalsExplained: what a crash costs.
RecoverySound == RepairsConverge /\ IdleCrashKeeps /\ RefusalsExplained
=================================================================================
