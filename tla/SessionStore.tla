------------------------------ MODULE SessionStore ------------------------------
(***************************************************************************)
(* The session database (ariax-storage/src/session_store.rs and            *)
(* session_bt.rs).  Every operation is one immediate SQLite transaction:   *)
(* it either commits the whole change or leaves the database as it was.    *)
(* An operation is therefore an operator from a database to the set of its *)
(* possible outcomes, {} when the operation is refused; a crash keeps the  *)
(* last committed database.  The rows of the tables of one task are the    *)
(* fields of one record; deleting the task deletes them (foreign keys).    *)
(***************************************************************************)
EXTENDS Maps, FiniteSets, FiniteSetsExt

CONSTANTS Gids, Journals, Keys, Entries, MaxTasks, MaxTime, MaxGenerations

\* A session names finitely many tasks, and there are journals to name.  The
\* options a client sets may be any, the pin of a host key included.
ASSUME StoreAssumption ==
  /\ IsFiniteSet(Gids)
  /\ MaxTasks \in Nat \ {0} /\ MaxTime \in Nat /\ MaxGenerations \in Nat
  /\ Journals # {}

Queues == {"Waiting", "Active", "Paused", "Stopped", "Demoted"}
Live == Queues \ {"Stopped"}
Plain == [uri |-> TRUE, credentials |-> FALSE]
Pin(key) == <<"pin", key>>
Expansion == <<"metadata-expansion">>
Times == 0..MaxTime
NoRequest == 9                      \* encode_u64(u64::MAX): no later request exists

EmptyDatabase == [session |-> None, tasks |-> EmptyMap]

---------------------------------------------------------------------------------
\* What an open database must satisfy, table by table.
Members(db, q) == {g \in DOMAIN db.tasks : db.tasks[g].queue = q}
validate_dense_queues(db) ==
  /\ Cardinality(DOMAIN db.tasks) <= MaxTasks
  /\ \A q \in Queues : {db.tasks[g].pos : g \in Members(db, q)} = 0..(Cardinality(Members(db, q)) - 1)
validate_stopped_result_pairing(db) ==
  \A g \in DOMAIN db.tasks : (db.tasks[g].queue = "Stopped") <=> Is(db.tasks[g].result)
validate_slow_slot_state(q, paused, demotions, slow) ==
  /\ (q = "Demoted") <=> Is(slow)
  /\ q = "Demoted" => ~paused /\ demotions > 0
validate_install_values(intent) == intent.old # intent.new
validate_host_key_challenges(db) ==
  \A g \in DOMAIN db.tasks : Is(db.tasks[g].challenge) => db.tasks[g].queue = "Paused"
\* The CHECK clauses of the task table.
TaskTable(row) ==
  /\ (row.queue = "Demoted") <=> Is(row.slow)
  /\ row.queue = "Demoted" => row.demotions > 0 /\ ~row.paused
  /\ row.layout <=> row.root
  /\ row.kind = "BitTorrent" =>
       ~Is(row.journal) /\ ~row.noSpace /\ row.demotions = 0 /\ row.queue # "Demoted" /\ ~row.layout
  /\ row.kind = "Transfer" => Is(row.journal)
\* RawTaskRow::decode: the columns that describe one thing are there together.
decode_task(row) ==
  /\ Is(row.journal)
  /\ Is(row.slow) => The(row.slow) < MaxTasks
read_task_records(db) == \A g \in DOMAIN db.tasks : db.tasks[g].kind = "Transfer" => decode_task(db.tasks[g])
\* A source is an address that may be written down, or one that needs
\* credentials the database does not keep.
source_ok(source) == source.uri \/ source.credentials
validate_task_sources_for_write(sources) == \A s \in sources : source_ok(s)
validate_task_sources(db) == \A g \in DOMAIN db.tasks : \A s \in db.tasks[g].sources : source_ok(s)
\* What a result of each status says: only an error has an error kind, only
\* a completion a length and a layout.
validate_stopped_result(result) ==
  \/ result.status = "Complete" /\ ~result.error /\ result.layout
  \/ result.status = "Error" /\ result.error /\ ~result.layout
  \/ result.status = "Removed" /\ ~result.error /\ ~result.layout
read_stopped_results(db) ==
  \A g \in DOMAIN db.tasks : Is(db.tasks[g].result) => validate_stopped_result(The(db.tasks[g].result))
read_journal_installs(db) ==
  \A g \in DOMAIN db.tasks : Is(db.tasks[g].install) => validate_install_values(The(db.tasks[g].install))
\* What a torrent is known by: a magnet link, the metainfo or the info the
\* swarm sent, and the files these say it has, at paths that may clash.
BtBindings == [magnet : BOOLEAN, metainfo : BOOLEAN, info : BOOLEAN, files : {"none", "ok", "clash"}]
binding_validate(b) == IF b.metainfo \/ b.info THEN b.files = "ok" ELSE b.magnet /\ b.files = "none"
\* The metadata row and the resume row of a torrent (bt) are there for a
\* torrent and for nothing else, they are of one generation, clean resume data
\* is not empty, and the binding is a valid one (validate_rows, read_tasks).
bt_row_valid(bt) == bt.saved = bt.generation /\ (~bt.dirty => Is(bt.blob)) /\ binding_validate(bt.binding)
bt_validate_rows(db) ==
  \A g \in DOMAIN db.tasks : LET row == db.tasks[g] IN
    /\ (row.kind = "BitTorrent") <=> Is(row.bt)
    /\ Is(row.bt) => row.queue # "Demoted" /\ bt_row_valid(The(row.bt))
validate_persisted_semantics(db) ==
  /\ validate_dense_queues(db)
  /\ DOMAIN db.tasks # {} => Is(db.session)
  /\ \A g \in DOMAIN db.tasks : TaskTable(db.tasks[g])
  /\ read_task_records(db)
  /\ bt_validate_rows(db)
  /\ validate_task_sources(db)
  /\ validate_stopped_result_pairing(db)
  /\ read_stopped_results(db)
  /\ validate_host_key_challenges(db)
  /\ read_journal_installs(db)
  /\ \A g \in DOMAIN db.tasks : Is(db.tasks[g].install) =>
       LET intent == The(db.tasks[g].install)
       IN db.tasks[g].journal = Some(IF intent.phase = "Installing" THEN intent.old ELSE intent.new)

\* The CHECK clauses run on every row an UPDATE writes, the updated_ms >= created_ms one included.
Written(db, S, now) == IF \A g \in S : TaskTable(db.tasks[g]) /\ db.tasks[g].created <= now THEN {db} ELSE {}
QueuesValid(S) == {d \in S : validate_dense_queues(d) /\ validate_stopped_result_pairing(d)}
Row(db, g, row) == [db EXCEPT !.tasks = Put(@, g, row)]

---------------------------------------------------------------------------------
\* Sessions and task rows.
put_session(db, id) == IF Is(db.session) /\ db.session # Some(id) THEN {} ELSE {[db EXCEPT !.session = Some(id)]}

NewRow(kind, q, pos, paused, journal, options, now) ==
  [kind |-> kind, queue |-> q, pos |-> pos, paused |-> paused, slow |-> None, demotions |-> 0,
   journal |-> journal, layout |-> FALSE, root |-> FALSE, noSpace |-> FALSE, created |-> now,
   sources |-> {}, current |-> options, staged |-> {}, challenge |-> None, install |-> None,
   result |-> None, bt |-> None]

\* put_task rewrites what the queue operations do not own.
put_task(db, g, q, pos, paused, noSpace, journal, now) ==
  IF q = "Stopped" \/ ~Is(db.session) THEN {}
  ELSE IF g \notin DOMAIN db.tasks
       THEN QueuesValid(Written(Row(db, g,
              [NewRow("Transfer", q, pos, paused, journal, {}, now) EXCEPT !.noSpace = noSpace]), {g}, now))
       ELSE LET old == db.tasks[g] IN
            IF old.kind # "Transfer" \/ old.queue # q \/ old.pos # pos \/ old.journal # journal THEN {}
            ELSE QueuesValid(Written(Row(db, g, [old EXCEPT !.paused = paused, !.noSpace = noSpace]), {g}, now))

\* insert_admission_metadata: room is made at the position asked for.
OpenGap(db, q, from) ==
  [db EXCEPT !.tasks = [g \in DOMAIN db.tasks |->
     IF db.tasks[g].queue = q /\ db.tasks[g].pos >= from
     THEN [db.tasks[g] EXCEPT !.pos = @ + 1] ELSE db.tasks[g]]]
\* A task leaves a queue and the places after it are not filled.
GapKept(db, q, after) == db
CloseGap(db, q, after) ==
  [db EXCEPT !.tasks = [g \in DOMAIN db.tasks |->
     IF db.tasks[g].queue = q /\ db.tasks[g].pos > after
     THEN [db.tasks[g] EXCEPT !.pos = @ - 1] ELSE db.tasks[g]]]
validate_admission_metadata(q, sources) ==
  q # "Stopped" /\ sources # {} /\ validate_task_sources_for_write(sources)
insert_admission_metadata(db, g, q, pos, paused, journal, options, now) ==
  IF \/ g \in DOMAIN db.tasks \/ ~validate_admission_metadata(q, {Plain}) \/ q = "Demoted" \/ ~Is(db.session)
     \/ pos > Cardinality(Members(db, q)) THEN {}
  ELSE {Row(OpenGap(db, q, pos), g,
            [NewRow("Transfer", q, pos, paused, journal, options, now) EXCEPT !.sources = {Plain}])}
create_task_with_metadata(db, g, q, pos, paused, journal, options, now) ==
  QueuesValid(insert_admission_metadata(db, g, q, pos, paused, journal, options, now))

\* persist_metadata_expansion: the parent is the running transfer whose
\* options are still the ones its metadata was read under.
persist_metadata_expansion(db, parent, snapshot, children) ==
  IF \/ parent \notin DOMAIN db.tasks \/ parent \in children
     \/ db.tasks[parent].kind # "Transfer" \/ db.tasks[parent].queue # "Active"
     \/ db.tasks[parent].current # snapshot \/ Expansion \in db.tasks[parent].current THEN {}
  ELSE {[db EXCEPT !.tasks[parent].current = @ \cup {Expansion}]}
\* create_task_batch_following and create_session_batch_following: all the
\* members, and the mark on the parent, or none.
create_batch_following(db, members, parent, snapshot, q, journal, now) ==
  LET Joined(D, S) == UNION {UNION {insert_admission_metadata(e, g, q, Cardinality(Members(e, q)), FALSE, journal, {}, now) :
                                     g \in S} : e \in D}
      Expanded == IF Is(parent) THEN persist_metadata_expansion(db, The(parent), snapshot, members) ELSE {db}
  IN IF Cardinality(DOMAIN db.tasks) + Cardinality(members) > MaxTasks THEN {}
     ELSE QueuesValid({d \in (IF Cardinality(members) = 1 THEN Joined(Expanded, members)
                              ELSE Joined(Joined(Expanded, members), members)) :
                       members \subseteq DOMAIN d.tasks})

set_task_no_space_condition(db, g, on, now) ==
  IF g \notin DOMAIN db.tasks \/ (on /\ db.tasks[g].queue = "Stopped") THEN {}
  ELSE Written([db EXCEPT !.tasks[g].noSpace = on], {g}, now)

---------------------------------------------------------------------------------
\* Queues.
reorder_queue(db, q, order, now) ==
  IF {order[i] : i \in DOMAIN order} # Members(db, q) \/ Cardinality(Members(db, q)) # Len(order) THEN {}
  ELSE QueuesValid(Written([db EXCEPT !.tasks = [g \in DOMAIN db.tasks |->
         IF db.tasks[g].queue = q
         THEN [db.tasks[g] EXCEPT !.pos = (CHOOSE i \in DOMAIN order : order[i] = g) - 1]
         ELSE db.tasks[g]]], Members(db, q), now))

reject_retained_host_key_departure(db, g, from, to) ==
  from = "Paused" /\ to # "Paused" /\ Is(db.tasks[g].challenge)

Moved(row, to, pos, paused, demotions, slow) ==
  [row EXCEPT !.queue = to, !.pos = pos, !.paused = paused, !.demotions = demotions, !.slow = slow]

\* transition_task_queue_in_transaction: the neighbours shift, then the task moves.
ShiftWithin(db, q, from, to) ==
  [db EXCEPT !.tasks = [g \in DOMAIN db.tasks |-> LET row == db.tasks[g] IN
     IF row.queue # q THEN row
     ELSE IF to < from /\ row.pos >= to /\ row.pos < from THEN [row EXCEPT !.pos = @ + 1]
     ELSE IF to > from /\ row.pos > from /\ row.pos <= to THEN [row EXCEPT !.pos = @ - 1]
     ELSE row]]
transition_task_queue_in_transaction(db, g, from, to, pos, paused, demotions, slow, now) ==
  IF \/ ~validate_slow_slot_state(to, paused, demotions, slow)
     \/ g \notin DOMAIN db.tasks
  THEN {}
  ELSE LET len == Cardinality(Members(db, to))
           old == db.tasks[g]
           shifted == IF from = to THEN ShiftWithin(db, to, old.pos, pos)
                      ELSE OpenGap(CloseGap(db, from, old.pos), to, pos)
           touched == {h \in DOMAIN db.tasks : shifted.tasks[h] # db.tasks[h]} \cup {g}
       IN IF \/ old.queue # from \/ reject_retained_host_key_departure(db, g, from, to)
             \/ pos > (IF from = to THEN len - 1 ELSE len) THEN {}
          ELSE Written(Row(shifted, g, Moved(old, to, pos, paused, demotions, slow)), touched, now)
transition_task_queue(db, g, from, to, pos, paused, demotions, slow, now) ==
  IF from = "Stopped" \/ to = "Stopped" THEN {}
  ELSE QueuesValid(transition_task_queue_in_transaction(db, g, from, to, pos, paused, demotions, slow, now))

\* apply_exact_queue_transition_in_transaction: the caller names the whole
\* final order of the queues involved, and the membership must be exact.
FinalMembers(db, g, from, to, q) ==
  IF from = to THEN Members(db, q)
  ELSE IF q = from THEN Members(db, q) \ {g}
  ELSE Members(db, q) \cup {g}
apply_exact_queue_transition(db, g, from, to, paused, demotions, slow, orders, now) ==
  IF \/ ~validate_slow_slot_state(to, paused, demotions, slow)
     \/ DOMAIN orders # {from, to} \/ g \notin DOMAIN db.tasks THEN {}
  ELSE IF \/ db.tasks[g].queue # from \/ reject_retained_host_key_departure(db, g, from, to)
          \/ \E q \in {from, to} : \/ {orders[q][i] : i \in DOMAIN orders[q]} # FinalMembers(db, g, from, to, q)
                                  \/ Len(orders[q]) # Cardinality(FinalMembers(db, g, from, to, q)) THEN {}
  ELSE LET moved == Row(db, g, Moved(db.tasks[g], to, 0, paused, demotions, slow))
           Placed(h) == (CHOOSE i \in DOMAIN orders[moved.tasks[h].queue] : orders[moved.tasks[h].queue][i] = h) - 1
           touched == Members(moved, from) \cup Members(moved, to)
       IN Written([moved EXCEPT !.tasks = [h \in DOMAIN db.tasks |->
                     IF h \in touched THEN [moved.tasks[h] EXCEPT !.pos = Placed(h)] ELSE moved.tasks[h]]],
                  touched, now)
transition_task_queue_exact(db, g, from, to, paused, demotions, slow, orders, now) ==
  IF from = "Stopped" \/ to = "Stopped" THEN {}
  ELSE QueuesValid(apply_exact_queue_transition(db, g, from, to, paused, demotions, slow, orders, now))

\* Terminal results.
DropChallenge(db, g) == IF g \in DOMAIN db.tasks THEN [db EXCEPT !.tasks[g].challenge = None] ELSE db
Recorded(S, g, result) == {[d EXCEPT !.tasks[g].result = Some(result)] : d \in {e \in S : ~Is(e.tasks[g].result)}}
persist_stopped_result(db, g, result, from, pos, paused, demotions, now) ==
  IF from = "Stopped" \/ ~validate_stopped_result(result) THEN {}
  ELSE QueuesValid(Recorded(transition_task_queue_in_transaction(DropChallenge(db, g), g, from, "Stopped", pos,
                                                                 paused, demotions, None, now), g, result))
persist_stopped_result_exact(db, g, result, from, paused, demotions, orders, now) ==
  IF from = "Stopped" \/ ~validate_stopped_result(result) THEN {}
  ELSE QueuesValid(Recorded(apply_exact_queue_transition(DropChallenge(db, g), g, from, "Stopped", paused,
                                                         demotions, None, orders, now), g, result))
\* delete_stopped_task_metadata: what remains keeps its order, and the
\* caller must know that order.
read_queue_order(db, q) ==
  [i \in 1..Cardinality(Members(db, q)) |-> CHOOSE g \in Members(db, q) : db.tasks[g].pos = i - 1]
delete_stopped_task_metadata(db, g, remaining, now) ==
  IF g \notin Members(db, "Stopped") \/ remaining # SelectSeq(read_queue_order(db, "Stopped"), LAMBDA h : h # g)
  THEN {}
  ELSE LET kept == [db EXCEPT !.tasks = Without(@, {g})]
       IN QueuesValid(Written([kept EXCEPT !.tasks = [h \in DOMAIN kept.tasks |->
            IF kept.tasks[h].queue = "Stopped"
            THEN [kept.tasks[h] EXCEPT !.pos = (CHOOSE i \in DOMAIN remaining : remaining[i] = h) - 1]
            ELSE kept.tasks[h]]], Members(kept, "Stopped"), now))

---------------------------------------------------------------------------------
\* Options, sources and host keys.
replace_task_options_in_transaction(db, g, scope, options) ==
  IF g \notin DOMAIN db.tasks THEN {}
  ELSE IF scope = "CurrentGeneration" THEN {[db EXCEPT !.tasks[g].current = options]}
  ELSE {[db EXCEPT !.tasks[g].staged = options]}
replace_task_options(db, g, scope, options) == replace_task_options_in_transaction(db, g, scope, options)
promote_task_options(db, g, options) ==
  IF g \notin DOMAIN db.tasks \/ options = {} \/ db.tasks[g].staged # options THEN {}
  ELSE {[db EXCEPT !.tasks[g].current = options, !.tasks[g].staged = {}]}
replace_task_sources_in_transaction(db, g, sources) ==
  IF g \notin DOMAIN db.tasks THEN {} ELSE {[db EXCEPT !.tasks[g].sources = sources]}
replace_task_sources(db, g, sources) ==
  IF ~validate_task_sources_for_write(sources) THEN {} ELSE replace_task_sources_in_transaction(db, g, sources)
replace_task_sources_and_queue(db, g, from, to, paused, demotions, slow, orders, sources, now) ==
  IF sources = {} \/ from = "Stopped" \/ to = "Stopped" THEN {}
  ELSE QueuesValid(UNION {replace_task_sources(d, g, sources) :
         d \in apply_exact_queue_transition(db, g, from, to, paused, demotions, slow, orders, now)})

require_paused_task(db, g) == g \in Members(db, "Paused")
put_host_key_challenge(db, g, id, key) ==
  IF ~require_paused_task(db, g) THEN {}
  ELSE {[db EXCEPT !.tasks[g].challenge = Some([id |-> id, key |-> key])]}
reject_host_key_challenge(db, g, id) ==
  IF g \notin DOMAIN db.tasks \/ ~Is(db.tasks[g].challenge) \/ The(db.tasks[g].challenge).id # id THEN {}
  ELSE {[db EXCEPT !.tasks[g].challenge = None]}
resolve_host_key_challenge(db, g, id, key, scope, options) ==
  IF \/ ~require_paused_task(db, g) \/ db.tasks[g].challenge # Some([id |-> id, key |-> key])
     \/ Pin(key) \notin options THEN {}
  ELSE {[d EXCEPT !.tasks[g].challenge = None] : d \in replace_task_options(db, g, scope, options)}

---------------------------------------------------------------------------------
\* The journal pointer of a task, and its replacement by a compacted journal.
reconcile_journal_cache(db, g, layout, root, now) ==
  IF (layout # root) \/ g \notin DOMAIN db.tasks THEN {}
  ELSE Written([db EXCEPT !.tasks[g].layout = layout, !.tasks[g].root = root], {g}, now)
reconcile_journal_authority(db, g, journal, layout, root, now) ==
  IF g \notin DOMAIN db.tasks \/ db.tasks[g].journal # Some(journal) THEN {}
  ELSE reconcile_journal_cache(db, g, layout, root, now)
begin_journal_install(db, g, old, new) ==
  IF old = new \/ g \notin DOMAIN db.tasks \/ db.tasks[g].journal # Some(old) \/ Is(db.tasks[g].install) THEN {}
  ELSE {[db EXCEPT !.tasks[g].install = Some([old |-> old, new |-> new, phase |-> "Installing"])]}
Installing(db, g, new, phase) ==
  /\ g \in DOMAIN db.tasks /\ Is(db.tasks[g].install)
  /\ The(db.tasks[g].install).phase = phase /\ The(db.tasks[g].install).new = new
complete_journal_install(db, g, new, now) ==
  IF ~Installing(db, g, new, "Installing") \/ db.tasks[g].journal # Some(The(db.tasks[g].install).old) THEN {}
  ELSE Written([db EXCEPT !.tasks[g].journal = Some(new),
                          !.tasks[g].install = Some([The(@) EXCEPT !.phase = "Installed"])], {g}, now)
abort_journal_install(db, g, new) ==
  IF ~Installing(db, g, new, "Installing") \/ db.tasks[g].journal # Some(The(db.tasks[g].install).old) THEN {}
  ELSE {[db EXCEPT !.tasks[g].install = None]}
clear_installed_journal(db, g, new) ==
  IF ~Installing(db, g, new, "Installed") \/ db.tasks[g].journal # Some(new) THEN {}
  ELSE {[db EXCEPT !.tasks[g].install = None]}

---------------------------------------------------------------------------------
\* BitTorrent rows (session_bt.rs): a generation, the resume data last
\* checkpointed under it, and the request that checkpoint answered.
NewTorrentRow(generation, binding) ==
  [generation |-> generation, saved |-> generation, request |-> 0, blob |-> None, dirty |-> TRUE, binding |-> binding]
bt_insert_admission(db, g, q, pos, paused, options, generation, binding, now) ==
  IF \/ ~binding_validate(binding)
     \/ g \in DOMAIN db.tasks \/ q \notin {"Waiting", "Paused"} \/ ~Is(db.session)
     \/ Cardinality(DOMAIN db.tasks) >= MaxTasks \/ pos > Cardinality(Members(db, q)) THEN {}
  ELSE {Row(OpenGap(db, q, pos), g, [NewRow("BitTorrent", q, pos, paused, None, options, now) EXCEPT
          !.bt = Some(NewTorrentRow(generation, binding))])}
create_bt_task(db, g, q, pos, paused, options, generation, binding, now) ==
  {d \in bt_insert_admission(db, g, q, pos, paused, options, generation, binding, now) : validate_dense_queues(d)}
Torrent(db, g) == The(db.tasks[g].bt)
IsTorrent(db, g) == g \in DOMAIN db.tasks /\ Is(db.tasks[g].bt)
SetTorrent(db, g, bt) == {[db EXCEPT !.tasks[g].bt = Some(bt)]}
\* What is known of a torrent may be added to, and not changed.
Binds(old, new) ==
  /\ new.magnet = old.magnet
  /\ old.files # "none" => new.files = old.files
  /\ (old.info => new.info) /\ (old.metainfo => new.metainfo)
bind_bt_metadata(db, g, generation, binding) ==
  IF ~binding_validate(binding) \/ ~IsTorrent(db, g) \/ Torrent(db, g).generation # generation
     \/ ~Binds(Torrent(db, g).binding, binding) THEN {}
  ELSE SetTorrent(db, g, [Torrent(db, g) EXCEPT !.binding = binding])
\* The options of a paused torrent, with the trackers and files they lead to.
OptionsRefused(db, g, generation, expected, binding) ==
  \/ ~binding_validate(binding) \/ ~IsTorrent(db, g) \/ ~require_paused_task(db, g) \/ ~db.tasks[g].paused
  \/ Torrent(db, g).generation # generation \/ db.tasks[g].current # expected
  \/ Torrent(db, g).binding.info # binding.info
\* The options change and a checkpoint asked for under the old ones may come.
OptionsKeepRequest(db, g, generation, expected, options, binding) ==
  IF OptionsRefused(db, g, generation, expected, binding) THEN {}
  ELSE UNION {SetTorrent(d, g, [Torrent(d, g) EXCEPT !.binding = binding, !.blob = None, !.dirty = TRUE]) :
              d \in replace_task_options(db, g, "CurrentGeneration", options)}
replace_paused_bt_options(db, g, generation, expected, options, binding) ==
  IF OptionsRefused(db, g, generation, expected, binding) THEN {}
  ELSE UNION {SetTorrent(d, g, [Torrent(d, g) EXCEPT !.binding = binding, !.blob = None, !.dirty = TRUE,
                                                     !.request = NoRequest]) :
              d \in replace_task_options(db, g, "CurrentGeneration", options)}
begin_bt_generation(db, g, expected, generation) ==
  IF \/ generation < expected \/ (generation = expected /\ generation # 0)
     \/ ~IsTorrent(db, g) \/ Torrent(db, g).generation # expected THEN {}
  ELSE SetTorrent(db, g, [Torrent(db, g) EXCEPT !.generation = generation, !.saved = generation,
                                                !.dirty = TRUE, !.request = 0])
mark_bt_dirty(db, g, generation) ==
  IF ~IsTorrent(db, g) \/ Torrent(db, g).saved # generation THEN {}
  ELSE SetTorrent(db, g, [Torrent(db, g) EXCEPT !.dirty = TRUE])
\* A checkpoint that failed at its boundary brings no resume data (resume =
\* None) and keeps what is there, as dirty; an empty one (Some(None)) is refused.
Checkpointed(bt, request, resume) ==
  [bt EXCEPT !.blob = IF Is(resume) THEN The(resume) ELSE @, !.dirty = ~Is(resume), !.request = request]
\* A checkpoint is stored whenever it comes.
CheckpointUnordered(db, g, generation, request, resume) ==
  IF request = 0 \/ resume = Some(None) \/ ~IsTorrent(db, g) \/ Torrent(db, g).generation # generation THEN {}
  ELSE SetTorrent(db, g, Checkpointed(Torrent(db, g), request, resume))
\* An empty checkpoint is stored like any other.
CheckpointEmpty(db, g, generation, request, resume) ==
  IF \/ request = 0 \/ ~IsTorrent(db, g) \/ Torrent(db, g).generation # generation
     \/ Torrent(db, g).request >= request THEN {}
  ELSE SetTorrent(db, g, Checkpointed(Torrent(db, g), request, resume))
checkpoint_bt(db, g, generation, request, resume) ==
  IF \/ request = 0 \/ resume = Some(None) \/ ~IsTorrent(db, g) \/ Torrent(db, g).generation # generation
     \/ Torrent(db, g).request >= request THEN {}
  ELSE SetTorrent(db, g, Checkpointed(Torrent(db, g), request, resume))
persist_bt_terminal(db, g, result, from, to, paused, orders, generation, request, now) ==
  IF \/ ~validate_stopped_result(result)
     \/ ~IsTorrent(db, g) \/ Torrent(db, g).saved # generation \/ Torrent(db, g).request # request
     \/ (result.status = "Complete" /\ Torrent(db, g).dirty) THEN {}
  ELSE QueuesValid(Recorded(apply_exact_queue_transition(db, g, from, to, paused, 0, None, orders, now), g, result))

=================================================================================
