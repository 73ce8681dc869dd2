---------------------------- MODULE SessionDatabase ----------------------------
(***************************************************************************)
(* The session database over its life: the owner thread runs the commands  *)
(* its clients submit (session_owner.rs execute_command), each one         *)
(* transaction of SessionStore.  A client works from what it last read, so *)
(* any command may meet any database; the wall clock that stamps a command *)
(* may have stepped back.  A behaviour uses the queue commands and the     *)
(* commands of one family, chosen at the start.                            *)
(***************************************************************************)
EXTENDS SessionStore

CONSTANTS Marked,    \* the tasks the commands of the family are used on
          Bindings   \* the torrents a client or the engine may describe, valid or not
ASSUME MarkedAssumption == Marked \subseteq Gids /\ Bindings \subseteq BtBindings

VARIABLES db,        \* the committed database: what a crash leaves behind
          family,    \* which other commands this behaviour uses
          asked,     \* checkpoints a BitTorrent worker asked its engine for
          setup      \* how often a torrent's restart options were replaced

databaseVars == <<db, family, asked, setup>>

SetupOf == [g \in Gids |-> 0]
DatabaseInit ==
  /\ db \in put_session(EmptyDatabase, "session")
  /\ family \in {"keys", "installs", "options", "torrent"}
  /\ asked = {}
  /\ setup = SetupOf

\* The wall clock may step back; it does so in the behaviours of one family.
Clock == IF family = "installs" THEN Times ELSE {MaxTime}
Commit(S) == \E d \in S : d # db /\ db' = d
Keep == UNCHANGED <<family, asked, setup>>

\* The orders a client may ask for: the current ones with the task moved.
InsertedAt(s, i, g) == SubSeq(s, 1, i) \o <<g>> \o SubSeq(s, i + 1, Len(s))
Orders(g, from, to) ==
  LET left == SelectSeq(read_queue_order(db, from), LAMBDA h : h # g)
      right == SelectSeq(read_queue_order(db, to), LAMBDA h : h # g)
  IN {[q \in {from, to} |-> IF q = to THEN InsertedAt(right, i, g) ELSE left] : i \in 0..Len(right)}
ErrorResult == [status |-> "Error", error |-> TRUE, layout |-> FALSE]
CompleteResult == [status |-> "Complete", error |-> FALSE, layout |-> TRUE]
SlowOf(to) == IF to = "Demoted" THEN Some(0) ELSE None

Create == \E g \in Gids, q \in Live, pos \in 0..(MaxTasks - 1), now \in Clock :
  /\ Commit(create_task_with_metadata(db, g, q, pos, q = "Paused", Some(CHOOSE j \in Journals : TRUE), {}, now))
  /\ Keep
Move == \E g \in DOMAIN db.tasks, to \in Live, pos \in 0..(MaxTasks - 1), now \in Clock :
  LET row == db.tasks[g] IN
  /\ Commit(transition_task_queue(db, g, row.queue, to, pos, to = "Paused",
                                  IF to = "Demoted" THEN 1 ELSE row.demotions, SlowOf(to), now))
  /\ Keep
MoveExact == \E g \in DOMAIN db.tasks, to \in Live, now \in Clock :
  \E orders \in Orders(g, db.tasks[g].queue, to) :
    /\ Commit(transition_task_queue_exact(db, g, db.tasks[g].queue, to, to = "Paused",
                                          IF to = "Demoted" THEN 1 ELSE db.tasks[g].demotions, SlowOf(to), orders, now))
    /\ Keep
Reorder == \E q \in Queues, now \in Clock :
  /\ \E g \in Members(db, q) : \E orders \in Orders(g, q, q) : Commit(reorder_queue(db, q, orders[q], now))
  /\ Keep
Stop == \E g \in DOMAIN db.tasks, pos \in 0..(MaxTasks - 1), now \in Clock :
  /\ Commit(persist_stopped_result(db, g, ErrorResult, db.tasks[g].queue, pos, db.tasks[g].paused, db.tasks[g].demotions, now))
  /\ Keep
StopExact == \E g \in DOMAIN db.tasks, now \in Clock : \E orders \in Orders(g, db.tasks[g].queue, "Stopped") :
  /\ Commit(persist_stopped_result_exact(db, g, ErrorResult, db.tasks[g].queue, db.tasks[g].paused, db.tasks[g].demotions,
                                         orders, now))
  /\ Keep
Delete == \E g \in DOMAIN db.tasks, now \in Clock :
  /\ Commit(delete_stopped_task_metadata(db, g,
              SelectSeq(read_queue_order(db, "Stopped"), LAMBDA h : h # g), now))
  /\ asked' = {a \in asked : a.gid # g}
  /\ UNCHANGED <<family, setup>>

\* Host keys and the options that carry their pins.
KeyStep ==
  /\ family = "keys"
  /\ \E g \in Marked \cap DOMAIN db.tasks, id \in {"c1", "c2"}, key \in Keys :
       \/ Commit(put_host_key_challenge(db, g, id, key))
       \/ Commit(reject_host_key_challenge(db, g, id))
       \/ \E scope \in {"CurrentGeneration", "NextAdmission"}, k \in Keys :
            Commit(resolve_host_key_challenge(db, g, id, key, scope, {Pin(k)}))
       \/ \E staged \in SUBSET {Pin(key)} : Commit(promote_task_options(db, g, staged))
       \/ Commit(replace_task_options(db, g, "NextAdmission", {Pin(key)}))
  /\ Keep

\* Journal compaction, and what startup reconciles with the journal.
InstallStep ==
  /\ family = "installs"
  /\ \E g \in Marked \cap DOMAIN db.tasks, old, new \in Journals, now \in Clock :
       \/ Commit(begin_journal_install(db, g, old, new))
       \/ Commit(complete_journal_install(db, g, new, now))
       \/ Commit(abort_journal_install(db, g, new))
       \/ Commit(clear_installed_journal(db, g, new))
       \/ \E layout, root \in BOOLEAN : Commit(reconcile_journal_authority(db, g, old, layout, root, now))
       \/ \E noSpace \in BOOLEAN :
            Commit(put_task(db, g, db.tasks[g].queue, db.tasks[g].pos, db.tasks[g].paused, noSpace, Some(new), now))
  /\ Keep

\* Options, sources and the metadata a finished download expands to.
OptionStep ==
  /\ family = "options"
  /\ \E g \in Marked \cap DOMAIN db.tasks, options \in SUBSET Entries, now \in Clock :
       \/ \E scope \in {"CurrentGeneration", "NextAdmission"} : Commit(replace_task_options(db, g, scope, options))
       \/ Commit(promote_task_options(db, g, options))
       \/ \E sources \in {{[uri |-> FALSE, credentials |-> c]} : c \in BOOLEAN} : Commit(replace_task_sources(db, g, sources))
       \/ \E to \in {"Waiting", "Paused"} : \E orders \in Orders(g, db.tasks[g].queue, to) :
            Commit(replace_task_sources_and_queue(db, g, db.tasks[g].queue, to, FALSE, db.tasks[g].demotions, None,
                                                  orders, {Plain}, now))
       \/ \E members \in {m \in SUBSET Gids : Cardinality(m) \in 1..2} :
            Commit(create_batch_following(db, members, Some(g), options, "Waiting", Some(CHOOSE j \in Journals : TRUE), now))
       \/ \E on \in BOOLEAN : Commit(set_task_no_space_condition(db, g, on, now))
  /\ Keep

\* BitTorrent: the worker asks for a checkpoint, the engine answers later,
\* and the answer is stored whenever the owner gets to it.
TorrentStep ==
  /\ family = "torrent"
  /\ \/ /\ \E g \in Marked, q \in {"Waiting", "Paused"}, binding \in Bindings, now \in Clock :
             Commit(create_bt_task(db, g, q, 0, q = "Paused", {}, 0, binding, now))
        /\ UNCHANGED <<asked, setup>>
     \/ \E g \in DOMAIN db.tasks : IsTorrent(db, g) /\
          \/ /\ Commit(begin_bt_generation(db, g, Torrent(db, g).generation, Torrent(db, g).generation + 1))
             /\ Torrent(db, g).generation < MaxGenerations
             /\ UNCHANGED <<asked, setup>>
          \/ /\ \A a \in asked : a.gid # g
             /\ Commit(begin_bt_generation(db, g, 0, 0))
             /\ UNCHANGED <<asked, setup>>
          \/ /\ db.tasks[g].queue = "Active" /\ Torrent(db, g).request # NoRequest
             /\ \E r \in 1..2 :
                  /\ \A a \in asked : a.gid = g /\ a.generation = Torrent(db, g).generation => a.request < r
                  /\ asked' = asked \cup {[gid |-> g, generation |-> Torrent(db, g).generation, request |-> r, setup |-> setup[g]]}
             /\ UNCHANGED <<db, setup>>
          \/ /\ \E a \in asked : \E resume \in {None, Some(None), Some(Some(a))} :
                  a.gid = g /\ Commit(checkpoint_bt(db, g, a.generation, a.request, resume))
             /\ UNCHANGED <<asked, setup>>
          \/ /\ \/ Commit(mark_bt_dirty(db, g, Torrent(db, g).generation))
                \/ \E binding \in Bindings : Commit(bind_bt_metadata(db, g, Torrent(db, g).generation, binding))
             /\ UNCHANGED <<asked, setup>>
          \/ /\ setup[g] = 0
             /\ \E options \in SUBSET Entries, binding \in Bindings :
                  Commit(replace_paused_bt_options(db, g, Torrent(db, g).generation, db.tasks[g].current, options, binding))
             /\ setup' = [setup EXCEPT ![g] = 1]
             /\ UNCHANGED asked
          \/ /\ \E now \in Clock, orders \in Orders(g, db.tasks[g].queue, "Stopped") :
                  Commit(persist_bt_terminal(db, g, CompleteResult, db.tasks[g].queue, "Stopped", db.tasks[g].paused, orders,
                                             Torrent(db, g).saved, Torrent(db, g).request, now))
             /\ UNCHANGED <<asked, setup>>
  /\ UNCHANGED family

DatabaseNext ==
  \/ Create \/ Move \/ MoveExact \/ Reorder \/ Stop \/ StopExact \/ Delete
  \/ KeyStep \/ InstallStep \/ OptionStep \/ TorrentStep
DatabaseSpec == DatabaseInit /\ [][DatabaseNext]_databaseVars

---------------------------------------------------------------------------------
\* The database maps tasks to rows of the right shape (SessionTaskRecord).
DatabaseTypeOK ==
  /\ DOMAIN db.tasks \subseteq Gids
  /\ \A g \in DOMAIN db.tasks : db.tasks[g].queue \in Queues /\ db.tasks[g].pos \in 0..(MaxTasks - 1)
  /\ asked \subseteq [gid : Gids, generation : 0..MaxGenerations, request : 1..2, setup : 0..1]

\* Whatever the commands that committed, the next start opens the database:
\* SessionStore::open runs every check of validate_persisted_semantics and
\* refuses the session as a whole when one fails, while most commands check
\* only a part of it.
NextStartOpens == validate_persisted_semantics(db)

\* The shifts of transition_task_queue_in_transaction keep every queue
\* dense: a move to any position inside the target queue is never rolled
\* back by validate_dense_queues, so the scheduler's move is never lost.
MovesCommit ==
  \A g \in DOMAIN db.tasks, to \in Live :
    LET row == db.tasks[g]
        room == Cardinality(Members(db, to)) - (IF row.queue = to THEN 1 ELSE 0)
    IN row.queue # "Stopped" /\ row.kind = "Transfer" /\ ~reject_retained_host_key_departure(db, g, row.queue, to) =>
         \A pos \in 0..room :
           transition_task_queue(db, g, row.queue, to, pos, FALSE, 1, SlowOf(to), MaxTime) # {}

\* A task's journal is replaced only by the journal its durable install
\* intent names, and only from the journal the intent started from: replay
\* after a crash always finds the pointer the intent explains.
PointerFollowsIntent ==
  [][\A g \in DOMAIN db.tasks \cap DOMAIN db'.tasks : db'.tasks[g].journal # db.tasks[g].journal =>
       /\ Is(db.tasks[g].install)
       /\ The(db.tasks[g].install).phase = "Installing"
       /\ db.tasks[g].journal = Some(The(db.tasks[g].install).old)
       /\ db'.tasks[g].journal = Some(The(db.tasks[g].install).new)]_databaseVars

\* The resume data kept for a torrent was saved under the options it will
\* be resumed with: a checkpoint asked for before a restart change of the
\* options and stored after it is refused (request = u64::MAX until the
\* next generation).
ResumeMatchesSetup ==
  \A g \in DOMAIN db.tasks : IsTorrent(db, g) /\ Is(Torrent(db, g).blob) =>
    The(Torrent(db, g).blob).setup = setup[g]

\* A late checkpoint never replaces a newer one of the same torrent.
CheckpointsMoveForward ==
  [][\A g \in DOMAIN db.tasks \cap DOMAIN db'.tasks :
       IsTorrent(db, g) /\ Is(Torrent(db, g).blob) /\ IsTorrent(db', g) /\ Is(Torrent(db', g).blob) =>
         LET old == The(Torrent(db, g).blob)  new == The(Torrent(db', g).blob)
         IN \/ old.generation < new.generation
            \/ old.generation = new.generation /\ old.request <= new.request]_databaseVars

\* DatabaseTypeOK, NextStartOpens and MovesCommit: no command leaves a
\* database that refuses the next one, or the next start.
StoreSound == DatabaseTypeOK /\ NextStartOpens /\ MovesCommit
\* PointerFollowsIntent and CheckpointsMoveForward: what a transaction may
\* never do.
HistoryKept == PointerFollowsIntent /\ CheckpointsMoveForward
=================================================================================
