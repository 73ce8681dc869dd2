------------------------------- MODULE BtBridge -------------------------------
(***************************************************************************)
(* The BitTorrent side of the control plane: BtControl and the Task state  *)
(* machine it polls (ariax-engine, http_control/bittorrent.rs), the native *)
(* worker that owns the libtorrent session (ariax-bt, native.rs), and the  *)
(* rows of bt_metadata and bt_resume that survive it (ariax-storage,       *)
(* session_bt.rs).  A torrent's payload is a progress count; its resume    *)
(* data is the progress it was taken at.                                   *)
(*                                                                         *)
(* A task has at most one store or native command outstanding and looks at *)
(* nothing else before its answer, so a command and its answer are one     *)
(* step here; the tracked checkpoint, which the native session finishes in *)
(* its own time and the worker may give up on, is the exception.           *)
(***************************************************************************)
EXTENDS Naturals, FiniteSets, Sequences

CONSTANTS Torrents,      \* the torrents that may be added
          Outputs,       \* the output files each of them claims
          TransferOutput,\* the output of the HTTP download beside them
          MaxGeneration, \* generations a torrent is started for
          MaxProgress,   \* payload blocks a torrent downloads
          MaxTrouble,    \* pauses, checkpoints, faults, crashes and
                         \* metadata-only runs in all
          PairTrouble,   \* the same, and generations, once two are known
          RateTotals,    \* global download limits that may be configured
          Unlimited      \* a number above every limit

\* Bounds are counts, and a configured limit is a number of bytes or none.
ASSUME BtAssumption ==
    /\ MaxGeneration \in Nat /\ PairTrouble \in Nat /\ MaxProgress \in Nat
    /\ PairTrouble <= MaxGeneration
    /\ Unlimited \in Nat /\ RateTotals \subseteq 0..Unlimited

VARIABLES task,      \* Task: the record polled by BtControl::poll
          store,     \* the rows of bt_metadata and bt_resume
          native,    \* Worker::entries, its pending checkpoints
          disk,      \* payload written so far
          sched,     \* what the scheduler believes of the task
          mailbox,   \* requests the runtime holds for the BT lane
          admission, \* BtControl::admission: <<>> or <<torrent, seen>>
          transfer,  \* the HTTP download is in the transfer catalog
          plane,     \* open, stopping, stopped, faulted, unremovable, refused
          trouble,
          rates      \* BtControl: bandwidth, rate_updates, rate_pending

btVars == <<task, store, native, disk, sched, mailbox, admission, transfer,
            plane, trouble>>

\* ReplacePausedBtOptions writes u64::MAX as the request of a row whose
\* generation has ended.
Ended == 99

Cycle == {"load_resume", "add", "metadata", "bind", "save_metadata",
          "approve", "dirty", "resume", "running", "checkpoint", "persist",
          "remove"}
\* Task::new: what a process knows of a task before its first allocation.
NewTask(row, bound) ==
    [phase |-> "idle", boundary |-> "periodic", gen |-> row.gen,
     request |-> row.request, dirty |-> row.dirty, owed |-> "none",
     cancel |-> FALSE, shutdown |-> FALSE, event |-> <<>>, failure |-> 0,
     added |-> FALSE, taken |-> <<>>, reply |-> "none", failed |-> FALSE,
     bound |-> bound, check |-> <<>>, version |-> 0]
NoNative == [added |-> FALSE, held |-> FALSE, paused |-> FALSE, pending |-> 0,
             waited |-> FALSE, saved |-> FALSE, approved |-> FALSE,
             version |-> 0]
\* The worker's torrent through Worker::add (held back; a magnet runs for
\* its metadata), approve, resume and a checkpoint taken in hand.
native_add(bound) == [NoNative EXCEPT !.added = TRUE, !.held = TRUE, !.paused = bound]
native_approve(n) == [n EXCEPT !.held = FALSE, !.paused = TRUE, !.approved = TRUE]
native_resume(n) == [n EXCEPT !.paused = FALSE, !.saved = FALSE]
native_checkpoint(n, request) == [n EXCEPT !.pending = request, !.waited = TRUE, !.paused = TRUE]
\* Worker::apply SetTask, under a version newer than the last.
native_settings(n, version) == [n EXCEPT !.version = version]
\* insert_admission: no resume data, dirty, no request.
NewBtRow(bound) == [gen |-> 0, request |-> 0, dirty |-> TRUE, resume |-> 0,
                  bound |-> bound]

BtInit ==
    /\ task = [t \in Torrents |-> NewTask(NewBtRow(FALSE), FALSE)]
    /\ store = [t \in Torrents |-> NewBtRow(FALSE)]
    /\ native = [t \in Torrents |-> NoNative]
    /\ disk = [t \in Torrents |-> 0]
    /\ sched = [t \in Torrents |-> "absent"]
    /\ mailbox = [t \in Torrents |-> {}]
    /\ admission = <<>>
    /\ transfer = FALSE
    /\ plane = "open"
    /\ trouble = 0

Known == {t \in Torrents : \/ sched[t] # "absent"
                            \/ (admission # <<>> /\ admission[1] = t)}
Generations == IF Cardinality(Known) > 1 THEN PairTrouble ELSE MaxGeneration
Room == trouble < IF Cardinality(Known) > 1 THEN PairTrouble ELSE MaxTrouble
Trouble == Room /\ trouble' = trouble + 1
Running == plane \in {"open", "stopping"}

(***************************************************************************)
(* Output collisions                                                       *)
(***************************************************************************)
\* The catalog: torrents whose files are known, and the transfer.
Catalog == [bound |-> {t \in Torrents : task[t].bound /\ sched[t] # "absent"},
            transfer |-> transfer]
Claimed(t, u) == Outputs[t] \cap Outputs[u] # {}
\* Mutant: the transfers' outputs are forgotten.
CollisionOfTorrents(t, catalog) == \E u \in catalog.bound \ {t} : Claimed(t, u)
\* collision: against every other bound torrent and every transfer.
collision(t, catalog) ==
    \/ \E u \in catalog.bound \ {t} : Claimed(t, u)
    \/ catalog.transfer /\ TransferOutput \in Outputs[t]
\* validate_current_mapping: a result counts only for the catalogs it was
\* computed from; otherwise the check is made again.
Current(check) == check # <<>> /\ check[1] = Catalog

\* begin_bt_admission prepares against the catalogs of the call;
\* a .torrent file is bound by its metainfo, a magnet is not.
begin_bt_admission(t) ==
    /\ plane = "open"
    /\ admission = <<>>
    /\ sched[t] = "absent"
    /\ Known # {} => /\ trouble < PairTrouble
                    /\ \A u \in Known : store[u].gen <= PairTrouble
    /\ \E bound \in BOOLEAN :
          /\ ~(bound /\ collision(t, Catalog))
          /\ admission' = <<t, bound, <<>> >>
    /\ UNCHANGED <<task, store, native, disk, sched, mailbox, transfer, plane,
                   trouble>>

\* poll_bt_admission: validated against the current catalogs, then installed
\* and persisted by the same turn.
poll_bt_admission ==
    /\ Running
    /\ admission # <<>>
    /\ LET t == admission[1]
           bound == admission[2]
       IN \/ /\ ~Current(admission[3])
             /\ \/ /\ bound /\ collision(t, Catalog)
                   /\ admission' = <<>>
                \/ /\ ~(bound /\ collision(t, Catalog))
                   /\ admission' = <<t, bound, <<Catalog>> >>
             /\ UNCHANGED <<task, store, sched>>
          \/ /\ Current(admission[3])
             /\ admission' = <<>>
             /\ store' = [store EXCEPT ![t] = NewBtRow(bound)]
             /\ task' = [task EXCEPT ![t] =
                           [NewTask(NewBtRow(bound), bound) EXCEPT
                              !.shutdown = plane = "stopping"]]
             /\ sched' = [sched EXCEPT ![t] = "waiting"]
    /\ UNCHANGED <<native, disk, mailbox, transfer, plane, trouble>>

\* An HTTP download is admitted while BtControl is fenced off
\* (admission_fenced), so its check and its installation are one step.
AdmitTransfer ==
    /\ plane = "open"
    /\ ~transfer
    /\ \A t \in Catalog.bound : TransferOutput \notin Outputs[t]
    /\ transfer' = TRUE
    /\ UNCHANGED <<task, store, native, disk, sched, mailbox, admission,
                   plane, trouble>>

(***************************************************************************)
(* The scheduler's half                                                    *)
(***************************************************************************)
\* PersistGenerationStarted is BeginBtGeneration: dirty before any I/O.
begin_generation(t) ==
    /\ plane = "open"
    /\ sched[t] = "waiting"
    /\ store[t].gen < Generations
    /\ store' = [store EXCEPT ![t].gen = @ + 1, ![t].dirty = TRUE,
                              ![t].request = 0]
    /\ sched' = [sched EXCEPT ![t] = "allocating"]
    /\ mailbox' = [mailbox EXCEPT ![t] = @ \cup {"allocate"}]
    /\ UNCHANGED <<task, native, disk, admission, transfer, plane, trouble>>
Pause(t) ==
    /\ plane = "open"
    /\ Trouble
    /\ sched[t] \in {"allocating", "active", "seeding"}
    /\ sched' = [sched EXCEPT ![t] = "draining"]
    /\ mailbox' = [mailbox EXCEPT ![t] = @ \cup {"cancel"}]
    /\ UNCHANGED <<task, store, native, disk, admission, transfer, plane>>
Unpause(t) ==
    /\ plane = "open"
    /\ sched[t] = "paused"
    /\ sched' = [sched EXCEPT ![t] = "waiting"]
    /\ UNCHANGED <<task, store, native, disk, mailbox, admission, transfer,
                   plane, trouble>>

\* terminal_step and persist_bt_terminal: what the terminal record of a task
\* must find in the task and in its rows.
TerminalAccepted(t, complete) ==
    /\ task[t].gen = store[t].gen
    /\ task[t].request = store[t].request
    /\ ~task[t].added
    /\ complete => ~store[t].dirty

\* BtControl::poll takes an allocation first ...
take_allocation(t) ==
    /\ Running
    /\ "allocate" \in mailbox[t]
    /\ mailbox' = [mailbox EXCEPT ![t] = @ \ {"allocate"}]
    /\ IF task[t].phase \in {"idle", "finished"}
       THEN /\ task' = [task EXCEPT
                          ![t].gen = store[t].gen, ![t].request = 0,
                          ![t].dirty = TRUE, ![t].owed = "allocation",
                          ![t].phase = "load_resume"]
            /\ plane' = plane
       ELSE /\ plane' = "faulted"
            /\ task' = task
    /\ UNCHANGED <<store, native, disk, sched, admission, transfer, trouble>>
\* ... then a cancellation.
take_cancellation(t) ==
    /\ Running
    /\ "allocate" \notin mailbox[t]
    /\ "cancel" \in mailbox[t]
    /\ mailbox' = [mailbox EXCEPT ![t] = @ \ {"cancel"}]
    /\ task' = [task EXCEPT ![t].cancel = TRUE]
    /\ UNCHANGED <<store, native, disk, sched, admission, transfer, plane,
                   trouble>>

\* The event a task owes is submitted before anything else it does.  A task
\* being drained is waiting for that answer alone.
After(state, event) ==
    IF event = "drained" THEN "paused"
    ELSE IF state = "draining" THEN state
    ELSE IF event \in {"active", "seeding"} THEN event ELSE "stopped"
submit_event(t) ==
    /\ Running
    /\ task[t].event # <<>>
    /\ LET event == task[t].event[1]
           next == After(sched[t], event)
       IN /\ sched' = [sched EXCEPT ![t] = next]
          /\ plane' = IF next = "stopped"
                         /\ ~TerminalAccepted(t, event = "complete")
                      THEN "faulted" ELSE plane
    /\ task' = [task EXCEPT ![t].event = <<>>]
    /\ UNCHANGED <<store, native, disk, mailbox, admission, transfer, trouble>>

(***************************************************************************)
(* Task::poll                                                              *)
(***************************************************************************)
\* begin_boundary: a checkpoint is asked for under a new request number, or
\* only recorded as missing when the torrent is not in the session.
begin_boundary(r, boundary) ==
    [r EXCEPT !.boundary = boundary, !.request = @ + 1, !.taken = <<>>,
              !.phase = IF r.added THEN "checkpoint" ELSE "persist"]
Failed(r) == begin_boundary([r EXCEPT !.failure = r.gen, !.check = <<>>],
                            "failure")
Ending(r) == r.cancel \/ r.shutdown
EndBoundary(r) ==
    begin_boundary(r, IF r.shutdown THEN "shutdown" ELSE "cancel")
\* The phases a cancellation or the shutdown may end.
Interruptible == {"idle", "finished", "metadata", "running", "approve",
                  "dirty", "resume"}
Interrupted(t) == /\ Ending(task[t])
                  /\ task[t].check = <<>>
                  /\ task[t].phase \in Interruptible

Polled(t) == /\ Running
             /\ task[t].event = <<>>
             /\ mailbox[t] = {}
Sets(t, r) == task' = [task EXCEPT ![t] = r]
Moves(t, r) == /\ Sets(t, r)
              /\ UNCHANGED <<store, native, disk, sched, mailbox, admission,
                             transfer, plane, trouble>>

\* An accepted operation is finished first; then a torrent outside the
\* session is drained at once and one inside it goes through a checkpoint.
Interrupt(t) ==
    /\ Polled(t) /\ Interrupted(t)
    /\ task[t].added \/ task[t].cancel \/ task[t].phase # "idle"
    /\ Moves(t, IF task[t].added THEN EndBoundary(task[t])
               ELSE [task[t] EXCEPT
                       !.owed = "none", !.cancel = FALSE, !.phase = "idle",
                       !.event = IF task[t].cancel THEN <<"drained">>
                                 ELSE <<>>])

Steps(t, phase) == Polled(t) /\ ~Interrupted(t) /\ task[t].phase = phase

\* LoadResume reads the row; PrepareAdd builds the admission from it on the
\* CPU pool and Add hands it to the worker.
LoadResume(t) ==
    /\ Steps(t, "load_resume")
    /\ Moves(t, [task[t] EXCEPT !.phase = "add"])
Add(t) ==
    /\ Steps(t, "add")
    /\ \/ /\ native' = [native EXCEPT ![t] = native_add(task[t].bound)]
          /\ Sets(t, [task[t] EXCEPT !.added = TRUE, !.phase = "metadata"])
          /\ trouble' = trouble
       \/ /\ Trouble
          /\ Sets(t, Failed(task[t]))
          /\ native' = native
    /\ UNCHANGED <<store, disk, sched, mailbox, admission, transfer, plane>>
\* Metadata is known to the session; its files are checked against the
\* catalogs of this moment and the record is prepared.
Metadata(t) ==
    /\ Steps(t, "metadata")
    /\ \/ /\ ~collision(t, Catalog)
          /\ Moves(t, [task[t] EXCEPT !.phase = "bind"])
       \/ /\ collision(t, Catalog)
          /\ Moves(t, Failed(task[t]))
\* BindBtMetadata: the files become durable and enter the catalog.
Bind(t) ==
    /\ Steps(t, "bind")
    /\ store' = [store EXCEPT ![t].bound = TRUE]
    /\ Sets(t, [task[t] EXCEPT !.bound = TRUE, !.phase = "approve"])
    /\ UNCHANGED <<native, disk, sched, mailbox, admission, transfer, plane,
                   trouble>>
\* Approve: the mapping is checked again until the check is current, and a
\* task that was cancelled meanwhile is not approved.  With bt-metadata-only
\* the torrent stays held back and the task is active at once; the session may
\* refuse an approval.
Activated(r) ==
    [r EXCEPT !.check = <<>>, !.phase = "running", !.owed = "active",
              !.event = <<"active">>]
Approve(t) ==
    /\ Steps(t, "approve")
    /\ \/ /\ ~Current(task[t].check)
          /\ \/ /\ collision(t, Catalog)
                /\ Moves(t, Failed(task[t]))
             \/ /\ ~collision(t, Catalog)
                /\ Moves(t, [task[t] EXCEPT !.check = <<Catalog>>])
       \/ /\ Current(task[t].check)
          /\ Ending(task[t])
          /\ Moves(t, EndBoundary([task[t] EXCEPT !.check = <<>>]))
       \/ /\ Current(task[t].check)
          /\ ~Ending(task[t])
          /\ native' = [native EXCEPT ![t] = native_approve(@)]
          /\ Sets(t, [task[t] EXCEPT !.check = <<>>, !.phase = "dirty"])
          /\ UNCHANGED <<store, disk, sched, mailbox, admission, transfer,
                         plane, trouble>>
       \/ /\ Current(task[t].check)
          /\ ~Ending(task[t])
          /\ Trouble
          /\ \E r \in {Failed(task[t]), Activated(task[t])} : Sets(t, r)
          /\ UNCHANGED <<store, native, disk, sched, mailbox, admission,
                         transfer, plane>>
\* MarkBtDirty, always before the torrent may write again.
MarkDirty(t) ==
    /\ Steps(t, "dirty")
    /\ store' = [store EXCEPT ![t].dirty = TRUE]
    /\ Sets(t, [task[t] EXCEPT !.dirty = TRUE, !.phase = "resume"])
    /\ UNCHANGED <<native, disk, sched, mailbox, admission, transfer, plane,
                   trouble>>
\* Resume: the worker clears `checkpointed`; the first resume of an
\* allocation activates it.  The session may refuse.
Resume(t) ==
    /\ Steps(t, "resume")
    /\ \/ /\ native' = [native EXCEPT ![t] = native_resume(@)]
          /\ Sets(t, [task[t] EXCEPT
                        !.phase = "running",
                        !.owed = IF @ = "allocation" THEN "active" ELSE @,
                        !.event = IF task[t].owed = "allocation"
                                  THEN <<"active">> ELSE <<>>])
          /\ trouble' = trouble
       \/ /\ Trouble
          /\ Sets(t, Failed(task[t]))
          /\ native' = native
    /\ UNCHANGED <<store, disk, sched, mailbox, admission, transfer, plane>>
\* Running: a native error, seeding and its goal (a torrent that is not
\* approved is there for its metadata only), the checkpoint interval.
RunningStep(t) ==
    /\ Steps(t, "running")
    /\ \/ /\ Trouble
          /\ \E r \in {Failed(task[t]), begin_boundary(task[t], "periodic")} :
                Sets(t, r)
       \/ /\ disk[t] = MaxProgress \/ ~native[t].approved
          /\ Sets(t, IF task[t].owed = "active"
                     THEN [task[t] EXCEPT !.owed = "seeding",
                                          !.event = <<"seeding">>]
                     ELSE begin_boundary(task[t], "complete"))
          /\ trouble' = trouble
    /\ UNCHANGED <<store, native, disk, sched, mailbox, admission, transfer,
                   plane>>

\* Checkpoint: Worker::execute refuses it without touching the torrent, or
\* hands it to the session, which pauses the torrent behind its disk barrier.
Checkpoint(t) ==
    /\ Steps(t, "checkpoint")
    /\ task[t].reply = "none"
    /\ \/ /\ native[t].pending = 0
          /\ native' = [native EXCEPT ![t] = native_checkpoint(@, task[t].request)]
          /\ Sets(t, [task[t] EXCEPT !.reply = "waiting"])
          /\ trouble' = trouble
       \/ /\ native[t].pending # 0 \/ Trouble
          /\ native[t].pending # 0 => trouble' = trouble
          /\ Sets(t, [task[t] EXCEPT !.reply = "error"])
          /\ native' = native
    /\ UNCHANGED <<store, disk, sched, mailbox, admission, transfer, plane>>
\* poll_checkpoints: the session's callback settles the checkpoint; a caller
\* that was told of a timeout is not answered twice.
SettleCheckpoint(t) ==
    /\ plane # "refused"
    /\ native[t].pending # 0
    /\ \E saved \in BOOLEAN :
          /\ saved \/ Room
          /\ trouble' = IF saved THEN trouble ELSE trouble + 1
          /\ native' = [native EXCEPT ![t].pending = 0, ![t].waited = FALSE,
                                      ![t].saved = saved \/ @]
          /\ Sets(t, IF ~native[t].waited THEN task[t]
                     ELSE [task[t] EXCEPT
                             !.reply = IF saved THEN "data" ELSE "error",
                             !.taken = IF saved THEN <<disk[t]>> ELSE <<>>])
    /\ UNCHANGED <<store, disk, sched, mailbox, admission, transfer, plane>>
CheckpointTimeout(t) ==
    /\ Running
    /\ native[t].pending # 0 /\ native[t].waited
    /\ Trouble
    /\ native' = [native EXCEPT ![t].waited = FALSE]
    /\ Sets(t, [task[t] EXCEPT !.reply = "error"])
    /\ UNCHANGED <<store, disk, sched, mailbox, admission, transfer, plane>>
\* The answer: a failed periodic or completing checkpoint fails the task.
CheckpointAnswer(t) ==
    /\ Steps(t, "checkpoint")
    /\ task[t].reply \in {"data", "error"}
    /\ LET ok == task[t].reply = "data"
           fails == ~ok /\ task[t].boundary \in {"complete", "periodic"}
       IN Moves(t, [task[t] EXCEPT
                     !.reply = "none", !.phase = "persist", !.failed = ~ok,
                     !.boundary = IF fails THEN "failure" ELSE @,
                     !.failure = IF fails THEN task[t].gen ELSE @])

\* checkpoint_bt: the row must be of this generation and an older request; a
\* missing blob keeps the old one and records the row dirty.
checkpointed_row(row, r) ==
    [row EXCEPT !.request = r.request, !.dirty = r.taken = <<>>,
                !.resume = IF r.taken = <<>> THEN @ ELSE r.taken[1]]
AfterPersist(r) ==
    IF r.boundary = "periodic" /\ ~Ending(r) THEN "dirty" ELSE "remove"
PersistCheckpoint(t) ==
    /\ Steps(t, "persist")
    /\ IF store[t].gen = task[t].gen /\ store[t].request < task[t].request
       THEN /\ store' = [store EXCEPT ![t] = checkpointed_row(@, task[t])]
            /\ Sets(t, [task[t] EXCEPT !.dirty = task[t].taken = <<>>,
                                       !.taken = <<>>,
                                       !.phase = AfterPersist(task[t])])
            /\ plane' = plane
       ELSE /\ plane' = "faulted"
            /\ UNCHANGED <<task, store>>
    /\ UNCHANGED <<native, disk, sched, mailbox, admission, transfer, trouble>>

\* Remove: refused while a checkpoint is pending; a torrent that is neither
\* held nor paused, or is neither checkpointed nor known dirty, stays.
Removable(t) == \/ native[t].held
                \/ native[t].paused /\ (native[t].saved \/ task[t].dirty)
\* The answer the task owes: the drain it was asked for, else its failure,
\* else its completion.
Removed(r) ==
    [r EXCEPT
       !.added = FALSE, !.phase = "finished",
       !.cancel = FALSE,
       !.failure = IF r.cancel THEN @ ELSE 0,
       !.owed = IF r.cancel \/ r.failure # 0 \/ r.boundary = "complete"
                THEN "none" ELSE @,
       !.event = CASE r.cancel -> <<"drained">>
                   [] ~r.cancel /\ r.failure # 0 /\ r.owed # "none" ->
                        <<"failed", r.failure>>
                   [] ~r.cancel /\ r.failure = 0 /\ r.boundary = "complete" ->
                        <<"complete">>
                   [] OTHER -> <<>>]
RemoveTorrent(t) ==
    /\ Steps(t, "remove")
    /\ IF ~task[t].added
       THEN /\ Sets(t, Removed(task[t]))
            /\ UNCHANGED <<native, plane>>
       ELSE /\ native[t].pending = 0
            /\ IF Removable(t)
               THEN /\ native' = [native EXCEPT ![t] = NoNative]
                    /\ Sets(t, Removed(task[t]))
                    /\ plane' = plane
               ELSE /\ plane' = "unremovable"
                    /\ UNCHANGED <<task, native>>
    /\ UNCHANGED <<store, disk, sched, mailbox, admission, transfer, trouble>>

Poll(t) == \/ Interrupt(t) \/ LoadResume(t) \/ Add(t) \/ Metadata(t)
           \/ Bind(t) \/ Approve(t) \/ MarkDirty(t) \/ Resume(t)
           \/ RunningStep(t) \/ Checkpoint(t) \/ CheckpointAnswer(t)
           \/ PersistCheckpoint(t) \/ RemoveTorrent(t)

\* The session writes payload while the torrent is neither held nor paused.
Download(t) ==
    /\ plane # "refused"
    /\ native[t].added /\ ~native[t].held /\ ~native[t].paused
    /\ disk[t] < MaxProgress
    /\ disk' = [disk EXCEPT ![t] = @ + 1]
    /\ UNCHANGED <<task, store, native, sched, mailbox, admission, transfer,
                   plane, trouble>>

(***************************************************************************)
(* Option changes, shutdown, crash and restart                             *)
(***************************************************************************)
\* A live option reaches the session as SetTask under the next version.
ChangeLive(t) ==
    /\ plane = "open"
    /\ Trouble
    /\ task[t].phase = "running" /\ task[t].event = <<>> /\ ~task[t].shutdown
    /\ IF task[t].version + 1 > native[t].version
       THEN /\ native' = [native EXCEPT ![t] = native_settings(@, task[t].version + 1)]
            /\ task' = [task EXCEPT ![t].version = @ + 1]
            /\ plane' = plane
       ELSE plane' = "faulted" /\ UNCHANGED <<task, native>>
    /\ UNCHANGED <<store, disk, sched, mailbox, admission, transfer>>
\* ReplacePausedBtOptions: a paused torrent outside the session gets a new
\* layout; its resume data and its request sequence end.  The layout is checked
\* against the catalogs, which admission_fenced freezes meanwhile (the files it
\* claims stay the same in the model).
replace_paused_options(t) ==
    /\ plane = "open"
    /\ Trouble
    /\ sched[t] = "paused" /\ ~task[t].added
    /\ task[t].phase \in {"idle", "finished"} /\ task[t].event = <<>>
    /\ \A u \in Torrents :
          task[u].phase \notin {"bind", "save_metadata", "approve"}
    /\ ~(task[t].bound /\ collision(t, Catalog))
    /\ store' = [store EXCEPT ![t].resume = 0, ![t].dirty = TRUE,
                              ![t].request = Ended]
    /\ task' = [task EXCEPT ![t].dirty = TRUE, ![t].request = Ended]
    /\ UNCHANGED <<native, disk, sched, mailbox, admission, transfer, plane>>

begin_shutdown ==
    /\ plane = "open"
    /\ plane' = "stopping"
    /\ task' = [t \in Torrents |-> [task[t] EXCEPT !.shutdown = TRUE]]
    /\ UNCHANGED <<store, native, disk, sched, mailbox, admission, transfer,
                   trouble>>
owns_work(r) == \/ r.added \/ r.event # <<>> \/ r.reply # "none"
                \/ r.check # <<>> \/ r.phase \notin {"idle", "finished"}
poll_stopped ==
    /\ plane = "stopping"
    /\ admission = <<>>
    /\ \A t \in Torrents : ~owns_work(task[t])
    /\ plane' = "stopped"
    /\ UNCHANGED <<task, store, native, disk, sched, mailbox, admission,
                   transfer, trouble>>
\* BtControl::clean
clean == \A t \in Torrents : ~task[t].failed

\* Recovery puts what was running back to waiting, what was being paused to
\* paused.
Recovered(state) == CASE state \in {"allocating", "active", "seeding"} -> "waiting"
                      [] state = "draining" -> "paused"
                      [] OTHER -> state
\* restore_bt_catalog reads every row back; rows that collide with each other
\* or with a restored transfer refuse the start.
Collided ==
    LET restored == {t \in Torrents : sched[t] # "absent" /\ store[t].bound}
    IN \E t \in restored :
          \/ transfer /\ TransferOutput \in Outputs[t]
          \/ \E u \in restored \ {t} : Claimed(t, u)
CrashOrRestart ==
    /\ plane # "refused"
    /\ Trouble
    /\ native' = [t \in Torrents |-> NoNative]
    /\ task' = [t \in Torrents |-> NewTask(store[t], store[t].bound)]
    /\ sched' = [t \in Torrents |-> Recovered(sched[t])]
    /\ mailbox' = [t \in Torrents |-> {}]
    /\ admission' = <<>>
    /\ plane' = IF Collided THEN "refused" ELSE "open"
    /\ UNCHANGED <<store, disk, transfer>>

BtNext ==
    \/ \E t \in Torrents :
          \/ begin_bt_admission(t) \/ begin_generation(t)
          \/ Pause(t) \/ Unpause(t) \/ take_allocation(t)
          \/ take_cancellation(t) \/ submit_event(t) \/ Poll(t)
          \/ SettleCheckpoint(t) \/ CheckpointTimeout(t) \/ Download(t)
          \/ ChangeLive(t) \/ replace_paused_options(t)
    \/ poll_bt_admission \/ AdmitTransfer
    \/ begin_shutdown \/ poll_stopped \/ CrashOrRestart

BtSpec == BtInit /\ [][BtNext]_btVars

(***************************************************************************)
(* The bandwidth share of the BitTorrent group.  Limits are numbers,       *)
(* Unlimited stands for None.                                              *)
(***************************************************************************)
split_bandwidth(total, bt, http) ==
    CASE total = Unlimited -> [bt |-> Unlimited, transfer |-> Unlimited]
      [] total # Unlimited /\ bt /\ http ->
           [bt |-> total \div 2, transfer |-> total - total \div 2]
      [] OTHER -> [bt |-> IF bt THEN total ELSE 0,
                   transfer |-> IF http THEN total ELSE 0]
\* Reductions first; each is acknowledged before the next update.
bandwidth_updates(previous, next) ==
    LET update(g, due) == IF due THEN <<[group |-> g, limit |-> next[g]]>>
                          ELSE <<>>
        reduced(g) == next[g] < previous[g]
        raised(g) == next[g] > previous[g]
    IN update("bt", reduced("bt")) \o update("transfer", reduced("transfer"))
       \o update("bt", raised("bt")) \o update("transfer", raised("transfer"))

NewRates == [total |-> Unlimited, before |-> Unlimited,
             bt |-> Unlimited, transfer |-> Unlimited, updates |-> <<>>,
             pending |-> FALSE, adapter |-> FALSE, applied |-> FALSE,
             session |-> Unlimited, arbiter |-> Unlimited]
RatesInit == rates = NewRates
\* poll_rates: one update at a time; the session's is sent, then taken.
poll_rates ==
    /\ LET all == IF rates.adapter /\ ~rates.applied /\ rates.updates = <<>>
                  THEN <<[group |-> "bt", limit |-> rates.bt]>>
                  ELSE rates.updates
           u == Head(all)
       IN /\ all # <<>>
          /\ rates' =
               CASE u.group = "transfer" ->
                      [rates EXCEPT !.arbiter = u.limit, !.transfer = u.limit,
                                    !.updates = Tail(all)]
                 [] u.group = "bt" /\ ~rates.adapter ->
                      [rates EXCEPT !.bt = u.limit, !.updates = Tail(all)]
                 [] u.group = "bt" /\ rates.adapter /\ ~rates.pending ->
                      [rates EXCEPT !.pending = TRUE, !.updates = all,
                                    !.session = u.limit]
                 [] OTHER ->
                      [rates EXCEPT !.pending = FALSE, !.bt = u.limit,
                                    !.applied = TRUE, !.updates = Tail(all)]
\* require_bandwidth: a new split waits until the last one is through.
require_bandwidth ==
    /\ rates.updates = <<>>
    /\ \E total \in RateTotals, bt, http \in BOOLEAN :
         LET desired == split_bandwidth(total, bt, http)
             previous == [bt |-> rates.bt, transfer |-> rates.transfer]
         IN /\ desired # previous \/ total # rates.total
            /\ rates' = [rates EXCEPT
                           !.before = rates.total, !.total = total,
                           !.updates = bandwidth_updates(previous, desired)]
\* A new adapter's session starts without limits and polls no torrent before
\* its share is applied.
AdapterStarted ==
    /\ ~rates.adapter
    /\ rates' = [rates EXCEPT !.adapter = TRUE, !.applied = FALSE,
                              !.session = Unlimited]
RatesNext == poll_rates \/ require_bandwidth \/ AdapterStarted

(***************************************************************************)
(* Properties                                                              *)
(***************************************************************************)
BtTypeOK ==
    \A t \in Torrents :
       /\ task[t].phase \in Cycle \cup {"idle", "finished"}
       /\ task[t].owed \in {"none", "allocation", "active", "seeding"}
       /\ store[t].gen \in 0..MaxGeneration
       /\ disk[t] \in 0..MaxProgress

\* A row that is not dirty holds the resume data of exactly the payload on
\* disk, whenever the process dies: the torrent is marked dirty before each
\* resume and clean only by a checkpoint taken behind the pause.
CleanMeansWhole ==
    \A t \in Torrents : ~store[t].dirty => store[t].resume = disk[t]

\* A task answers its scheduler only once its torrent has left the session
\* and no checkpoint callback still owns it.
DrainedAfterRemoval ==
    \A t \in Torrents :
       task[t].event # <<>> /\ task[t].event[1] \in {"drained", "failed", "complete"}
          => ~native[t].added /\ native[t].pending = 0 /\ ~task[t].added

\* Torrents that may write never share an output with each other or with the
\* HTTP download, however their bindings and admissions interleave.
OutputsDisjoint ==
    \A t \in Torrents : native[t].added /\ native[t].approved =>
       /\ transfer => TransferOutput \notin Outputs[t]
       /\ \A u \in Torrents \ {t} :
             native[u].added /\ native[u].approved => ~Claimed(t, u)

\* A torrent that can be removed or has just ended finds its rows at the
\* generation and request it will name in its terminal record.
TerminalHasRows ==
    Running => \A t \in Torrents :
       /\ (sched[t] \in {"waiting", "paused"} /\ task[t].event = <<>>)
             => TerminalAccepted(t, FALSE)
       /\ task[t].event = <<"complete">> => TerminalAccepted(t, TRUE)

\* After an orderly stop no torrent is left in the session, and if the stop
\* reports itself clean every torrent whose last run ended at a boundary has
\* a clean row.
StoppedWhole ==
    plane = "stopped" => \A t \in Torrents :
       /\ ~native[t].added
       /\ (/\ task[t].phase = "finished" /\ task[t].boundary # "failure"
           /\ task[t].gen = store[t].gen /\ task[t].request # Ended
           /\ clean)
             => ~store[t].dirty

\* No step of the lane meets an answer or a row of another generation or
\* request (BtError::StaleCompletion, bt.stale_checkpoint), which would end
\* the control plane.
NeverStale == plane # "faulted"

\* What the libtorrent session and the transfer arbiter are allowed together
\* never exceeds the configured total (the larger of the old and the new one
\* while a change is on its way), even with acknowledgements outstanding.
RatesWithin ==
    LET limit == IF rates.updates # <<>> /\ rates.before > rates.total
                 THEN rates.before ELSE rates.total
    IN (rates.applied /\ limit # Unlimited)
          => rates.session + rates.arbiter <= limit
=============================================================================
