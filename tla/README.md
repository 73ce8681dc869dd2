# TLA+ models of ariax

ariax is a download manager: it takes downloads over an aria2-compatible RPC,
queues them, runs at most a configured number at a time, retries, verifies and
seeds them, survives crashes and restarts, and keeps their results. This
directory holds models of the parts that decide about a download and about what
survives of it, the runs that model-check them, and machine-checked proofs of
what matters most.

`PROJECT.json` lists every component, run, mutant, hazard and theorem, and the
source lines each definition stands for. Run a check with
`tlc -config <run>.cfg <module>`, a proof with `tlapm <module>.tla`.

## 1. The system

### Components, state, operations

| component | state | operations | hard because |
|---|---|---|---|
| task-state matrix (`ariax-core/transition.rs`, `state.rs`) | none; a table | which state follows which action, how it projects to aria2's six statuses | holes in the table show only for rare pairs of command and state |
| **request scheduler** (`ariax-core/scheduler.rs`, `command.rs`, `snapshot.rs`) | one record per task (state, generation, slot, barrier, timers, conditions, pause wish, deferred request, event history), queues, identity counters, published snapshots | add, pause, resume, remove, delete, reorder, replace sources, patch options, approve host key, admit; some 25 events and acknowledgements; restore | commands arrive between any two asynchronous steps; results are late, duplicated or stale |
| scheduler driver (`ariax-runtime/scheduler_driver.rs`) | pending effects, one in flight, queued acknowledgements, draft and published view, fault | accept a command or event, dispatch effects in order, apply acknowledgements, publish | one error of an acknowledgement faults the driver for good |
| runtime mailbox (`ariax-engine/runtime_effects.rs`), HTTP supervisor (`http_supervisor.rs`) | request queues, timers, events; workers, joins | take an effect, start, cancel, join, report | bounded queues; a result races its own cancellation |
| control plane (`http_control.rs`, `http_control/*.rs`) | two mailboxes of calls, continuations, catalogue of specifications | dispatch a call, continue it over several turns, answer | a call is overtaken by another one between two of its turns |
| session store and owner (`ariax-storage/session_*.rs`) | SQLite rows behind one thread with a bounded queue; the open journals | transactions, append, flush, close; open with preflight and lock; backup | crash between two transactions; a late or lost answer |
| persistence effects (`effect_sink.rs`) | plans of owner commands, the effect in dispatch | register a plan, offer, submit, answer | a later command of a plan fails when earlier ones are durable |
| task journal (`journal*.rs`) | segments of chained records | append, flush, rotate, install a segment, discover, replay | torn tail, crash inside the installation |
| storage engine (`storage_engine.rs`, `verification.rs`, `chunk_hash.rs`) | leases, dirty and durable pieces, hashes | reserve, write, commit, verify, abort, finalize, recover | data and record of it are written separately |
| segmented transfer (`http_multi*.rs`, `http_range.rs`, `http_retry.rs`), worker (`transfer_task.rs`, `protocol.rs`, `http_first_slice.rs`) | ranges, attempts, retry budgets, source versions, validators | plan, lease, duplicate, retry, finish; probe and rerun | parallel attempts racing for a span; a source that changes between two runs |
| HTTP client (`http_connector.rs`, `http_transport.rs`, `http_proxy*.rs`, cookies, ledger) | lookups, pools, sockets, jar, discarded bytes | resolve, dial, send, redirect, drop | a future dropped at any await |
| startup (`lib.rs`, `startup_*.rs`) | what was durable | reconcile database and journals, finish interrupted journal replacements, hand journals to the owner | half-finished writes of the life before |
| disk lane, buffers (`blocking_disk.rs`, `buffer.rs`) | bounded queue, outcomes, buffers, cancellation cells | submit, cancel, run, receive, shut down | two locks taken one after the other |
| rate arbiter (`rate.rs`), shutdown (`shutdown.rs`, `process_bootstrap.rs`) | buckets, waiters, permits; the step in progress | acquire, dispatch, settle, drop, set a limit; begin, complete, time out | a grant to a waiter that is gone; a step that ends late |
| RPC (`http_rpc.rs`, `rpc_budget.rs`, `rpc_events.rs`) | connections, budgets, subscriber queues | decode, run a batch, notify, shut down | slow subscribers; a batch stopped in the middle |
| configuration and options (`configuration.rs`, `transfer_task.rs`, `url_rules.rs`) | generations of configuration, options of tasks | reload, patch, admit, change, store, restore | a generation replaced while a call that read it runs |
| BitTorrent lane (`http_control/bittorrent.rs`, `ariax-bt`) | task machine, rows, native session, outputs, rates | add, bind, approve, checkpoint, drain, remove | alerts later than their timeouts; a torrent dirty again during its checkpoint |
| FTP, SFTP, metalink, JSON, TLS, Windows security, process entry | see `PROJECT.json` | protocol and platform glue | I/O and parsing |

### How they interact

A command (from RPC) or an event (from a worker, a timer or the completion of an
effect) is one call of the scheduler. The call either commits one task, at most
one queue move and an ordered list of effects, or changes nothing and returns an
error or "ignored". The driver dispatches the effects one after the other; some
must be acknowledged (a generation's start, a terminal record, a patch, a
host-key pin, a deletion), and the task carries a *barrier* until the
acknowledgement comes back. A persistence effect becomes a *plan*: a few
commands for the session owner, the only thread that touches the database and
the journals. `StartAllocation` and `CancelGeneration` reach the supervisor,
which runs the workers; results come back as events stamped with task identity
and *generation*, the counter that tells this attempt from earlier ones. A
worker fetches ranges over the HTTP client, writes them through the disk lane
under the rate arbiter, and records in its journal what is durable. After a
crash, startup brings database and journals together, repairs what one of them
is behind with, and hands the scheduler a batch to restore.

### What makes it correct

* Scheduler: slots never exceed the limit and are held exactly by who needs them;
  each task is in exactly the queue its state says; a barrier can always be left;
  a wait has a wake-up; decisions never revert; clients see no state that was
  silently left.
* Process: a worker runs only in its task's slot and generation; every effect
  finds its task; removals and pauses end.
* Durability: what was acknowledged survives; what a journal promises is on the
  disk; a crash between any two writes leaves a session that means what the user
  was told; a completed file is whole and of one version.
* Resources: buffers, permits, leases, budgets and capacities are given back
  exactly once on every way out.

## 2. The modules

| module | models |
|---|---|
| `SchedulerTask` | the matrix (`transition.rs`), the task record and the pure steps on it |
| `SchedulerCore` | the scheduler's variables, effects, counters and `finish_action`, the atomic commit |
| `SchedulerCommands`, `SchedulerEvents` | every command; admission and every event handler |
| `RequestScheduler` | restore, Init, Next, the scheduler's properties |
| `RuntimeMailbox`, `HttpSupervisor`, `SchedulerDriver` | the parts around the scheduler |
| `SchedulerHost` | all of these composed by the owner turn of the control plane; fairness |
| `ControlPlane` | calls, mailboxes, continuations, the catalogue (`http_control.rs`, `control_*.rs`) |
| `DurableLog` | what a task's journal promises its callers: an append-only log of which a flushed prefix survives |
| `JournalLog` | the segmented journal: appends, flushes, rotation, installation, crash, discovery, repair |
| `JournalSemantics`, `JournalReplay` | the records and what replay makes of them; every sequence of records a task may write |
| `StorageEngine`, `TaskStorage` | leases, writes, commit, verification; one task's storage with its journal, its crashes and recoveries |
| `WorkerRun` | the runs of a worker over generations and crashes, with sources that change |
| `HttpRange`, `RangeTransfer` | ranges and budgets; the segmented download with its attempts, events and endgame |
| `HttpMessages`, `HttpClient` | heads, redirects, cookies, ledger; lookups, pools, sockets, dropped futures |
| `SessionStore`, `SessionDatabase` | the transactions of the session database; every command on it |
| `SessionFiles` | opening the database (version preflight, lock) and publishing a backup |
| `SessionOwner` | the owner thread; the effect sink and its plans |
| `NativeStartup` | interrupted journal replacements, appenders and their hand-over at a start |
| `CrashRestart` | which records a control turn writes in which order, reconciliation at the next start, a crash between any two |
| `DiskLane`, `RuntimeServices` | disk lane and buffers; rate arbiter and shutdown |
| `RpcService`, `TaskOptions`, `BtBridge` | RPC transports, budgets and events; configuration and options; BitTorrent lane and bandwidth |
| `Maps` | options as sequences of at most one value, partial functions |
| `MCScheduler`, `MCHost`, `MCJournal`, `MCStorage`, `MCTransfer`, `MCFrontend`, `MCServices` | the small instances |
| `RequestScheduler_proofs`, `SchedulerDecisions_proofs`, `Journal_proofs`, `Services_proofs`, `ControlPlane_proofs`, `Frontend_proofs` | the theorems |

The last four MC modules put several components side by side: a behaviour is one
of a single *part*, chosen by its first state, and the variables of the other
parts stand still. Nothing is composed there that the code does not compose; the
parts share a run, not a state.

### Conventions

An action is one whole handler with its trailing queue move, effects, saves and
snapshot. It is enabled exactly when the code would commit; a refused or ignored
call that changes nothing is a stuttering step. Where a refusal matters to a
property (a driver fault, an error that ends the control plane, a start that is
refused) it is a state of its own. Deadlines and probes are identities without a
time: the environment may fire them at any moment after they were armed. Errors,
paths and reasons are flags; contents, digests and versions are members of small
sets that can differ. Identities, sequence numbers, generations and capacities
keep their counters and their refusal at the end of the range. A crash is an
action wherever the code can be killed; it keeps what was synced and loses, or
not, what was only written.

The scheduler alone faces an arbitrary environment: every command and every
result the public API accepts may come at any time, stale and duplicate envelopes
included (`Fresh`: only a current identity, generation and token commits).
`SchedulerHost` replaces that environment by the code that really calls it. One
thread owns scheduler, driver, mailbox and supervisor and works in *turns*;
`phase` says where the turn is. With a chain in progress the engine dispatches
its effects, applies the acknowledgements and replaces the view; with the engine
idle the supervisor is polled (finished workers, cancellations, allocations,
until its events back up), then one event is handled, then a slow transfer is
looked for, one task admitted and one command taken, whichever starts a chain
first. An event the scheduler ignores starts an empty chain; one it refuses ends
the control runtime (`stopped`); an acknowledgement it refuses or a failed write
faults the driver (`fault`). "Refuses" is written `~ENABLED` of the handler.

## 3. The runs

| run | instance | shows |
|---|---|---|
| `scheduler_full` | one task, re-added once under a new identity, two generations, all inputs | types and counters (`TypeOK`), slots held exactly by need (`SlotJustified`), queues exact and snapshots current (`QueuesPublished`), conditions and pause respected (`WorkAllowed`), the host-key gate and the finality of outcomes (`DecisionsStand`) |
| `scheduler_slots` | two tasks, one slot | the limit (`SlotBound`); every drain can be acknowledged and every terminal record published (`EndingsReachable`) |
| `scheduler_deferral` | one task, three generations, option patches | what is deferred behind a patch can complete, no first result is taken for a duplicate (`NothingLostBehind`) |
| `scheduler_restart` | a restart with a persisted retry and slow wait, or with a result and a waiting task; policies changed at any time | no wait without a wake-up of its own (`WakeupsDistinct`); the order promised to a pending deletion stands (`StoppedOrderFrozen`) |
| `host_orderly` | two tasks, one slot, one worker, an event queue of one place; unforced commands, retries, host keys, slow demotions; deadlock checked | workers, slots, timers and view agree, nothing is refused (`HostSound`), a settled process owes nothing (`SettledOwesNothing`); under fairness removes, pauses and retries end (`RequestsEnd`) |
| `host_pressure` | two tasks, two slots, two workers; forced commands, restarts, a store that may fail, memory pressure | every effect finds its task, every acknowledgement is accepted (`PressureHandled`); readers never see part of a chain (`ViewWhole`) |
| `journal` | *log*: up to three segments, three records; *replay*: every sequence of records of two pieces and two layouts | a chain that replays, within the reader's budget, to what was written (`LogSound`), an implementation of `DurableLog` (`ImplementsDurableLog`); replayed states are consistent (`ReplaySound`) and give up a durable piece or change the options of a generation only by the records that say so (`ReplayKeeps`) |
| `storage` | *storage*: three units in two pieces, right or wrong data, one crash; *worker*: twelve tasks by kind of source, checksum and metadata | the journal promises only what is on the disk (`JournalSound`, `DurableIsSynced`); what was acknowledged survives, a completed file is whole and of one version (`TransfersKept`) |
| `transfer` | *ranges*: two pieces, one of two units and one of one, a source and a mirror used only in the endgame, two runs; *client*, *jar*, *ledger*, *source* | attempts, leases, records and budgets agree (`RangesSound`); a run that ends well is whole and leaves nothing behind (`RunsWhole`); peers, pools, cookies, ledger and versions (`HttpSound`) |
| `frontend` | *store*, *rpc*, *options*, *bt*, *rates* | the database stays consistent under every command (`StoreSound`), a paused torrent resumes with its own setup (`ResumeMatchesSetup`), history only grows (`HistoryKept`); exact budgets and honest answers and events (`RpcSound`); options are what was configured and are restored (`TaskOptionsSound`); the torrent lane (`BtSound`) |
| `services` | *control*, *disk*, *rate*, *stop*, *open*, *backup*, *owner*, *sink*, *native*, *crash* | a write is acceptable to whoever reads it; a crash costs only what was not acknowledged, and a start that is refused has one of the known causes (`CrashWritesSound`, `CrashRecoverySound`); calls are answered and later ones win (`ControlSound`, `LaterControlsWin`); buffers and outcomes (`DiskSound`); rates and shutdown (`ProcessSound`); database files (`SessionFilesSound`); answers of the sink, journals of a start (`EffectsSound`); steps that never happen (`NeverStepped`) |
| `start_refused` | two tasks, a crash between any two writes; must fail | a crash between the journal's terminal record and the stopped result leaves a session that no later start opens (`EveryStartOpens`, finding 1) |

Every property of a passing run has a mutant in `PROJECT.json`: a plausible slip
in one mapped definition that makes TLC find the property violated.

### Bounds

Scheduler: `MaxGeneration` 1 to 2, since the interesting cases need a second
attempt, a deferral a third. `MaxId` 1 or 2: one identity of each kind and the
refusal of the next are reached in every run. One task suffices for what one
record does, since a handler reads only one task beside the count of slots; slot
competition needs two; deletion order needs a result and something that can
become one. The proofs cover every value.

Host: the inputs are bounded instead (`MaxMoves`), with `MaxGeneration` and
`MaxId` large enough never to refuse in `host_orderly`: what ends a behaviour is
the end of the inputs. Four moves let two downloads be added and two things
happen to them, or one be added and three happen to it. The event queue has one
place, so the supervisor backs up at every second event; the deadlock check
shows that the driver never meets a full request queue.

Journal: three segments, so that one lies between a first and a last; three
records, so that one is durable, one written and one torn; a reader's budget of two
records, so that journals within it and beyond it are met; chunks of one and two
pieces, in any order and overlapping. Storage: two pieces,
one of them short, and one crash, after which every step can be repeated.
Transfer: two pieces, a mirror that only
serves the endgame and one duplicate: a loser with part of a piece, and a second run
beside a durable piece, both occur. Store: two
tasks, two keys, two journals, two bindings that validate and one that does not. RPC: one
WebSocket and one HTTP client, budgets one short of what both need, one subscriber. Torrents: two, sharing an output, beside a transfer.
Services: three writes of two identities over two buffers and one worker; two
streams, one limited twice; two processes with different schema versions and
logs of two frames; seven owner commands on two journals over a queue of two; plans of one, two
and two steps; three tasks with two interrupted starts.

`CHECK_DEADLOCK FALSE` is set where the system really may come to rest: when
everything is stopped and the bounded inputs are used up, or after a fault.
`host_orderly` checks deadlock.

### Fairness

Only `host_orderly` checks liveness. `HostFairness` assumes of the process

* weak fairness of `Turn`: the owner task loops until it is stopped
  (`control_runtime.rs`, `run`), sleeping at most a millisecond;
* strong fairness of `HandleEvent`: a turn may run out of time before the event
  that is ready, but not for ever, since each turn has a new deadline and the
  event comes right after the supervisor;
* weak fairness of `CancelledWorkerStops`: a worker watches its cancellation;
* weak fairness of `TimePasses`: a timer falls due.

Nothing is assumed of workers that were not cancelled, of users, of slow
transfers or of admissions. Elsewhere wake-up and completion are stated as "the
step that has to come can be taken", which is what the component itself can
guarantee.

## 4. The proofs

Every theorem holds for every value of the constants that satisfies the named
assumptions; TLC evaluates those in every run.

| theorem | states | for |
|---|---|---|
| `SlotLimit`, `SlotsJustified`, `TypeCorrect` | `SlotBound`, `SlotJustified`, types of the scheduler | any set of tasks, limit and bounds |
| `QueuesArePublished`, `HeldBackNeverWorks`, `DecisionsHold`, `StoppedOrderStands`, `IdentitiesAreDistinct` | `QueuesPublished`, `WorkAllowed`, `DecisionsStand`, `StoppedOrderFrozen`, half of `WakeupsDistinct` | the same, from every batch that `restore` accepts |
| `JournalReplays`, `JournalImplementsLog` | `LogSound`, `ImplementsDurableLog` | any number of records, generations and segments |
| `ReplayIsSound`, `ReplayKeepsAll` | `ReplaySound`, `ReplayKeeps` | any layouts, digests and limits, from `EveryRecordSound`, which is about a record of any type and content |
| `DiskLaneSound` | `DiskSound` | any writes, buffers, workers and capacities |
| `ShutdownIsClean` | the shutdown's half of `ProcessSound` | any order of failures, timeouts, late ends and a kill |
| `SessionFilesAreSound` | `SessionFilesSound` | any processes, versions and files, logs of any length |
| `LaterControlsAlwaysWin`, `ControlIsSound` | `LaterControlsWin`, `ControlSound` | any calls and scripts, any number of tasks, any capacities |
| `StoreStaysSound`, `ResumeMatches`, `HistoryStays` | `StoreSound`, `ResumeMatchesSetup`, `HistoryKept` | any tasks, journals, keys and options, commands of every family in any order |
| `LaneStaysSound` | `BtSound` | any torrents, outputs, bounds and limits, any order of commands, checkpoints, timeouts and crashes |
| `EffectsAreSound`, `StepsNeverTaken` | `EffectsSound`, `NeverStepped` | any commands and plans, any number of tasks, starts and crashes |

### Assumptions

`BoundsAssumption`, `SchedulerAssumption`, `JournalBounds`: bounds are naturals,
the set of tasks is finite (it is a map in memory), there is at least one slot
(`NonZeroUsize` in the code) and choices have their types. `DiskAssumption`:
finitely many writes and buffers, natural capacities; 0 is not a buffer, being
"none". `RateAssumption`: limits and quantum are unsigned, and a `RatePath`
always contains the bucket of the process. `SinkAssumption`: what
`PersistencePlan::new` and `validate_plan` refuse is no plan (a plan has steps;
that of a staged patch is the append of its snapshot and the row of its
options). `NativeAssumption`: GIDs are numbers, the executor's maps being ordered
by them. `CallsAssumption`, `TasksAssumption`: a call has one of the methods the control
plane serves, and there are finitely many tasks. `TokensAssumption`: the members of a bulk
control have a token that no call has (`PendingMutation` tells the two apart by its reply),
and clients make calls there are. `StoreAssumption`, `MarkedAssumption`: a
session has finitely many tasks, and there is a journal to name; a client
may set any option, the host-key pin included. `BtAssumption`: bounds are naturals, two
torrents together run for no more generations than one, and a configured limit is a
number of bytes or none.

### The arguments

**Scheduler.** `SlotBound` is not inductive: a retry that kept its slot is
readmitted without counting, because it already counts; a drain that ends
releases a slot that must have been there; an acknowledged start moves on without
looking at the slot. `SchedulerInv` adds the types and, for each task, that an
owner of a slot works, waits with the slot retained, or drains, that a working
task owns one, and that a task behind a generation barrier is working. There is
one lemma per handler on the record it writes, and two on commits: a step that
gives no task a slot keeps the bound, an admission guarded by a free slot keeps
it. `DecisionInv` adds what holds of each task's barrier, deferred request,
challenge and outcome (`TaskInv`), exact queues, current snapshots, at most one
deletion, and identities below their counters and distinct. Each handler has a
lemma that its record is *handled* (well-formed, slot and barrier fitting,
decisions of the old record kept); one lemma, `HandlerKeeps`, turns that into the
invariant and the two action properties for every commit; `DecisionInit` does the
same for whatever batch `restore` validates.

**Journal.** `JournalInv` says that all segments but the last are whole and
synced, headers and records are chained, what is acknowledged is synced, a
segment is installed only when everything is synced, and a candidate's header
already follows from the last segment. Steps that leave the records alone
(`QuietStep`) and steps that edit the tail (`EditStep`) are treated once each;
`ChainKept` says that a segment's chain depends on no more than the records up to
its end. The refinement maps the log of `DurableLog` to the written records, its
durable prefix to the synced ones and its phase to that of the appender; every
step is a step of the log or a stutter.

**Replay.** `ReplaySound` is not inductive: a layout in parts hides the one it
replaces, and the first chunk of a checkpoint overwrites whatever was durable.
`ReplayInv` adds that nothing is durable without a layout or, inside a
checkpoint, before its first chunk, and that a pending layout has emptied the old one
and remembers its pieces. Fifteen record types touch none of the fields it is about
(`QuietRecords`); each of the others has a lemma on what it writes. The lemmas and
`EveryRecordSound` take any record at all, with any options: of a finalize intent they
ask that its file is a number, of a chunk what `validate_piece_state_chunk` checks.
Applying a retained layout to its own file shows why `has_same_identity_evidence` must
be reflexive for `ReplayKeeps`. Which record may take a piece back (`TakesBack`: the
failure of that piece, the layout of another file, a generation that starts over or
under another manifest) is read off the record, not off the state after it.

**Disk lane.** What the place of a write says of its buffer and of its
cancellation cell, buffers held apart, lists with each write once, how far the
lane has closed, identities taken by one write, and counters equal to the
cardinality of what they count. Every action changes one cell, so each lemma is
about that cell and `Others(w)`; the counters follow from two lemmas on
cardinalities, of promised outcomes and of quarantined buffers.

**Services.** `ServicesInv` holds one invariant per part.
*Stop*: the first failure is the earliest, and what each phase has behind it.
*Open*: whoever is past the lock holds it, and who is about to hand the files to
SQLite found a version it knows, or none. `WalMeaning` and `RollbackMeaning` say, by
induction over the frames, what the scan computes: the header of the last
committed frame before the first bad one, the last header page among the good
records of the hot journal. That agrees with the definition of what SQLite
recovers.
*Backup*: only a whole, synced file is ever linked, and what was reported has its
name on the disk.
*Owner*: once the thread has gone, admission is closed and nobody waits; a command that
closes all journals looks at every one before it closes the first.
*Sink*: what the owner executed is a prefix of the plan's commands, and every
answer given is true of it; what the commands of a plan are is an induction over
its steps.
*Native*: no journal is open twice, every task of the database is still to be
done, prepared, or given the journal its row names.

**Control plane.** The order of the controls: `ControlInv` says that the sequences of the bulk lane increase and stay above
that of the bulk control under way, that an explicit control has a sequence of its own,
and that of every captured task the last act that marks is older than the capture, or the
capture's own, or known to the task's cell (a change of position marks nothing). The cell must therefore outlive a second
capture of the same task (`capture` keeps the live ones) and pruning must spare it;
each thing a step does (queue, merge, capture, pop, mark, act, prune) has one lemma on
the whole state and the actions are compositions of them.
The replies and the catalogue: `ControlSound` is not inductive, because neither a count of
places nor two equal tables say what the next step will move. `AnswersInv` adds that the
mailboxes and the waiting commands share no caller and hold exactly the open ones
(`OnePlace`), that commands not yet dispatched are carried by no continuation, with a
result by none, without one by exactly one (`Pledges`), which continuations exclude each
other (`Exclusive`: a mutation only with its input, neither once an admission is
revalidating), and that what an input will write to the database is what its mutation, or
the replacement it commits, will put into the catalogue (`Planned`: an option change keeps
the sources of now, a replacement the options of now). Each continuation has lemmas on the
tokens it carries when it begins, ends or is handed over; `finish_input`, which publishes
both tables, is a composition of them. Once the owner has failed only `OnePlace` is left,
and it is all the rejection and the drain need.

**Session database.** `StoreSound` follows from `RowsOK` (every row is well-formed: its
queue fits its result, its challenge, its replacement intent and its torrent row) and
dense queues; what is not inductive is `ResumeMatchesSetup`, because a checkpoint is
asked for under one set of options and answered under another. `DatabaseInv` therefore
adds, of every checkpoint ever asked for, that its torrent is in the database and its
generation not newer than the row's, that a row of the same generation but other
options refuses every request, and that kept resume data is one of those checkpoints,
asked under the options of now (`AskInv`). One
lemma says what replacing a row does, one what renumbering a queue does
(`compact_queue` leaves dense places, whatever was there), and each transaction is a
composition of them; a command that fails leaves the database it found.

**BitTorrent lane.** `BtInv` says of each torrent by itself (`TorrentOK`, on its task, its
row, the native torrent, the disk, the scheduler's view and the requests on their way):
task and session agree on whether it is there; one that can write has a dirty row;
resume data taken is of the disk as it is, because the torrent is paused until it is
recorded; generation and request are the row's, but for a checkpoint or an allocation on
its way; it is asked to drain once, answers once, and is at rest while its scheduler has it
waiting or paused; a check it holds found no collision. Between torrents it says
`OutputsDisjoint`, which only an approval or an admitted transfer can disturb: whoever may
write is bound and known, so it is in the catalog the current check was made against.
Each handler has a lemma on the records it writes (`...OK`) and one on the step
(`...Kept`). *Bandwidth*: `RatesOK` says that the shares are within the larger total after
each update still planned and within the new one after the last.

The library's induction theorems take an operator as a parameter, which the
installed provers cannot instantiate. The first section of `Services_proofs`
restates induction with a set of numbers, and recursion as the existence of a function that iterates a
step; both follow from the well-foundedness of `<`. With them a recursive
function can be unfolded and what a loop computes can be proved for any length.

### Only model-checked

* `RequestsEnd` and everything else under fairness, and what the host states with
  `ENABLED`: outside the prover.
* `TypeOK`'s claim about `effects` (the restore plan flattens a sequence of
  sequences); `StateOK` covers the rest of the state.
* `EndingsReachable`, `NothingLostBehind` and `WaitersCanWake` are false for the
  full interface of the scheduler (findings 2 to 5 and the exclusions below them) and
  are checked on the inputs where they hold.
* `HostSound`, `SettledOwesNothing`, `PressureHandled`, `ViewWhole`: the
  composition.
* `JournalSound`, `DurableIsSynced`, `TransfersKept`, `RangesSound`, `RunsWhole`, `RpcSound`, `TaskOptionsSound`,
  `CrashWritesSound`, `CrashRecoverySound`, and the rate arbiter's half of
  `ProcessSound` (bytes moved against what the limits earned): not proved yet.
* `HttpSound`: `HttpMessages` and `HttpClient` use recursive operators, which the
  prover does not accept.

## 5. What the models disagree with

Finding 1 has the run `start_refused`. The others were met while modelling and are
either excluded from the inputs of the passing runs or allowed by the models as
what the code does. Lines are of the code; quotations of the documentation are
given by place.

1. `lib.rs:1862`: the terminal record of a failed or removed task reaches the
   journal before the stopped result reaches the database; after a crash between
   them every later start is refused (`docs/architecture/security-recovery.md:471`).
2. `scheduler.rs:3416`: a second representation restart of a download is dropped as a
   duplicate of the first: the mark is put into the history of the new generation
   (`docs/architecture/detailed-core.md:699`).
3. `scheduler.rs:1760`: a user pause while a slow-slot pause drains retargets the
   drain to `Paused` and leaves the state `PausedSlow`; the drain's acknowledgement
   then fails and the slot is never released (`detailed-core.md:410`, 425).
4. `scheduler.rs:1760`: after a source replacement has drained, pause or remove start a
   second drain of the same generation, whose end counts as a duplicate
   (`detailed-core.md:544`).
5. `scheduler.rs:2334`: removing a task that waits for credentials or disk space keeps
   the condition, and its stopped snapshot is invalid (`detailed-core.md:412`, 452).
6. `http_supervisor.rs:466`: a forced pause of a download that already drains is
   answered as drained at once; the slot is released while the worker runs
   (`http_control.rs:2836`). `HostSound` is checked without forced commands.
7. `http_control.rs:1215`: under memory pressure a pause is taken before the
   supervisor has seen the start of the same generation; the drain is answered first
   and the worker starts afterwards. `HostSound` is checked without it.
8. `journal_state.rs:1820`: a generation that starts with leases left over from a crash
   is refused, as are the pause, the completion and the host-key state that follow (2544,
   2607, 2626); nothing writes the abort of those leases at a restart, so the journal is
   spoilt and the start after that is refused (`LeasesLeft` in `CrashRestart`)
   (`docs/storage/detailed-storage.md:474`, `docs/runtime/zero-copy.md:121`).
9. `http_multi.rs:3203`: the retries recovered for a range are not those persisted
   (4589) (`detailed-storage.md:845`).
10. `session_owner.rs:693`: commands accepted before the stop are documented as drained;
    `owner_main` (841) leaves them unanswered. The model answers such callers "lost".
11. `http_control.rs:1877`: after a host-key approval the mirrored options differ from
    the row until the next change (`docs/storage/session-persistence.md:620`); a
    recovered restarting journal that is patched in place ends the control plane
    (3000, 1260).
12. `lib.rs:1476`, `startup_native.rs:561`: an installed journal intent makes one start
    fail with `DuplicateJournal`; the next one succeeds.
13. `http_control.rs:2990`: a staged snapshot can be appended twice, which replay refuses
    (`journal_state.rs:1798`; `detailed-storage.md:853`).
14. `configuration.rs:332`: subsets of options in URL rules are not validated when the
    configuration is accepted, so a later `addUri` is refused; with any rule configured
    ftp and sftp URIs are refused (`url_rules.rs:263`).
15. `bittorrent.rs:1552`: a removal that is cancelled leaves `failure` set, and the next
    allocation reports it; two magnets whose files overlap both bind before either is
    approved, and every later start is refused (2510); a checkpoint refused without a
    pause, or answered `Busy`, ends the control plane (`native.rs:640`,
    `bittorrent.rs:1459`; `docs/protocols/libtorrent-integration.md:37`).
16. `http_proxy_client.rs:228`: on the proxied path the capacity of a connection is
    released while its driver is only being aborted (comment at `http_transport.rs:188`).
17. `http_multi.rs:1702`: a readmitted download with a strong ETag, durable pieces and
    no checksum is called stale though nothing changed
    (`docs/runtime/download-scheduling.md:289`).
18. `protocol.rs:448`: without a checksum, tasks of mixed protocols, or of several FTP
    or SFTP mirrors, may continue pieces of another version. One version of the file is
    therefore stated for single sources and for HTTP.
19. `http_cookie.rs:310`: the Netscape file has no field for SameSite, and a cookie
    without one counts as Lax (877): a Strict cookie that was saved and loaded is sent
    cross-site (`docs/protocols/protocol-modernization.md:388`). `JarSound` is stated of
    the attribute a cookie has in the jar.
20. `rpc_events.rs:481`: the count of dropped events is put only into object params, and
    every `aria2.*` notification has array params (`http_control.rs:3608`): the count it
    takes is told by nobody (`docs/runtime/messaging-model.md:231`). `EventsHonest` counts
    these losses apart (`silent`). No event of the Informational class is published by
    the engine.
21. `session_store.rs:1080`: a database with objects and no version is opened read/write,
    and so recovered, by SQLite before it is refused
    (`docs/storage/session-persistence.md:248`: rejected unchanged). `ForeignUntouched` is stated of
    databases that have a version.
22. `session_store.rs:4605`: a process killed while it creates the database can leave an
    empty file with a rollback journal beside it; every later start is refused as an
    orphan sidecar.
23. `control_ops.rs:134`: `changePosition` leaves no mark, so a `pauseAll` accepted before
    it still acts on the task after it.
24. `journal.rs:672`: replay stops at 262,144 records, 1024 segments or 64 MiB of
    payloads; the appender knows no such limit, so a long enough journal is refused by the
    next start. `LogSound` is stated within the budget.

Smaller observations: `changeOption` rebuilds options from the sanitized map, so the
task loses credentials held in memory (`http_control.rs:1778`); an option explicitly set
to its default is not stored; an FTP file that changes between MDTM and RETR is not
noticed; the connection limit of an origin is per cached transport
(`http_transport.rs:512`); one refused `Set-Cookie` fails its request; a metadata
document saved again before the first request for it is admitted makes its children's
admission fail on every run; `probe_source` compares a representation digest with a
one-byte body (`http_multi.rs:3590`).

Exclusions of the scheduler's runs that are not findings of their own: a retry that
gave up its slot, replaces its sources and is removed starts a drain it cannot leave
(`DrainCanComplete`, inputs `Source` and `Retry`); a pause behind an in-place patch of a
task in `PausedHostKey` has no row that completes it (`DeferredCanComplete`, `HostKey` and
`Patch`); a pause with a resume behind a patch of a waiting retry leaves it with neither
timer nor readiness (`WaitersCanWake`, `Retry` and `Patch`). The driver takes a command
only when every acknowledgement of the previous call has been applied, so the last two
are not reached by today's driver; drains last as long as a worker takes to stop, so
findings 2 to 5 are reached by ordinary commands.

## 6. Plan

1. (done) The scheduler and its host; journal, storage, transfer, frontend and services.
2. (done) Theorems about the scheduler, the journal, the disk lane, the shutdown,
   the database files, the owner, the effect sink, the native start,
   the control plane, the session database and the BitTorrent lane.
3. Next: `JournalSound` and `DurableIsSynced`, on top of the replay, then `RpcSound`'s
   budgets.

## 7. Not modelled

Listed with reasons in `PROJECT.json`: parsing and formatting (HTTP bytes, JSON,
bencode, metalink, configuration values), sockets and TLS, platform calls, statistics
that only order choices, libtorrent itself. In the host: option patches, source
replacement, positions, disk-space probes, BitTorrent ownership, configuration changes
and shutdown, which the scheduler's own runs and the services cover. In the scheduler:
size accounting, read-only views, times, and rows of the matrix that no handler selects.
