-------------------------------- MODULE DiskLane --------------------------------
(***************************************************************************)
(* The blocking disk lane with the buffers it writes from (ariax-runtime:  *)
(* blocking_disk.rs, buffer.rs, budget.rs, and the CompletionDrain of      *)
(* queue.rs).  A caller leases a buffer, fills it and submits a write; a   *)
(* worker thread takes the work, races a cancellation for it, writes, and  *)
(* hands the lease back in an outcome whose place in the drain was         *)
(* reserved when the work was accepted.  try_submit, begin_shutdown and    *)
(* try_recv take two locks one after the other, so each is two actions.    *)
(* One size class; a buffer, a write and a permit count 1.                 *)
(***************************************************************************)
EXTENDS Maps, Integers, FiniteSets, SequencesExt

CONSTANTS Writes,              \* submissions a caller may try
          OperationId,         \* [Writes -> operation identities]; two may share one
          Buffers,             \* as many as the pool's budget allows
          QuarantineBytes, QueueCapacity, CompletionCapacity, AcceptedBytes, DiskWorkers

ASSUME DiskAssumption ==
  /\ IsFiniteSet(Writes) /\ IsFiniteSet(Buffers) /\ 0 \notin Buffers
  /\ CompletionCapacity \in Nat /\ QuarantineBytes \in Nat

VARIABLES pool,    \* PoolState: state of each buffer's storage, metrics.faulted
          lane,    \* BlockingDiskState and CompletionState
          work     \* each submission: its lease, its cancellation cell, its outcome

diskVars == <<pool, lane, work>>
NoBuffer == 0     \* buffers are 1, 2, ...

\* BufferState: where a lease may go from each state.
allowed_transition ==
  [Reserved |-> {"NetworkFill", "TransformOwned", "Releasable"},
   NetworkFill |-> {"TransformOwned", "Filled", "Releasable"},
   TransformOwned |-> {"Filled", "Releasable"},
   Filled |-> {"Validating", "DiskQueued", "HashBorrowed", "JournalPending", "Releasable"},
   Validating |-> {"DiskQueued", "HashBorrowed", "JournalPending", "Releasable"},
   DiskQueued |-> {"DiskInFlight", "Releasable"},
   DiskInFlight |-> {"DiskDone"},
   DiskDone |-> {"HashBorrowed", "JournalPending", "Releasable"},
   HashBorrowed |-> {"DiskQueued", "DiskDone", "JournalPending", "Releasable"},
   JournalPending |-> {"Releasable"}, Releasable |-> {}]
can_transition(p, b, next) == p.state[b] \in DOMAIN allowed_transition /\ next \in allowed_transition[p.state[b]]
transition(p, b, next) == [p EXCEPT !.state[b] = next]

Idle == [buf |-> NoBuffer, place |-> "new", cancel |-> "Queued", told |-> {}, wrote |-> FALSE, result |-> "none"]
DiskInit ==
  /\ pool = [state |-> [b \in Buffers |-> "None"], quarantined |-> 0, faulted |-> FALSE]
  /\ lane = [queue |-> << >>, aborting |-> << >>, accepted_operations |-> {}, accepting |-> TRUE, stopping |-> FALSE,
             reserved |-> 0, drain |-> << >>, admission_closed |-> FALSE, receiver_closed |-> FALSE, detached |-> FALSE]
  /\ work = [w \in Writes |-> Idle]

Holds(w) == work[w].buf # NoBuffer
\* A byte permit is taken with the reservation and dropped with the outcome.
bytes_used == Cardinality({w \in Writes : Holds(w) /\ work[w].place \notin {"new", "filled"}})

----------------------------------------------------------------------------
\* BufferPool::try_reserve, and the transfer that fills the lease.  A free
\* buffer is taken before a new one is allocated.
try_reserve(w) ==
  /\ work[w].place = "new" /\ ~pool.faulted
  /\ LET free == {b \in Buffers : pool.state[b] = "Free"}
         unused == {b \in Buffers : pool.state[b] = "None"}
     IN \E b \in (IF free # {} THEN free ELSE unused) :
          /\ pool' = transition(pool, b, "Filled")
          /\ work' = [work EXCEPT ![w] = [@ EXCEPT !.buf = b, !.place = "filled"]]
  /\ UNCHANGED lane

\* PoolInner::quarantine_storage: a lease that was lost goes into quarantine;
\* without budget for it the storage is retired and the pool faults.
\* Mutant: storage that was retired for want of budget is counted as quarantined.
CountsRetired(p, b) ==
  IF p.quarantined < QuarantineBytes THEN [p EXCEPT !.state[b] = "Quarantined", !.quarantined = @ + 1]
  ELSE [p EXCEPT !.state[b] = "Retired", !.faulted = TRUE, !.quarantined = @ + 1]
quarantine_storage(p, b) ==
  IF p.quarantined < QuarantineBytes THEN [p EXCEPT !.state[b] = "Quarantined", !.quarantined = @ + 1]
  ELSE [p EXCEPT !.state[b] = "Retired", !.faulted = TRUE]
Mine(w) == work[w].place \in {"filled", "received"} /\ Holds(w)
drop_lease(w) ==
  /\ Mine(w) /\ pool' = quarantine_storage(pool, work[w].buf)
  /\ work' = [work EXCEPT ![w].buf = NoBuffer, ![w].place = "over"] /\ UNCHANGED lane
release(w) ==
  /\ Mine(w) /\ (pool.state[work[w].buf] = "Releasable" \/ can_transition(pool, work[w].buf, "Releasable"))
  /\ pool' = transition(pool, work[w].buf, "Free")
  /\ work' = [work EXCEPT ![w].buf = NoBuffer, ![w].place = "over"] /\ UNCHANGED lane
resolve_quarantine(b) ==
  /\ pool.state[b] = "Quarantined"
  /\ pool' = [pool EXCEPT !.state[b] = "Free", !.quarantined = @ - 1] /\ UNCHANGED <<lane, work>>
reap_quarantine(b) ==
  /\ pool.state[b] = "Quarantined"
  /\ pool' = [pool EXCEPT !.state[b] = "Retired", !.quarantined = @ - 1] /\ UNCHANGED <<lane, work>>

----------------------------------------------------------------------------
\* CompletionDrain::try_reserve
DrainHasRoom(l) == ~l.admission_closed /\ ~l.receiver_closed /\ Len(l.drain) + l.reserved < CompletionCapacity

\* try_submit, before the lane's lock: validate_submission, the byte permit
\* and the completion permit.  A refusal gives the submission back.
submit_reserve(w) ==
  /\ work[w].place = "filled" /\ can_transition(pool, work[w].buf, "DiskQueued")
  /\ lane.accepting /\ bytes_used < AcceptedBytes /\ DrainHasRoom(lane)
  /\ lane' = [lane EXCEPT !.reserved = @ + 1]
  /\ work' = [work EXCEPT ![w].place = "reserved"] /\ UNCHANGED pool
Admissible(w) == /\ lane.accepting /\ Len(lane.queue) < QueueCapacity
                 /\ OperationId[w] \notin lane.accepted_operations
\* ... and under it: everything is checked again.
submit_enqueue(w) ==
  /\ work[w].place = "reserved"
  /\ IF Admissible(w)
     THEN /\ lane' = [lane EXCEPT !.queue = Append(@, w), !.accepted_operations = @ \cup {OperationId[w]}]
          /\ work' = [work EXCEPT ![w].place = "queued"] /\ pool' = transition(pool, work[w].buf, "DiskQueued")
     ELSE /\ lane' = [lane EXCEPT !.reserved = @ - 1]
          /\ work' = [work EXCEPT ![w].place = "filled"] /\ UNCHANGED pool

\* BlockingDiskCancelHandle::cancel answers from the state of the cell.
cancel(w) ==
  /\ work[w].place \notin {"new", "over"} /\ work[w].told = {}     \* a caller asks once
  /\ LET c == work[w].cancel
         answer == CASE c = "Queued" -> "Requested" [] c = "Requested" -> "AlreadyRequested"
                     [] c = "Running" -> "TooLate" [] c = "Complete" -> "Complete"
     IN work' = [work EXCEPT ![w].told = @ \cup {answer}, ![w].cancel = IF c = "Queued" THEN "Requested" ELSE c]
  /\ UNCHANGED <<pool, lane>>

----------------------------------------------------------------------------
Running == {w \in Writes : work[w].place \in {"running", "written"}}
\* next_work: a worker takes the oldest work, unless the lane is stopping.
next_work ==
  /\ ~lane.stopping /\ lane.queue # << >> /\ Cardinality(Running) < DiskWorkers
  /\ lane' = [lane EXCEPT !.queue = Tail(@)]
  /\ work' = [work EXCEPT ![Head(lane.queue)].place = "running"] /\ UNCHANGED pool

\* AcceptedWork::finish: the cell is closed and the outcome, lease and all,
\* takes the place that was reserved for it.
finish(wk, l, w, result) ==
  [work |-> [wk EXCEPT ![w].cancel = "Complete", ![w].result = result, ![w].place = "sent"],
   lane |-> [l EXCEPT !.reserved = @ - 1, !.drain = Append(@, w)]]

\* execute_work up to the write: claim_for_worker, or the cancellation was first.
\* Mutant: the worker takes the work whatever the cell says.
AlwaysClaims(w) == TRUE
claim_for_worker(w) == work[w].cancel = "Queued"
execute_work(w) ==
  /\ work[w].place = "running" /\ work[w].result = "none" /\ pool.state[work[w].buf] = "DiskQueued"
  /\ IF claim_for_worker(w)
     THEN /\ work' = [work EXCEPT ![w].cancel = "Running", ![w].place = "written", ![w].wrote = TRUE]
          /\ pool' = transition(pool, work[w].buf, "DiskInFlight") /\ UNCHANGED lane
     ELSE LET f == finish(work, lane, w, "Cancelled")
          IN pool' = transition(pool, work[w].buf, "Releasable") /\ work' = f.work /\ lane' = f.lane
\* ... the write returns, short, failed or whole, or panics (finish_work).
write_returns(w) ==
  /\ work[w].place = "written"
  /\ \E result \in {"Ok", "Err"} :
       LET f == finish(work, lane, w, result)
       IN pool' = transition(pool, work[w].buf, "DiskDone") /\ work' = f.work /\ lane' = f.lane

\* try_recv: the outcome, and then the identity it kept.
try_recv ==
  /\ lane.drain # << >>
  /\ lane' = [lane EXCEPT !.drain = Tail(@)]
  /\ work' = [work EXCEPT ![Head(lane.drain)].place = "taken"] /\ UNCHANGED pool
forget_operation(w) ==
  /\ work[w].place = "taken"
  /\ lane' = [lane EXCEPT !.accepted_operations = @ \ {OperationId[w]}]
  /\ work' = [work EXCEPT ![w].place = "received"] /\ UNCHANGED pool

----------------------------------------------------------------------------
\* begin_shutdown: what is queued is aborted after the lane has been closed.
begin_shutdown ==
  /\ ~lane.stopping
  /\ lane' = [lane EXCEPT !.accepting = FALSE, !.stopping = TRUE, !.queue = << >>, !.aborting = lane.queue]
  /\ UNCHANGED <<pool, work>>
close_admission == /\ lane.stopping /\ ~lane.admission_closed
                   /\ lane' = [lane EXCEPT !.admission_closed = TRUE] /\ UNCHANGED <<pool, work>>
abort_queued ==
  /\ lane.admission_closed /\ lane.aborting # << >>
  /\ LET w == Head(lane.aborting)
         f == finish(work, [lane EXCEPT !.aborting = Tail(@)], w, "Aborted")
     IN pool' = transition(pool, work[w].buf, "Releasable") /\ work' = f.work /\ lane' = f.lane

\* shutdown: when the workers are gone, or at the deadline, the drain is
\* emptied by its only owner and finish_close says whether anything may still be under way.
finish_close ==
  /\ lane.admission_closed /\ lane.aborting = << >> /\ lane.drain = << >> /\ \A w \in Writes : work[w].place # "taken"
  /\ ~lane.receiver_closed /\ ~lane.detached
  /\ lane' = IF lane.reserved = 0 /\ Running = {} THEN [lane EXCEPT !.receiver_closed = TRUE]
             ELSE [lane EXCEPT !.detached = TRUE]
  /\ UNCHANGED <<pool, work>>

DiskNext == \/ \E w \in Writes : \/ try_reserve(w) \/ drop_lease(w) \/ release(w) \/ submit_reserve(w) \/ submit_enqueue(w)
                                 \/ cancel(w) \/ execute_work(w) \/ write_returns(w) \/ forget_operation(w)
            \/ \E b \in Buffers : resolve_quarantine(b) \/ reap_quarantine(b)
            \/ next_work \/ try_recv \/ begin_shutdown \/ close_admission \/ abort_queued \/ finish_close
DiskSpec == DiskInit /\ [][DiskNext]_diskVars
----------------------------------------------------------------------------
\* A buffer's memory is in one place: no two submissions hold it, it is not
\* handed out while a worker may still read from it, and what the pool counts as
\* quarantined is what is (buffer.rs try_reserve, quarantine_storage, release).
BuffersHeldOnce ==
  /\ \A v, w \in Writes : v # w /\ Holds(v) => work[v].buf # work[w].buf
  /\ \A w \in Writes : Holds(w) => pool.state[work[w].buf] \notin {"None", "Free", "Quarantined", "Retired"}
  /\ \A w \in Writes : work[w].place = "written" => Holds(w) /\ pool.state[work[w].buf] = "DiskInFlight"
  /\ pool.quarantined = Cardinality({b \in Buffers : pool.state[b] = "Quarantined"})

\* A caller told that its cancellation was in time finds nothing written, one
\* told it was too late is never told Cancelled; every accepted write has a
\* place for its outcome, no two under way have one identity, and a drain
\* reported closed leaves no outcome behind (blocking_disk.rs).
Accepted == {w \in Writes : work[w].place \in {"queued", "running", "written", "sent", "taken"}}
OutcomesDelivered ==
  /\ \A w \in Writes : /\ "Requested" \in work[w].told => ~work[w].wrote
                       /\ "TooLate" \in work[w].told => work[w].result # "Cancelled"
  /\ Len(lane.drain) + lane.reserved =< CompletionCapacity
  /\ lane.reserved = Cardinality({w \in Writes : work[w].place \in {"reserved", "queued", "running", "written"}})
  /\ \A v, w \in Accepted : v # w => OperationId[v] # OperationId[w]
  /\ lane.receiver_closed => Accepted = {}

\* A buffer is in one place and every write has its outcome.
DiskSound == BuffersHeldOnce /\ OutcomesDelivered
=================================================================================
