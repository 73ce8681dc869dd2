------------------------------ MODULE HttpSupervisor ------------------------------
(***************************************************************************)
(* The owner of the running transfer workers:                              *)
(* crates/ariax-engine/src/http_supervisor.rs.  One call of poll_once      *)
(* submits what it could not submit before, then takes finished workers,   *)
(* then cancellation requests, then allocation requests, each until none   *)
(* is left, and returns at once when the event queue is full.              *)
(***************************************************************************)
EXTENDS RuntimeMailbox

CONSTANTS
  MaxWorkers,       \* max_active_workers
  PendingCapacity   \* pending_event_capacity

\* HttpWorkerSupervisorConfig::validate
ASSUME SupervisorAssumption ==
  /\ MaxWorkers \in Nat \ {0}
  /\ PendingCapacity \in Nat /\ PendingCapacity >= 2 * MaxWorkers + 1

VARIABLES
  workers,        \* [TaskIds -> Workers]: active, NoWorker when there is none
  pendingEvents   \* Seq(Events): pending_events, not yet accepted by the mailbox

supervisorVars == <<workers, pendingEvents>>

Results == {"Running", "Complete", "Retry", "HostKey", "Restart", "Failed"}

Workers == [identity: Identities, cancelled: BOOLEAN, result: Results]

NoWorker == [cancelled |-> FALSE, result |-> "None"]

Live(id) == workers[id] # NoWorker

LiveWorkers == {id \in TaskIds : Live(id)}

SupervisorInit == workers = [id \in TaskIds |-> NoWorker] /\ pendingEvents = << >>

PendingSlots == PendingCapacity - Len(pendingEvents)

-----------------------------------------------------------------------------

\* Mutant: the event queue's capacity is not checked.
EnqueueEventsUnbounded(new) ==
  /\ events' = events \o new
  /\ UNCHANGED pendingEvents

\* enqueue_event, for the events one operation submits in order.
EnqueueEvents(new) ==
  LET room == IF pendingEvents = << >> THEN EventCapacity - Len(events) ELSE 0
      n    == IF room < Len(new) THEN room ELSE Len(new)
  IN /\ events' = events \o SubSeq(new, 1, n)
     /\ pendingEvents' = pendingEvents \o SubSeq(new, n + 1, Len(new))

\* flush_pending
FlushPending ==
  LET room == EventCapacity - Len(events)
      n    == IF room < Len(pendingEvents) THEN room ELSE Len(pendingEvents)
  IN /\ events' = events \o SubSeq(pendingEvents, 1, n)
     /\ pendingEvents' = SubSeq(pendingEvents, n + 1, Len(pendingEvents))
     /\ UNCHANGED <<allocations, cancellations, timers, workers>>

\* A worker's future resolves; what it resolves to counts unless the worker
\* was cancelled before the supervisor looks.
WorkerFinishes(id, result) ==
  /\ Live(id) /\ workers[id].result = "Running"
  /\ result # "Running"
  /\ workers' = [workers EXCEPT ![id].result = result]
  /\ UNCHANGED <<mailboxVars, pendingEvents>>

\* What a finished worker reports.
JoinEvents(w) ==
  LET one(kind) == <<Event(kind, w.identity, 0)>>
  IN CASE w.cancelled -> one("CancellationDrained")
       [] ~w.cancelled /\ w.result = "HostKey" -> one("ActiveHostKeyChallenge")
       [] ~w.cancelled /\ w.result = "Retry" -> one("ActiveRetryIdle")
       [] ~w.cancelled /\ w.result = "Complete" -> one("DataComplete") \o one("VerificationSucceeded")
       [] ~w.cancelled /\ w.result = "Restart" -> one("ActiveRepresentationRestart")
       [] OTHER -> one("TerminalFailure")

Joinable(id) == Live(id) /\ workers[id].result # "Running"

\* Mutant: a worker that finished its download before it noticed that it was
\* cancelled reports the download and not the end of the drain.
CompleteJoinKeepsResult(id) ==
  /\ Joinable(id) /\ PendingSlots >= 2
  /\ EnqueueEvents(JoinEvents([workers[id] EXCEPT !.cancelled = FALSE]))
  /\ workers' = [workers EXCEPT ![id] = NoWorker]
  /\ UNCHANGED <<allocations, cancellations, timers>>

CompleteJoin(id) ==
  /\ Joinable(id) /\ PendingSlots >= 2
  /\ EnqueueEvents(JoinEvents(workers[id]))
  /\ workers' = [workers EXCEPT ![id] = NoWorker]
  /\ UNCHANGED <<allocations, cancellations, timers>>

\* Mutant: a cancellation that finds no worker is dropped.
AcceptCancellationSilently ==
  LET i == Head(cancellations)
      w == workers[i.id]
  IN /\ cancellations # << >> /\ PendingSlots >= 1
     /\ cancellations' = Tail(cancellations)
     /\ IF Live(i.id) /\ w.identity = i /\ ~w.cancelled
        THEN workers' = [workers EXCEPT ![i.id].cancelled = TRUE]
        ELSE UNCHANGED workers
     /\ UNCHANGED <<allocations, timers, events, pendingEvents>>

\* Mutant: a cancellation is answered as if the generation had no worker.
AcceptCancellationAtOnce ==
  /\ cancellations # << >> /\ PendingSlots >= 1
  /\ cancellations' = Tail(cancellations)
  /\ EnqueueEvents(<<Event("CancellationDrained", Head(cancellations), 0)>>)
  /\ UNCHANGED <<allocations, timers, workers>>

\* accept_cancellation: without a worker of this very generation that was not
\* cancelled before, the generation counts as drained.
AcceptCancellation ==
  LET i == Head(cancellations)
      w == workers[i.id]
  IN /\ cancellations # << >> /\ PendingSlots >= 1
     /\ cancellations' = Tail(cancellations)
     /\ IF Live(i.id) /\ w.identity = i /\ ~w.cancelled
        THEN /\ workers' = [workers EXCEPT ![i.id].cancelled = TRUE]
             /\ UNCHANGED <<events, pendingEvents>>
        ELSE /\ EnqueueEvents(<<Event("CancellationDrained", i, 0)>>)
             /\ UNCHANGED workers
     /\ UNCHANGED <<allocations, timers>>

\* accept_allocation, for a task whose specification is registered.
AcceptAllocation ==
  LET i       == Head(allocations)
      full    == Cardinality(LiveWorkers) = MaxWorkers
      answer  == IF full THEN "AllocationRetryable"
                 ELSE IF Live(i.id) THEN "AllocationFailed"
                 ELSE "AllocationSucceeded"
  IN /\ allocations # << >> /\ PendingSlots >= 1
     /\ allocations' = Tail(allocations)
     /\ EnqueueEvents(<<Event(answer, i, 0)>>)
     /\ workers' = IF answer = "AllocationSucceeded"
                   THEN [workers EXCEPT ![i.id] = [identity |-> i, cancelled |-> FALSE,
                                                   result |-> "Running"]]
                   ELSE workers
     /\ UNCHANGED <<cancellations, timers>>

=============================================================================
