------------------------------ MODULE RuntimeMailbox ------------------------------
(***************************************************************************)
(* The mailbox between the scheduler driver and the workers:               *)
(* crates/ariax-engine/src/runtime_effects.rs.  The driver's side          *)
(* (RuntimeSchedulerEffectSink::poll_dispatch) puts requests and timers    *)
(* in; the supervisor takes requests out and submits worker events; the    *)
(* control plane takes the next event (poll_event_at).                     *)
(*                                                                         *)
(* Deadlines are abstract: a timer is due from some moment on, and any     *)
(* timer that is due may be the earliest.  Option plans and disk-space     *)
(* probes are left out: the instances offer no input that leads to one.    *)
(***************************************************************************)
EXTENDS SchedulerCore

CONSTANTS
  RequestCapacity,  \* request_capacity, shared by both request queues
  EventCapacity,    \* event_capacity
  TimerCapacity     \* timer_capacity

ASSUME MailboxAssumption ==
  RequestCapacity \in Nat \ {0} /\ EventCapacity \in Nat \ {0} /\ TimerCapacity \in Nat \ {0}

VARIABLES
  allocations,    \* Seq(Identities): StartAllocation requests not yet taken
  cancellations,  \* Seq(Identities): CancelGeneration requests not yet taken
  timers,         \* SUBSET Timers: retry and slow-readmission timers
  events          \* Seq(Events): worker events not yet taken

mailboxVars == <<allocations, cancellations, timers, events>>

\* RuntimeIdentity
Identities == [gid: Gid, id: TaskIds, generation: Generations]

IdentityOf(e) == [gid |-> e.gid, id |-> e.id, generation |-> e.generation]

TimerKinds == {"RetryReady", "SlowReadmit"}

Timers == [identity: Identities, kind: TimerKinds, token: Tokens, due: BOOLEAN]

WorkerEventKinds == {"AllocationSucceeded", "AllocationRetryable", "AllocationFailed",
                     "ActiveHostKeyChallenge", "ActiveRetryIdle", "DataComplete",
                     "VerificationSucceeded", "ActiveRepresentationRestart",
                     "TerminalFailure", "CancellationDrained"}

Events == [gid: Gid, id: TaskIds, generation: Generations,
           kind: WorkerEventKinds \cup TimerKinds, token: Tokens]

Event(kind, i, token) ==
  [gid |-> i.gid, id |-> i.id, generation |-> i.generation, kind |-> kind, token |-> token]

MailboxInit ==
  allocations = << >> /\ cancellations = << >> /\ timers = {} /\ events = << >>

-----------------------------------------------------------------------------
(* poll_dispatch: a full queue keeps the effect offered and the driver     *)
(* waits, so each operation is enabled when it is accepted.                *)

\* request_count() < request_capacity
RequestRoom == Len(allocations) + Len(cancellations) < RequestCapacity

RuntimeKinds == {"StartAllocation", "CancelGeneration", "ReleaseSlot", "ScheduleRetry",
                 "CancelRetry", "ScheduleSlowReadmission", "CancelSlowReadmission"}

StartAllocation(e) ==
  /\ RequestRoom
  /\ allocations' = Append(allocations, IdentityOf(e))
  /\ UNCHANGED <<cancellations, timers, events>>

CancelGeneration(e) ==
  /\ RequestRoom
  /\ cancellations' = Append(cancellations, IdentityOf(e))
  /\ UNCHANGED <<allocations, timers, events>>

\* Mutant: with a timer running already, the new one is accepted and lost.
ScheduleTimerLost(e, kind) ==
  /\ timers' = IF timers # {} THEN timers
               ELSE {[identity |-> IdentityOf(e), kind |-> kind, token |-> e.token, due |-> FALSE]}
  /\ UNCHANGED <<allocations, cancellations, events>>

\* ScheduleRetry, ScheduleSlowReadmission.
ScheduleTimer(e, kind) ==
  /\ Cardinality(timers) < TimerCapacity
  /\ timers' = timers \cup
       {[identity |-> IdentityOf(e), kind |-> kind, token |-> e.token, due |-> FALSE]}
  /\ UNCHANGED <<allocations, cancellations, events>>

\* Mutant: a timer whose deadline has passed is no longer cancelled.
CancelTimerUnlessDue(e, kind) ==
  /\ timers' = {t \in timers :
       t.due \/ <<t.identity, t.kind, t.token>> # <<IdentityOf(e), kind, e.token>>}
  /\ UNCHANGED <<allocations, cancellations, events>>

\* CancelRetry, CancelSlowReadmission.
CancelTimer(e, kind) ==
  /\ timers' = {t \in timers : <<t.identity, t.kind, t.token>> # <<IdentityOf(e), kind, e.token>>}
  /\ UNCHANGED <<allocations, cancellations, events>>

PollDispatch(e) ==
  \/ e.kind = "StartAllocation" /\ StartAllocation(e)
  \/ e.kind = "CancelGeneration" /\ CancelGeneration(e)
  \/ e.kind = "ReleaseSlot" /\ UNCHANGED mailboxVars
  \/ e.kind = "ScheduleRetry" /\ ScheduleTimer(e, "RetryReady")
  \/ e.kind = "ScheduleSlowReadmission" /\ ScheduleTimer(e, "SlowReadmit")
  \/ e.kind = "CancelRetry" /\ CancelTimer(e, "RetryReady")
  \/ e.kind = "CancelSlowReadmission" /\ CancelTimer(e, "SlowReadmit")

-----------------------------------------------------------------------------
(* poll_event_at: worker events in order of submission, then due timers.   *)

ReadyEvents ==
  IF events # << >> THEN {Head(events)}
  ELSE {Event(t.kind, t.identity, t.token) : t \in {t \in timers : t.due}}

\* Mutant: a due timer is delivered without being taken out.
TakeEventKeepsTimer(e) ==
  /\ events' = IF events # << >> THEN Tail(events) ELSE events
  /\ UNCHANGED <<allocations, cancellations, timers>>

TakeEvent(e) ==
  /\ events' = IF events # << >> THEN Tail(events) ELSE events
  /\ timers' = IF events # << >> THEN timers
               ELSE {t \in timers : Event(t.kind, t.identity, t.token) # e}
  /\ UNCHANGED <<allocations, cancellations>>

\* Time passes: the deadline of a timer is reached.
TimerExpires ==
  /\ \E t \in timers : ~t.due /\ timers' = (timers \ {t}) \cup {[t EXCEPT !.due = TRUE]}
  /\ UNCHANGED <<allocations, cancellations, events>>

=============================================================================
