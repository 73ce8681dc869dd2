------------------------------ MODULE SchedulerHost ------------------------------
(***************************************************************************)
(* The scheduler inside its process: the driver, the mailbox, the          *)
(* supervisor and the turns of the control plane that polls them           *)
(* (crates/ariax-engine/src/http_control.rs poll_once_inner and            *)
(* poll_once_reserved, http_control/control_runtime.rs progress).          *)
(*                                                                         *)
(* A turn finishes the chain in progress and ends when one completes; with *)
(* the engine idle it polls the supervisor, then handles one event, then   *)
(* looks for slow transfers, admits one task, and takes one command, and   *)
(* stops at the first of these that starts a chain.  It may also run out   *)
(* of time between any two.  Workers and timers run beside it.             *)
(***************************************************************************)
EXTENDS SchedulerDriver, HttpSupervisor

CONSTANT MaxMoves   \* bound on commands, slow transfers and repeated attempts

ASSUME HostAssumption == MaxMoves \in Nat

VARIABLES
  phase,    \* where the turn is
  readmit,  \* the command in progress asked for an admission when it is done
  stopped,  \* the control runtime gave up after an error
  moves     \* commands and repeated attempts so far

hostVars == <<schedulerVars, driverVars, mailboxVars, supervisorVars, phase, readmit, stopped, moves>>

Phases == {"engine", "joins", "cancellations", "allocations", "event", "slow", "admit", "command"}

HostInit ==
  /\ Init /\ DriverInit /\ MailboxInit /\ SupervisorInit
  /\ phase = "engine" /\ readmit = FALSE /\ stopped = FALSE /\ moves = 0

At(p) == phase = p /\ ~fault /\ ~stopped

Spend == moves < MaxMoves /\ moves' = moves + 1

-----------------------------------------------------------------------------
(* The engine: one step of the chain in progress.                          *)

Admissible == \E g \in AdmissionCandidate : CanAdmit(tasks[g])

Engine ==
  /\ At("engine")
  /\ DispatchEffect \/ ApplyAcknowledgement \/ DriverFaults
  /\ UNCHANGED <<supervisorVars, phase, readmit, stopped, moves>>

\* poll_engine_step of a completed chain, with finish_pending_mutation: an
\* unpause or an add tries an admission of its own.  The turn ends.
EngineCompletes ==
  /\ At("engine") /\ ChainDone
  /\ readmit' = FALSE
  /\ \/ /\ ~(readmit /\ Admissible)
        /\ CompleteChain
        /\ UNCHANGED schedulerVars
     \/ /\ readmit /\ \E g \in Gid : AdmitNext(g)
        /\ view' = draft /\ UNCHANGED <<chain, acks, draft, fault>>
  /\ UNCHANGED <<mailboxVars, supervisorVars, phase, stopped, moves>>

-----------------------------------------------------------------------------
(* The supervisor: poll_once, which returns when its events back up.       *)

After(next) == phase' = IF pendingEvents' # << >> THEN "event" ELSE next

\* reserve_scheduler_work finds no memory for the owner's own work, which ends
\* poll_once_inner before the supervisor is polled; a command that follows in
\* the same turn has a reservation of its own.
OwnerBusy ==
  /\ On("OwnerBusy")
  /\ At("engine") /\ Idle
  /\ phase' = "command"
  /\ UNCHANGED <<schedulerVars, driverVars, mailboxVars, supervisorVars, readmit, stopped, moves>>

SuperviseFlush ==
  /\ At("engine") /\ Idle
  /\ FlushPending
  /\ After("joins")

SuperviseJoins ==
  /\ At("joins")
  /\ \/ \E id \in TaskIds : CompleteJoin(id) /\ After("joins")
     \/ /\ \A id \in TaskIds : ~Joinable(id)
        /\ phase' = "cancellations"
        /\ UNCHANGED <<mailboxVars, supervisorVars>>

SuperviseCancellations ==
  /\ At("cancellations")
  /\ \/ AcceptCancellation /\ After("cancellations")
     \/ /\ cancellations = << >>
        /\ phase' = "allocations"
        /\ UNCHANGED <<mailboxVars, supervisorVars>>

SuperviseAllocations ==
  /\ At("allocations")
  /\ \/ AcceptAllocation /\ After("allocations")
     \/ /\ allocations = << >>
        /\ phase' = "event"
        /\ UNCHANGED <<mailboxVars, supervisorVars>>

Supervise ==
  /\ SuperviseFlush \/ SuperviseJoins \/ SuperviseCancellations \/ SuperviseAllocations
  /\ UNCHANGED <<schedulerVars, driverVars, readmit, stopped, moves>>

-----------------------------------------------------------------------------
(* Events: handle_event_at of the next one.                                *)

Deliver(e) ==
  \/ e.kind = "AllocationSucceeded" /\ AllocationSucceeded(e)
  \/ e.kind = "AllocationRetryable" /\ AllocationRetryable(e)
  \/ e.kind = "AllocationFailed" /\ AllocationFailed(e)
  \/ e.kind = "ActiveHostKeyChallenge" /\ HostKeyChallenge(e, TRUE)
  \/ e.kind = "ActiveRetryIdle" /\ ActiveRetryIdle(e)
  \/ e.kind = "ActiveRepresentationRestart" /\ ActiveRepresentationRestart(e)
  \/ e.kind = "DataComplete" /\ DataComplete(e, FALSE)
  \/ e.kind = "VerificationSucceeded" /\ VerificationSucceeded(e)
  \/ e.kind = "TerminalFailure" /\ TerminalFailure(e)
  \/ e.kind = "CancellationDrained" /\ CancellationDrained(e)
  \/ e.kind = "RetryReady" /\ RetryReady(e, e.token)
  \/ e.kind = "SlowReadmit" /\ SlowReadmit(e, e.token)

\* The row of the matrix that a worker event selects.
EventRow ==
  [AllocationSucceeded |-> "AllocationSucceeded",
   AllocationRetryable |-> "AllocationRetryableFailure",
   AllocationFailed |-> "AllocationTerminalFailure",
   ActiveHostKeyChallenge |-> "ActiveHostKeyChallengeRequired",
   ActiveRetryIdle |-> "LeaseRetryableWithoutRunnableWork",
   ActiveRepresentationRestart |-> "RepresentationRestart",
   DataComplete |-> "AllRequiredDataReceived",
   VerificationSucceeded |-> "VerificationSucceeded",
   TerminalFailure |-> "TerminalWorkFailure"]

\* handle_event_at answers Ok and changes nothing: another task or an older
\* generation, a duplicate, a row the matrix rejects, a token or a drain that
\* is not awaited.
Ignored(e) ==
  LET t == tasks[e.gid]
  IN /\ t.state # "Absent"
     /\ \/ t.id # e.id
        \/ e.generation < t.generation
        \/ e.generation = t.generation /\ e.kind \in t.seen
        \/ /\ e.generation = t.generation
           /\ BarrierAccepts(t, e.kind)
           /\ \/ /\ e.kind \in DOMAIN EventRow
                 /\ WorkTarget(t.state, EventRow[e.kind]) = Conflict
                 /\ OutcomeTarget(t.state, EventRow[e.kind]) = Conflict
              \/ e.kind = "RetryReady" /\ t.retryTimer # e.token
              \/ e.kind = "SlowReadmit" /\ t.slowReadmission # e.token
              \/ e.kind = "CancellationDrained" /\ t.barrier.kind # "CancellationDrain"

\* Everything else is an error, which ends the control runtime.
HandleEvent ==
  /\ At("event")
  /\ \E e \in ReadyEvents :
       /\ TakeEvent(e)
       /\ \/ Deliver(e) /\ BeginChain /\ UNCHANGED stopped
          \/ Ignored(e) /\ BeginChain /\ UNCHANGED <<schedulerVars, stopped>>
          \/ /\ ~Ignored(e) /\ ~ENABLED Deliver(e)
             /\ stopped' = TRUE
             /\ UNCHANGED <<schedulerVars, driverVars>>
  /\ phase' = "engine"
  /\ UNCHANGED <<supervisorVars, readmit, moves>>

NoEvent ==
  /\ At("event") /\ ReadyEvents = {}
  /\ phase' = "slow"
  /\ UNCHANGED <<schedulerVars, driverVars, mailboxVars, supervisorVars, readmit, stopped, moves>>

-----------------------------------------------------------------------------
(* Slow transfers, admission and commands.                                 *)

\* poll_slow_slots_at: an active transfer is slow while another task waits.
RunnableWaiter ==
  \E i \in DOMAIN queues["Waiting"] :
    tasks[queues["Waiting"][i]].state = "Waiting" /\ Unblocked(tasks[queues["Waiting"][i]])

SlowEligible(t) == t.state = "Active" /\ ~t.desiredPaused /\ t.barrier.kind = "None"

SlowTransfer ==
  /\ At("slow") /\ Spend
  /\ RunnableWaiter
  /\ \E g \in Gid : /\ SlowEligible(tasks[g])
                    /\ \/ On("SlowDemote") /\ SlowDemoted(Current(g))
                       \/ On("SlowPause") /\ SlowPaused(Current(g))
  /\ BeginChain
  /\ phase' = "engine"
  /\ UNCHANGED <<mailboxVars, supervisorVars, readmit, stopped>>

NoSlowTransfer ==
  /\ At("slow")
  /\ phase' = "admit"
  /\ UNCHANGED <<schedulerVars, driverVars, mailboxVars, supervisorVars, readmit, stopped, moves>>

\* try_admit_one
TryAdmitOne ==
  /\ At("admit")
  /\ \/ /\ \E g \in Gid : AdmitNext(g)
        /\ BeginChain
        /\ phase' = "engine"
     \/ /\ ~Admissible
        /\ phase' = "command"
        /\ UNCHANGED <<schedulerVars, driverVars>>
  /\ UNCHANGED <<mailboxVars, supervisorVars, readmit, stopped, moves>>

\* poll_admission: the metadata of an added task is ready.  It is published
\* before the supervisor is polled.
AdmitMetadata ==
  /\ At("engine") /\ Idle /\ Spend
  /\ \E g \in Gid, id \in TaskIds, a \in AddChoices :
       AddValidatedTask(g, id, a.paused, a.credential, a.noSpace, MaxTasks)
  /\ BeginChain
  /\ readmit' = TRUE
  /\ UNCHANGED <<mailboxVars, supervisorVars, phase, stopped>>

\* begin_task_control.  The commands that the scheduler defers behind a
\* persistence barrier are not listed: the engine is idle here.
Forces == IF On("Force") THEN BOOLEAN ELSE {FALSE}

Command ==
  /\ At("command") /\ Spend
  /\ \E g \in Gid :
       \/ /\ \/ On("Pause") /\ \E force \in Forces : Pause(g, force)
             \/ On("Remove") /\ \E force \in Forces : RemoveTask(g, force)
             \/ On("Delete") /\ RemoveStoppedResult(g)
          /\ readmit' = FALSE
       \/ /\ \/ On("Resume") /\ Resume(g)
             \/ On("HostKey") /\ ApproveHostKey(g, tasks[g].challenge)
          /\ readmit' = TRUE
  /\ BeginChain
  /\ phase' = "engine"
  /\ UNCHANGED <<mailboxVars, supervisorVars, stopped>>

\* The turn ends: there is no command, or take_step refuses at the deadline.
TurnEnds ==
  /\ At("event") \/ At("slow") \/ At("admit") \/ At("command")
  /\ phase' = "engine"
  /\ UNCHANGED <<schedulerVars, driverVars, mailboxVars, supervisorVars, readmit, stopped, moves>>

-----------------------------------------------------------------------------
(* Workers and time.                                                       *)

\* A cancelled worker stops; what it would have reported does not matter.
CancelledWorkerStops ==
  /\ \E id \in TaskIds : workers[id].cancelled /\ WorkerFinishes(id, "Failed")
  /\ UNCHANGED <<schedulerVars, driverVars, phase, readmit, stopped, moves>>

\* A worker that nobody cancelled finishes.
WorkerReports ==
  /\ \E id \in TaskIds :
       /\ ~workers[id].cancelled
       /\ \/ UNCHANGED moves /\ \E result \in {"Complete", "Failed"} : WorkerFinishes(id, result)
          \/ Spend /\ \E result \in Results \cap Inputs : WorkerFinishes(id, result)
  /\ UNCHANGED <<schedulerVars, driverVars, phase, readmit, stopped>>

TimePasses ==
  /\ TimerExpires
  /\ UNCHANGED <<schedulerVars, driverVars, supervisorVars, phase, readmit, stopped, moves>>

Turn ==
  \/ Engine \/ EngineCompletes \/ OwnerBusy \/ Supervise \/ HandleEvent \/ NoEvent
  \/ SlowTransfer \/ NoSlowTransfer \/ TryAdmitOne \/ AdmitMetadata \/ Command \/ TurnEnds

HostNext == Turn \/ CancelledWorkerStops \/ WorkerReports \/ TimePasses

\* The owner task keeps taking turns; a turn does not forever run out of time
\* before the event that is ready; a cancelled worker stops; time passes.
HostFairness ==
  /\ WF_hostVars(Turn)
  /\ SF_hostVars(HandleEvent)
  /\ WF_hostVars(CancelledWorkerStops)
  /\ WF_hostVars(TimePasses)

HostSpec == HostInit /\ [][HostNext]_hostVars /\ HostFairness

-----------------------------------------------------------------------------
(* Properties.                                                             *)

\* Every part of the composed state has its type.
HostTypeOK ==
  /\ TypeOK
  /\ chain \in BOOLEAN /\ fault \in BOOLEAN
  /\ acks \in Seq(Acknowledgements)
  /\ draft \in [Gid -> Snapshots] /\ view \in [Gid -> Snapshots]
  /\ allocations \in Seq(Identities) /\ cancellations \in Seq(Identities)
  /\ timers \subseteq Timers
  /\ events \in Seq(Events) /\ Len(events) <= EventCapacity
  /\ pendingEvents \in Seq(Events) /\ Len(pendingEvents) <= PendingCapacity
  /\ workers \in [TaskIds -> Workers \cup {NoWorker}]
  /\ phase \in Phases /\ readmit \in BOOLEAN /\ stopped \in BOOLEAN /\ moves \in 0 .. MaxMoves

\* The process runs and no chain is in progress.
Settled == Idle /\ ~stopped

\* A worker only runs for the generation its task is in, while that task
\* holds an active slot: no transfer outlives the slot that was granted for
\* it, and no second one is started beside it.
WorkerHoldsSlot ==
  \A id \in LiveWorkers :
    LET i == workers[id].identity
        t == tasks[i.gid]
    IN t.id = id /\ t.generation = i.generation /\ OwnsSlot(t)

\* Between chains no task waits for an acknowledgement: every acknowledgement
\* that an effect owes has been applied before the next input is taken.
IdleUnblocked ==
  Settled => \A g \in Gid : tasks[g].barrier.kind \in {"None", "CancellationDrain"}

\* Inside a chain nothing goes wrong by itself: the task of every effect is still
\* there in the generation the effect names, and the scheduler accepts every
\* acknowledgement, so that only a failing store can fault the driver.
ChainAccepted ==
  chain /\ ~fault =>
    /\ effects # << >> => OwnerValid(Head(effects))
    /\ effects = << >> /\ acks # << >> => ENABLED Acknowledge(Head(acks))

InSeq(x, s) == \E i \in DOMAIN s : s[i] = x

EventsOf(i) == {e \in Range(events \o pendingEvents) : IdentityOf(e) = i}

WorkerOf(i) == Live(i.id) /\ workers[i.id].identity = i

\* Between chains every task that works has a request, a worker or a result on
\* its way under its current generation, and every drain has an answer on its
\* way: nothing waits for somebody who has already left.
SomebodyAnswers ==
  Settled => \A g \in Gid :
    LET t == tasks[g]
        i == Current(g)
    IN /\ t.state \in WorkingStates =>
            InSeq(i, allocations) \/ WorkerOf(i) \/ EventsOf(i) # {}
       /\ t.barrier.kind = "CancellationDrain" =>
            \/ InSeq(i, cancellations)
            \/ WorkerOf(i) /\ workers[i.id].cancelled
            \/ \E e \in EventsOf(i) : e.kind = "CancellationDrained"

\* Between chains the mailbox holds exactly the timers that tasks wait for: a
\* wait has its timer, and no timer is left behind to use up the capacity.
TimersExact ==
  Settled =>
    {<<t.identity, t.kind, t.token>> : t \in timers} =
      {<<Current(g), "RetryReady", tasks[g].retryTimer>> :
         g \in {g \in Gid : tasks[g].retryTimer # 0}} \cup
      {<<Current(g), "SlowReadmit", tasks[g].slowReadmission>> :
         g \in {g \in Gid : tasks[g].slowReadmission # 0}}

\* Between chains status readers see what the scheduler last published, and a
\* task that was deleted is gone from their view.
ViewCurrent == Settled => view = published

\* Status readers never see part of a chain: their view is only replaced by
\* what the scheduler has published, also when a later chain fails half way.
ViewWhole == [][view' # view => view' = published]_hostVars

\* No event and no acknowledgement is refused: the process keeps running.
HostRuns == ~stopped /\ ~fault

\* A download that was removed ends as a stopped result.
RemoveCompletes ==
  \A g \in Gid : tasks[g].state = "Removed" ~> tasks[g].state # "Removed"

\* A paused download gives up its slot.
PauseCompletes ==
  \A g \in Gid : (tasks[g].state = "Paused" /\ OwnsSlot(tasks[g])) ~> ~OwnsSlot(tasks[g])

\* A retry that kept its slot does not wait forever.
RetryEnds ==
  \A g \in Gid : tasks[g].state = "RetryWait" ~> tasks[g].state # "RetryWait"

-----------------------------------------------------------------------------
(* What the runs check, by subject.                                        *)

\* The composed state is typed, the process keeps running, and every worker
\* runs under a slot of its own generation.
HostSound == HostTypeOK /\ HostRuns /\ WorkerHoldsSlot

\* Between chains nothing is owed: no barrier waits for an acknowledgement,
\* every working task and every drain has somebody who answers, the timers are
\* those that tasks wait for, and readers see what was published.
SettledOwesNothing == IdleUnblocked /\ SomebodyAnswers /\ TimersExact /\ ViewCurrent

\* Removals, pauses and retries come to their end.
RequestsEnd == RemoveCompletes /\ PauseCompletes /\ RetryEnds

\* Under pressure and store failures chains are still accepted whole and no
\* timer is left behind.
PressureHandled == ChainAccepted /\ TimersExact

=============================================================================
