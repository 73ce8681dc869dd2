------------------------------ MODULE SchedulerTask ------------------------------
(***************************************************************************)
(* One scheduler-owned task: the ScheduledTask record of                   *)
(* crates/ariax-core/src/scheduler.rs and the pure functions on it (queue  *)
(* class, wire projection, slot release, timer cancellation, barriers).    *)
(*                                                                         *)
(* Abstractions.  Times are dropped: a timer is the identity the scheduler *)
(* issued for it, 0 when there is none.  Errors and paths are flags.  A    *)
(* host-key challenge is the generation whose worker saw it, plus one.     *)
(* The last_* identities are dropped: they only choose which of the two    *)
(* reasons (duplicate, stale) an ignored event is reported with.           *)
(***************************************************************************)
EXTENDS Naturals

CONSTANTS
  TaskIds,        \* process-unique task identities (positive naturals)
  MaxGeneration,  \* Generation::checked_next fails past this value
  MaxId,          \* next_id fails past this value
  MaxPatch        \* largest option-patch identity a caller uses

ASSUME BoundsAssumption ==
  /\ TaskIds \subseteq Nat \ {0}
  /\ MaxGeneration \in Nat
  /\ MaxId \in Nat
  /\ MaxPatch \in Nat

---------------------------------------------------------------------------------
(* The normative task-state matrix (transition.rs).  transition_contract     *)
(* tells, for every task state and every semantic scheduler action, whether  *)
(* the action moves the task, keeps it where it is, deletes it, is an        *)
(* idempotent no-op, or conflicts.  Every cell that transitions or stays has *)
(* exactly one target, so a row is the operator from the source state to     *)
(* that target, with Conflict where the cell rejects the action or makes it  *)
(* a no-op: nothing changes either way, since finish_action refuses to       *)
(* commit a no-op.                                                           *)
(*                                                                           *)
(* Rows that the scheduler never selects (ValidationFailed,                  *)
(* AdmissionBlocked, PlanningFailed, RetryExhausted,                         *)
(* LeaseRetryableWithRunnableWork and the Conditional OrderlyShutdown row,   *)
(* which execute_command_at refuses with ShutdownBatchRequired) are left out.*)

\* Task states that hold, or are acquiring, a running worker.
WorkingStates == {"Allocating", "Active", "Verifying", "Seeding"}

\* Parked states a user resume or an approval leaves.
ParkedStates == {"Paused", "PausedSlow", "PausedHostKey"}

\* Outcome states whose terminal record is not yet durable.
TerminalPending == {"Complete", "Error", "Removed"}

\* Every state of a task the scheduler owns and has not yet terminated.
\* Accepted exists only inside add_validated_task, before the task is stored.
LiveStates == WorkingStates \cup ParkedStates \cup
              {"Accepted", "Waiting", "WaitingSlow", "RetryWait", "PausedRestarting"}

TaskStates == LiveStates \cup TerminalPending \cup {"StoppedResult"}

\* States that may carry an admission condition (no_space, needs_credentials)
\* in a published snapshot: WireProjection::project rejects the others.
ConditionStates == {"Waiting", "WaitingSlow", "RetryWait", "Paused", "PausedSlow"}

\* Marks of the cells that have no target state.
Conflict == "Conflict"
Deleted  == "Deleted"

\* A row that moves every state of from to one target.
Move(state, from, target) == IF state \in from THEN target ELSE Conflict

\* A row that keeps every state of from where it is.
Stay(state, from) == IF state \in from THEN state ELSE Conflict

\* The first of two partial rows that accepts the state.
Either(first, second) == IF first # Conflict THEN first ELSE second

\* A pause leaves a parked task parked and parks every other live one.
PauseRow(state, parked) ==
  Either(Stay(state, parked), Move(state, LiveStates \ ParkedStates, "Paused"))

\* Validation, user control, and user control deferred behind a barrier.
ControlTarget(state, action) ==
  CASE action = "ValidationSucceeded"       -> Move(state, {"Accepted"}, "Waiting")
    [] action = "ValidationSucceededPaused" -> Move(state, {"Accepted"}, "Paused")
    [] action = "Pause"                     -> PauseRow(state, ParkedStates)
    [] action = "PauseDeferred"             -> Stay(state, LiveStates \ {"Accepted"})
    [] action = "Resume"                    -> Move(state, {"WaitingSlow", "Paused", "PausedSlow"}, "Waiting")
    [] action = "ResumeDeferred"            -> Stay(state, LiveStates \ {"Accepted"})
    [] action = "Remove"                    -> Move(state, LiveStates, "Removed")
    [] action = "RemoveDeferred"            -> Stay(state, LiveStates)
    [] OTHER                                -> Conflict

\* Admission, option patches, credentials and the disk-space probe.
AdmissionTarget(state, action) ==
  CASE action = "SchedulerAdmission" -> Move(state, {"Waiting"}, "Allocating")
    [] action \in {"InPlaceOptionPatchAccepted", "InPlaceOptionPatchApplied",
                   "InPlaceOptionPatchApplicationFailed"} ->
         Stay(state, LiveStates \ {"Accepted"})
    [] action \in {"CredentialsSatisfied", "CredentialSatisfactionFailed"} ->
         Stay(state, ConditionStates)
    [] action = "ExplicitNoSpaceProbeRequested" ->
         Either(Stay(state, {"Waiting", "RetryWait", "Paused"}),
                Move(state, {"WaitingSlow", "PausedSlow"}, "Waiting"))
    [] action \in {"WaitingNoSpaceProbeSucceeded", "WaitingNoSpaceProbeFailed"} ->
         Stay(state, {"Waiting", "WaitingSlow", "RetryWait"})
    [] action \in {"PausedNoSpaceResumeProbeSucceeded", "PausedNoSpaceResumeProbeFailed"} ->
         Move(state, {"Paused"}, "Waiting")
    [] action \in {"PausedNoSpacePausePreservingProbeSucceeded",
                   "PausedNoSpacePausePreservingProbeFailed"} ->
         Stay(state, {"Paused", "PausedSlow"})
    [] OTHER -> Conflict

\* Results of the allocation and transfer workers, and restarts of their work.
WorkTarget(state, action) ==
  CASE action = "GenerationPersistenceSucceeded" -> Stay(state, {"Allocating"})
    [] action = "AllocationSucceeded" -> Move(state, {"Allocating"}, "Active")
    [] action = "AllocationRetryableFailure" -> Move(state, {"Allocating"}, "RetryWait")
    [] action = "ActiveHostKeyChallengeRequired" -> Move(state, {"Active"}, "PausedHostKey")
    [] action = "HostKeyChallengeRequired" -> Move(state, {"Allocating"}, "PausedHostKey")
    [] action = "AllocationTerminalFailure" -> Move(state, {"Allocating"}, "Error")
    [] action \in {"ActiveRestartOptionPatchAccepted",
                   "ActiveRestartOptionPatchPersistenceFailed"} ->
         Stay(state, {"Allocating", "Active", "Verifying"})
    [] action = "SourceReplacementRequested" ->
         Either(Stay(state, {"Waiting", "Paused"}),
                Move(state, {"Allocating", "Active", "Verifying", "RetryWait"}, "PausedRestarting"))
    [] action = "SourceReplacementCommitted" ->
         Either(Stay(state, {"Waiting", "Paused"}), Move(state, {"PausedRestarting"}, "Waiting"))
    [] action = "ActiveRestartOptionPatchPersisted" ->
         Move(state, {"Allocating", "Active", "Verifying"}, "PausedRestarting")
    [] action = "LeaseRetryableWithoutRunnableWork" -> Move(state, {"Active"}, "RetryWait")
    [] action = "RepresentationRestart" -> Move(state, {"Active"}, "Allocating")
    [] action = "AllRequiredDataReceived" -> Move(state, {"Active"}, "Verifying")
    [] action = "BitTorrentPayloadComplete" -> Move(state, {"Active"}, "Seeding")
    [] action = "SlowSlotDemote" -> Move(state, {"Active"}, "WaitingSlow")
    [] action = "SlowSlotPause" -> Move(state, {"Active"}, "PausedSlow")
    [] action = "MidTransferNoSpace" -> Move(state, {"Active"}, "Waiting")
    [] action = "TerminalWorkFailure" -> Move(state, {"Active"}, "Error")
    [] OTHER -> Conflict

\* Readmission, host-key approval, drains, restarts and deferred control.
RecoveryTarget(state, action) ==
  CASE action = "RetryReadmissionSucceeded" -> Move(state, {"RetryWait"}, "Allocating")
    [] action = "RetryReadmissionBlocked" -> Stay(state, {"RetryWait"})
    [] action = "SlowReadmissionSucceeded" -> Move(state, {"WaitingSlow"}, "Allocating")
    [] action = "SlowReadmissionBlocked" -> Stay(state, {"WaitingSlow"})
    [] action \in {"ApproveHostKey", "ApplyMatchingHostKeyOption", "HostKeyResolutionFailed"} ->
         Stay(state, {"PausedHostKey"})
    [] action = "HostKeyResolutionSucceeded" -> Move(state, {"PausedHostKey"}, "Waiting")
    [] action = "HostKeyResolutionSucceededPreservingPause" -> Move(state, {"PausedHostKey"}, "Paused")
    [] action = "CancellationDrainSucceeded" ->
         Stay(state, {"Waiting", "WaitingSlow", "Paused", "PausedSlow", "Error", "Removed"})
    [] action = "RestartQuiesced" -> Stay(state, {"PausedRestarting"})
    [] action = "RestartApplicationScheduled" -> Stay(state, {"Waiting"})
    [] action = "RestartApplicationSucceeded" -> Move(state, {"PausedRestarting", "Waiting"}, "Waiting")
    [] action = "RestartApplicationFailed" -> Move(state, {"PausedRestarting", "Waiting"}, "Error")
    [] action = "DeferredPauseCompleted" -> PauseRow(state, {"Paused", "PausedSlow"})
    [] action = "DeferredResumeCompleted" -> Move(state, {"Paused", "PausedSlow"}, "Waiting")
    [] action = "DeferredRemoveCompleted" -> Move(state, LiveStates, "Removed")
    [] OTHER -> Conflict

\* Verification, seeding, terminal persistence and stopped-result deletion.
OutcomeTarget(state, action) ==
  CASE action = "VerificationSucceeded" -> Move(state, {"Verifying"}, "Complete")
    [] action = "VerificationRecoverableFailure" -> Move(state, {"Verifying"}, "Waiting")
    [] action = "VerificationTerminalFailure" -> Move(state, {"Verifying"}, "Error")
    [] action = "SeedingStopped" -> Move(state, {"Seeding"}, "Complete")
    [] action = "BitTorrentFailure" -> Move(state, {"Seeding"}, "Error")
    [] action = "TerminalPersistenceSucceeded" -> Move(state, TerminalPending, "StoppedResult")
    [] action \in {"RemoveStoppedResult", "StoppedResultDeletionFailed"} ->
         Stay(state, {"StoppedResult"})
    [] action = "StoppedResultDeletionSucceeded" -> Move(state, {"StoppedResult"}, Deleted)
    [] OTHER -> Conflict

---------------------------------------------------------------------------------
(* The task record.                                                          *)

Generations == 0 .. MaxGeneration
Tokens      == 0 .. (MaxId + 1)   \* 0 is "no timer", "no probe", ...
Patches     == 0 .. MaxPatch

\* CredentialRequirementKey: source-side keys can be satisfied by a source
\* replacement, the others only by an option patch.
Credentials == {"none", "source", "other"}

\* Option<NoSpaceCondition>: set with or without an automatic retry deadline.
NoSpaceValues == {"none", "manual", "timed"}

Slots          == {"None", "Reserved", "Active", "RetryRetained"}
DrainTargets   == {"Paused", "PausedSlow", "Waiting", "WaitingSlow",
                   "PausedRestarting", "Error", "Removed"}
Aria2Terminal  == {"complete", "error", "removed"}
BarrierKinds   == {"None", "GenerationPersistence", "CancellationDrain", "TerminalPersistence",
                   "OptionPatchPersistence", "OptionPatchApplication",
                   "HostKeyResolution", "StoppedResultDeletion"}
UserControls   == {"None", "Pause", "ForcePause", "Resume", "Remove", "ForceRemove"}
ProbeOrigins   == {"none", "ExplicitResume", "AutomaticRetry"}
PatchModes     == {"None", "InPlace", "ActiveRestart", "MatchingHostKey"}

\* The event kinds that carry no identity of their own and are therefore
\* deduplicated per generation through seen_events.
SeenKinds == {"GenerationPersisted", "AllocationSucceeded", "AllocationRetryable",
              "AllocationHostKeyChallenge", "ActiveHostKeyChallenge", "AllocationFailed",
              "ActiveRetryIdle", "ActiveRepresentationRestart", "DataComplete",
              "BitTorrentPayloadComplete", "NoSpace", "TerminalFailure", "SlowDemoted",
              "SlowPaused", "VerificationSucceeded", "VerificationRecoverable",
              "VerificationFailed", "SeedingComplete", "SeedingFailed",
              "CancellationDrained", "TerminalPersisted"}

QueueClasses == {"Waiting", "Demoted", "Paused", "Active", "Stopped"}

Barriers == [kind: BarrierKinds, generation: Generations, target: DrainTargets \cup {"None"},
             force: BOOLEAN, status: Aria2Terminal \cup {"None"},
             token: Nat, challenge: Nat]

NoBarrier == [kind |-> "None", generation |-> 0, target |-> "None", force |-> FALSE,
              status |-> "None", token |-> 0, challenge |-> 0]

\* A barrier that waits for one persistence or application acknowledgement.
AckBarrier(kind, generation, token) ==
  [NoBarrier EXCEPT !.kind = kind, !.generation = generation, !.token = token]

\* "Absent" marks a GID the scheduler does not know.
Tasks == [id: TaskIds \cup {0}, state: TaskStates \cup {"Absent"}, generation: Generations,
          started: BOOLEAN, desiredPaused: BOOLEAN, credential: Credentials,
          noSpace: NoSpaceValues, slot: Slots, barrier: Barriers,
          retryTimer: Tokens, retryReady: BOOLEAN,
          slowReadmission: Tokens, slowReady: BOOLEAN, pendingSlow: BOOLEAN,
          slowCount: Nat, slowSlot: BOOLEAN, slowPos: Nat,
          probe: Tokens, probeOrigin: ProbeOrigins,
          patch: Patches, patchMode: PatchModes, patchCredential: Credentials,
          highestPatch: Patches, userControl: UserControls, sourceReplacement: BOOLEAN,
          challenge: Nat, error: BOOLEAN,
          stoppedStatus: Aria2Terminal \cup {"None"}, terminalPersisted: BOOLEAN,
          seen: SUBSET SeenKinds]

NewTask(id, desiredPaused, credential, noSpace) ==
  [id |-> id, state |-> "Accepted", generation |-> 0, started |-> FALSE,
   desiredPaused |-> desiredPaused, credential |-> credential, noSpace |-> noSpace,
   slot |-> "None", barrier |-> NoBarrier, retryTimer |-> 0, retryReady |-> FALSE,
   slowReadmission |-> 0, slowReady |-> FALSE, pendingSlow |-> FALSE,
   slowCount |-> 0, slowSlot |-> FALSE, slowPos |-> 0,
   probe |-> 0, probeOrigin |-> "none", patch |-> 0, patchMode |-> "None",
   patchCredential |-> "none", highestPatch |-> 0, userControl |-> "None",
   sourceReplacement |-> FALSE, challenge |-> 0, error |-> FALSE,
   stoppedStatus |-> "None", terminalPersisted |-> FALSE, seen |-> {}]

AbsentTask == [NewTask(0, FALSE, "none", "none") EXCEPT !.state = "Absent"]

OwnsSlot(t) == t.slot # "None"

BlocksAdmission(t) == t.credential # "none" \/ t.noSpace # "none"

\* ScheduledTask::queue_class; "None" for a task in no queue.
QueueClass(t) ==
  CASE t.state \in {"Accepted", "Waiting"} -> "Waiting"
    [] t.state = "WaitingSlow" -> "Demoted"
    [] t.state \in WorkingStates -> "Active"
    [] t.state \in {"RetryWait", "PausedRestarting"} ->
         IF OwnsSlot(t) THEN "Active" ELSE "Waiting"
    [] t.state \in ParkedStates -> "Paused"
    [] t.state \in TerminalPending ->
         IF t.barrier.kind = "TerminalPersistence" THEN "Stopped"
         ELSE IF OwnsSlot(t) THEN "Active" ELSE "None"
    [] t.state = "StoppedResult" -> "Stopped"
    [] OTHER -> "None"

\* TaskSnapshot::validate, with WireProjection::project: the snapshot of t may
\* be published.  Lengths are always zero in scheduler snapshots.
SnapshotValid(t) ==
  /\ (t.state = "PausedHostKey") <=> (t.challenge # 0)
  /\ (t.state = "StoppedResult" /\ t.stoppedStatus = "error") => t.error
  /\ (t.state = "StoppedResult") <=> (t.stoppedStatus # "None")
  /\ t.state \notin TerminalPending
  /\ (t.state = "StoppedResult") <=> t.terminalPersisted
  /\ BlocksAdmission(t) => t.state \in ConditionStates

\* WireProjection::project of a task whose snapshot is valid.
WireStatus(t, holdsSlot) ==
  CASE t.state = "StoppedResult" -> t.stoppedStatus
    [] t.state # "StoppedResult" /\ t.noSpace # "none" -> "paused"
    [] t.state # "StoppedResult" /\ t.noSpace = "none" /\ t.credential # "none" ->
         IF t.desiredPaused THEN "paused" ELSE "waiting"
    [] OTHER ->
         IF t.state \in ParkedStates THEN "paused"
         ELSE IF \/ t.state \in {"Active", "Verifying", "Seeding"}
                 \/ t.state = "RetryWait" /\ holdsSlot /\ t.slot = "RetryRetained"
              THEN "active"
              ELSE "waiting"

-----------------------------------------------------------------------------
(* Task-level steps shared by the handlers.                                *)

\* Mutant: a new generation keeps the events its predecessor reported.
KeepEventHistory(t) == [t EXCEPT !.slowSlot = FALSE]

ClearGenerationEventHistory(t) == [t EXCEPT !.seen = {}, !.slowSlot = FALSE]

ReleaseSlot(t) == [t EXCEPT !.slot = "None"]

CancelTimers(t) ==
  [t EXCEPT !.retryTimer = 0, !.retryReady = FALSE,
            !.slowReadmission = 0, !.slowReady = FALSE,
            !.pendingSlow = FALSE, !.slowSlot = FALSE]

\* begin_cancellation fails with PendingBarrier behind every other barrier.
CanCancel(t) ==
  \/ t.barrier.kind \in {"None", "GenerationPersistence"}
  \/ t.barrier.kind = "CancellationDrain" /\ t.barrier.generation = t.generation

\* Mutant: a retargeted drain forgets that it was forced.
RestartCancellation(t, target, force) ==
  [t EXCEPT !.barrier =
     [NoBarrier EXCEPT !.kind = "CancellationDrain", !.generation = t.generation,
        !.target = target, !.force = force]]

\* begin_cancellation: start a drain, or retarget the one in progress.  A
\* forced drain is never downgraded.
BeginCancellation(t, target, force) ==
  [t EXCEPT !.barrier =
     [NoBarrier EXCEPT !.kind = "CancellationDrain", !.generation = t.generation,
        !.target = target,
        !.force = force \/ (t.barrier.kind = "CancellationDrain" /\ t.barrier.force)]]

\* Mutant: the error of the outcome is not kept.
BeginTerminalSilently(t, status, error) ==
  [t EXCEPT !.error = FALSE, !.stoppedStatus = "None", !.terminalPersisted = FALSE,
            !.barrier = [NoBarrier EXCEPT !.kind = "TerminalPersistence",
                                          !.generation = t.generation, !.status = status]]

BeginTerminal(t, status, error) ==
  [t EXCEPT !.error = error, !.stoppedStatus = "None", !.terminalPersisted = FALSE,
            !.barrier = [NoBarrier EXCEPT !.kind = "TerminalPersistence",
                                          !.generation = t.generation, !.status = status]]

\* defers_user_control
DefersUserControl(t) ==
  t.barrier.kind \in {"OptionPatchPersistence", "OptionPatchApplication", "HostKeyResolution"}

\* What remove clears besides the timers.
Discard(t) ==
  [CancelTimers(t) EXCEPT !.probe = 0, !.probeOrigin = "none", !.challenge = 0,
                          !.patch = 0, !.patchMode = "None", !.patchCredential = "none",
                          !.userControl = "None"]

\* complete_pending_user_control: the action that the deferred request becomes.
DeferredAction(t) ==
  CASE t.userControl \in {"Pause", "ForcePause"} -> "DeferredPauseCompleted"
    [] t.userControl = "Resume" -> "DeferredResumeCompleted"
    [] OTHER -> "DeferredRemoveCompleted"

\* complete_pending_user_control: t the task before the acknowledgement,
\* b the same task with its barrier cleared.
CompleteUserControl(t, b) ==
  LET target == RecoveryTarget(t.state, DeferredAction(t))
      force  == t.userControl \in {"ForcePause", "ForceRemove"}
  IN CASE t.userControl \in {"Pause", "ForcePause"} ->
            LET u == [b EXCEPT !.userControl = "None", !.state = target, !.desiredPaused = TRUE]
            IN IF OwnsSlot(u) THEN BeginCancellation(u, "Paused", force) ELSE u
       [] t.userControl = "Resume" ->
            CancelTimers([b EXCEPT !.userControl = "None", !.state = target,
                                   !.desiredPaused = FALSE, !.slowCount = 0])
       [] OTHER ->
            LET u == [Discard(b) EXCEPT !.state = target]
            IN IF OwnsSlot(u) THEN BeginCancellation(u, "Removed", force)
               ELSE BeginTerminal(u, "removed", FALSE)

\* Mutant: a readmitted task moves to a new generation with the old history.
AdmitRemembering(t) ==
  [t EXCEPT !.generation = IF t.started THEN @ + 1 ELSE @,
            !.started = TRUE, !.state = "Allocating", !.slot = "Reserved",
            !.retryReady = FALSE, !.slowReady = FALSE,
            !.barrier = AckBarrier("GenerationPersistence",
                                   IF t.started THEN t.generation + 1 ELSE t.generation, 0)]

\* plan_admission: what an admitted task becomes.  A generation that already
\* ran a worker is never reused.
Admit(t) ==
  LET gen == IF t.started THEN t.generation + 1 ELSE t.generation
      n   == IF gen = t.generation THEN t
             ELSE ClearGenerationEventHistory([t EXCEPT !.generation = gen])
  IN [n EXCEPT !.started = TRUE, !.state = "Allocating", !.slot = "Reserved",
               !.retryReady = FALSE, !.slowReady = FALSE,
               !.barrier = AckBarrier("GenerationPersistence", gen, 0)]

\* The event kinds that the current barrier lets through.
BarrierAccepts(t, kind) ==
  CASE t.barrier.kind = "GenerationPersistence" -> kind = "GenerationPersisted"
    [] t.barrier.kind = "OptionPatchPersistence" -> kind = "OptionPatchPersistence"
    [] t.barrier.kind = "OptionPatchApplication" -> kind = "OptionPatchApplication"
    [] t.barrier.kind = "HostKeyResolution" -> kind = "HostKeyResolution"
    [] t.barrier.kind = "TerminalPersistence" -> kind = "TerminalPersisted"
    [] t.barrier.kind = "StoppedResultDeletion" -> kind = "StoppedResultDeletion"
    [] OTHER -> TRUE
=================================================================================
