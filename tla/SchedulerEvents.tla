----------------------------- MODULE SchedulerEvents -----------------------------
(***************************************************************************)
(* Admission (RequestScheduler::admit_next_at) and the asynchronous        *)
(* results of RequestScheduler::handle_event_at: acknowledgements of       *)
(* persistence effects, worker results, timers and drains.                 *)
(*                                                                         *)
(* An event comes in an envelope e with the GID, the task identity and the *)
(* generation of whoever sends it.  handle_event ignores an event of       *)
(* another task or an older generation, a duplicate and one the matrix     *)
(* rejects, and returns an error for one the current barrier does not      *)
(* accept; in all these cases nothing changes and the action is disabled.  *)
(***************************************************************************)
EXTENDS SchedulerCore

Envelopes == [gid: Gid, id: TaskIds, generation: Generations]

\* handle_event_at up to the dispatch; seen_events is empty of kinds with tokens.
Fresh(e, kind) ==
  LET t == tasks[e.gid]
  IN /\ t.state # "Absent"
     /\ t.id = e.id
     /\ t.generation = e.generation
     /\ kind = "TerminalPersisted" \/ kind \notin t.seen
     /\ BarrierAccepts(t, kind)

\* mark_non_token_event
Mark(t, kind) == [t EXCEPT !.seen = @ \cup {kind}]

\* token_disposition: the barrier of this kind waits for exactly this token.
Awaits(t, kind, token) ==
  t.barrier.kind = kind /\ t.barrier.generation = t.generation /\ t.barrier.token = token

ClearPatch(t) == [t EXCEPT !.patch = 0, !.patchMode = "None", !.patchCredential = "none"]

-----------------------------------------------------------------------------
(* Admission.                                                              *)

\* Mutant: the active-slot limit is not checked.
CanAdmitAnyway(t) ==
  /\ t.barrier.kind = "None"
  /\ ~t.desiredPaused /\ ~BlocksAdmission(t)
  /\ t.started => t.generation < MaxGeneration

\* The guard of plan_admission.
CanAdmit(t) ==
  /\ t.barrier.kind = "None"
  /\ ~t.desiredPaused /\ ~BlocksAdmission(t)
  /\ OwnsSlot(t) \/ SlotFree
  /\ t.started => t.generation < MaxGeneration

AdmitEffects(g, u) == <<Effect("PersistGenerationStarted", g, u, 0)>>

Unblocked(t) == t.barrier.kind = "None" /\ ~t.desiredPaused /\ ~BlocksAdmission(t)

RestartPatchReady(t) ==
  /\ t.state = "Waiting" /\ t.barrier.kind = "None" /\ ~t.desiredPaused
  /\ t.patch # 0 /\ t.patchMode = "ActiveRestart"

RetainedRetryReady(t) ==
  t.state = "RetryWait" /\ t.retryReady /\ t.slot = "RetryRetained" /\ Unblocked(t)

\* Mutant: a task whose sources are being replaced counts as waiting.
WaitingReadyOldSources(t) ==
  (t.state = "Waiting" \/ (t.state = "RetryWait" /\ t.retryReady)) /\ Unblocked(t)

WaitingReady(t) ==
  /\ ~t.sourceReplacement
  /\ t.state = "Waiting" \/ (t.state = "RetryWait" /\ t.retryReady)
  /\ Unblocked(t)

DemotedReady(t) == t.state = "WaitingSlow" /\ t.slowReady /\ Unblocked(t)

\* The first task of a queue that satisfies a test, as a set of at most one.
FirstReady(class, Ready(_)) ==
  LET q     == queues[class]
      ready == {i \in DOMAIN q : Ready(tasks[q[i]])}
  IN {q[i] : i \in {i \in ready : \A j \in ready : i <= j}}

OrElse(first, second) == IF first # {} THEN first ELSE second

PreferDemoted(t) ==
  policy.slow = "Front" \/ (policy.slow = "OriginalPosition" /\ t.slowPos = 0)

\* A staged restart patch first, then a retry that kept its slot, then the
\* demoted task if the policy prefers it, the waiting queue, the demoted queue.
AdmissionCandidate ==
  LET demoted == FirstReady("Demoted", DemotedReady)
  IN OrElse(FirstReady("Waiting", RestartPatchReady),
     OrElse(FirstReady("Active", RetainedRetryReady),
     OrElse({g \in demoted : PreferDemoted(tasks[g])},
     OrElse(FirstReady("Waiting", WaitingReady), demoted))))

\* Every ordinary admission brings the ready demoted tasks one place forward.
AdvanceDemoted ==
  [g \in Gid |->
     IF tasks[g].slowReady /\ tasks[g].slowPos > 0 THEN [tasks[g] EXCEPT !.slowPos = @ - 1]
     ELSE tasks[g]]

\* The matrix row of an admission, by the state the task is admitted from.
AdmitTarget(t) ==
  CASE t.state = "Waiting" -> AdmissionTarget(t.state, "SchedulerAdmission")
    [] t.state = "RetryWait" -> RecoveryTarget(t.state, "RetryReadmissionSucceeded")
    [] t.state = "WaitingSlow" -> RecoveryTarget(t.state, "SlowReadmissionSucceeded")
    [] OTHER -> Conflict

AdmitNext(g) ==
  LET t == tasks[g]
  IN /\ g \in AdmissionCandidate
     /\ ~(t.state = "Waiting" /\ t.patchMode = "ActiveRestart")
     /\ CanAdmit(t)
     /\ Commit(g, Admit(t), AdmitTarget(t), AdmitEffects(g, Admit(t)), FALSE, TRUE, ids,
               IF t.state = "WaitingSlow" THEN tasks ELSE AdvanceDemoted)

\* A waiting task with a staged restart patch applies it before it is admitted.
ScheduleRestartPatch(g) ==
  LET t == tasks[g]
      u == [t EXCEPT !.barrier = AckBarrier("OptionPatchApplication", t.generation, t.patch)]
  IN /\ g \in AdmissionCandidate
     /\ t.state = "Waiting" /\ t.patchMode = "ActiveRestart"
     /\ t.patch # 0
     /\ Finish(g, u, RecoveryTarget(t.state, "RestartApplicationScheduled"),
               <<Effect("ApplyOptionPatch", g, t, t.patch)>>, FALSE)

-----------------------------------------------------------------------------
(* Acknowledgements of persistence and application effects.                *)

GenerationPersisted(e) ==
  LET g == e.gid
      t == tasks[g]
      u == [Mark(t, "GenerationPersisted") EXCEPT !.barrier = NoBarrier, !.slot = "Active"]
  IN /\ Fresh(e, "GenerationPersisted")
     /\ t.barrier.kind = "GenerationPersistence" /\ t.barrier.generation = e.generation
     /\ Finish(g, u, WorkTarget(t.state, "GenerationPersistenceSucceeded"),
               <<Effect("StartAllocation", g, u, 0)>>, TRUE)

\* Mutant: a patch that could not be staged drops the request deferred behind it.
PatchPersistenceForgetsControl(e, patch, ok) ==
  LET g      == e.gid
      t      == tasks[g]
      target == WorkTarget(t.state, "ActiveRestartOptionPatchPersistenceFailed")
  IN /\ Fresh(e, "OptionPatchPersistence")
     /\ Awaits(t, "OptionPatchPersistence", patch)
     /\ ~ok
     /\ Finish(g, ClearPatch([t EXCEPT !.barrier = NoBarrier, !.userControl = "None"]),
               target, << >>, FALSE)

OptionPatchPersistenceCompleted(e, patch, ok) ==
  LET g      == e.gid
      t      == tasks[g]
      b      == IF ok THEN [t EXCEPT !.barrier = NoBarrier]
                ELSE ClearPatch([t EXCEPT !.barrier = NoBarrier])
      action == IF ok THEN "ActiveRestartOptionPatchPersisted"
                ELSE "ActiveRestartOptionPatchPersistenceFailed"
      target == WorkTarget(t.state, action)
      u      == [b EXCEPT !.state = target]
  IN /\ Fresh(e, "OptionPatchPersistence")
     /\ Awaits(t, "OptionPatchPersistence", patch)
     /\ t.patch = patch /\ t.patchMode = "ActiveRestart"
     /\ IF t.userControl # "None"
        THEN Finish(g, CompleteUserControl(t, b), RecoveryTarget(t.state, DeferredAction(t)),
                    DeferredEffects(g, t, b), DeferredAction(t) # "DeferredRemoveCompleted")
        ELSE Finish(g, IF ok THEN BeginCancellation(u, "PausedRestarting", FALSE) ELSE u, target,
                    When(ok, CancelEffects(g, b, FALSE)), ok)

\* The row of an application that no deferred user control supersedes.
ApplicationAction(t, ok) ==
  CASE t.patchMode = "ActiveRestart" /\ ok -> "RestartApplicationSucceeded"
    [] t.patchMode = "ActiveRestart" /\ ~ok -> "RestartApplicationFailed"
    [] t.patchMode # "ActiveRestart" /\ t.patchCredential # "none" ->
         IF ok THEN "CredentialsSatisfied" ELSE "CredentialSatisfactionFailed"
    [] OTHER -> IF ok THEN "InPlaceOptionPatchApplied" ELSE "InPlaceOptionPatchApplicationFailed"

\* A deferred remove wins over the result; a failed restart is terminal even
\* when the user asked for a pause or a resume meanwhile.
OptionPatchApplicationCompleted(e, patch, ok) ==
  LET g       == e.gid
      t       == tasks[g]
      c       == ClearPatch([t EXCEPT !.barrier = NoBarrier])
      b       == IF ok /\ t.patchCredential # "none" THEN [c EXCEPT !.credential = "none"] ELSE c
      action  == ApplicationAction(t, ok)
      fails   == action = "RestartApplicationFailed"
      removes == t.userControl \in {"Remove", "ForceRemove"}
      target  == Either(RecoveryTarget(t.state, action), AdmissionTarget(t.state, action))
      u       == [b EXCEPT !.state = target]
  IN /\ Fresh(e, "OptionPatchApplication")
     /\ Awaits(t, "OptionPatchApplication", patch)
     /\ t.patch = patch /\ t.patchMode \in {"InPlace", "ActiveRestart"}
     /\ t.patchCredential # "none" => t.credential = t.patchCredential
     /\ IF removes \/ (t.userControl # "None" /\ ~fails)
        THEN Finish(g, CompleteUserControl(t, b), RecoveryTarget(t.state, DeferredAction(t)),
                    DeferredEffects(g, t, b), ~removes)
        ELSE Finish(g, IF fails THEN BeginTerminal([u EXCEPT !.userControl = "None"], "error", TRUE)
                       ELSE u,
                    target, << >>, action \in {"RestartApplicationSucceeded", "CredentialsSatisfied"})

\* Mutant: a pause that came while the pin was being written is lost.
HostKeyResolutionResumes(e, resolution, ok) ==
  LET t      == tasks[e.gid]
      target == RecoveryTarget(t.state, "HostKeyResolutionSucceeded")
  IN /\ Fresh(e, "HostKeyResolution")
     /\ Awaits(t, "HostKeyResolution", resolution)
     /\ ok
     /\ Finish(e.gid, [t EXCEPT !.barrier = NoBarrier, !.patch = 0, !.patchMode = "None",
                                !.challenge = 0, !.state = target],
               target, << >>, TRUE)

HostKeyResolutionCompleted(e, resolution, ok) ==
  LET g       == e.gid
      t       == tasks[g]
      c       == [t EXCEPT !.barrier = NoBarrier, !.patch = 0, !.patchMode = "None"]
      b       == IF ok THEN [c EXCEPT !.challenge = 0] ELSE c
      removes == t.userControl \in {"Remove", "ForceRemove"}
      action  == IF ~ok THEN "HostKeyResolutionFailed"
                 ELSE IF t.desiredPaused THEN "HostKeyResolutionSucceededPreservingPause"
                 ELSE "HostKeyResolutionSucceeded"
      target  == RecoveryTarget(t.state, action)
  IN /\ Fresh(e, "HostKeyResolution")
     /\ Awaits(t, "HostKeyResolution", resolution)
     /\ t.challenge = t.barrier.challenge
     /\ t.patch # 0 => t.patchMode = "MatchingHostKey"
     /\ IF removes
        THEN Finish(g, CompleteUserControl(t, b), RecoveryTarget(t.state, DeferredAction(t)),
                    DeferredEffects(g, t, b), FALSE)
        ELSE Finish(g, [b EXCEPT !.state = target], target, << >>, ok)

TerminalPersisted(e, status) ==
  LET g      == e.gid
      t      == tasks[g]
      target == OutcomeTarget(t.state, "TerminalPersistenceSucceeded")
      u      == [Mark(t, "TerminalPersisted") EXCEPT
                   !.barrier = NoBarrier, !.state = target,
                   !.stoppedStatus = status, !.terminalPersisted = TRUE]
  IN /\ Fresh(e, "TerminalPersisted")
     /\ t.barrier.kind = "TerminalPersistence"
     /\ t.barrier.generation = e.generation /\ t.barrier.status = status
     /\ Finish(g, u, target, << >>, TRUE)

StoppedResultDeletionFailed(e, deletion) ==
  LET t == tasks[e.gid]
  IN /\ Fresh(e, "StoppedResultDeletion")
     /\ Awaits(t, "StoppedResultDeletion", deletion)
     /\ Finish(e.gid, [t EXCEPT !.barrier = NoBarrier],
               OutcomeTarget(t.state, "StoppedResultDeletionFailed"), << >>, FALSE)

\* The only step that forgets a task; its queue entry goes with it.
StoppedResultDeleted(e, deletion) ==
  LET g == e.gid
      t == tasks[g]
  IN /\ Fresh(e, "StoppedResultDeletion")
     /\ Awaits(t, "StoppedResultDeletion", deletion)
     /\ OutcomeTarget(t.state, "StoppedResultDeletionSucceeded") = Deleted
     /\ MembershipExact(g, QueueClass(t))
     /\ tasks' = [tasks EXCEPT ![g] = AbsentTask]
     /\ queues' = QueuesAfter(g, QueueClass(t), "None")
     /\ published' = [published EXCEPT ![g] = NoSnapshot]
     /\ effects' = << >>
     /\ UNCHANGED <<highestTaskId, ids, policy>>

-----------------------------------------------------------------------------
(* Results of the allocation and transfer workers.                         *)

\* The common shape of a worker result that only moves the task.
WorkerMoves(e, kind, target, Update(_), effs, publish) ==
  /\ Fresh(e, kind)
  /\ Finish(e.gid, Mark(Update([tasks[e.gid] EXCEPT !.state = target]), kind), target, effs, publish)

AllocationSucceeded(e) ==
  WorkerMoves(e, "AllocationSucceeded", WorkTarget(tasks[e.gid].state, "AllocationSucceeded"),
              LAMBDA t : t, << >>, TRUE)

\* data_complete
DataComplete(e, seed) ==
  IF seed
  THEN WorkerMoves(e, "BitTorrentPayloadComplete",
                   WorkTarget(tasks[e.gid].state, "BitTorrentPayloadComplete"),
                   LAMBDA t : t, << >>, TRUE)
  ELSE WorkerMoves(e, "DataComplete", WorkTarget(tasks[e.gid].state, "AllRequiredDataReceived"),
                   LAMBDA t : t, << >>, TRUE)

\* allocation_retryable and active_retry_idle: wait for the retry deadline,
\* with the slot when the policy keeps it.
WaitForRetry(e, kind, target) ==
  LET g == e.gid
      t == tasks[g]
      u == [Mark(t, kind) EXCEPT !.state = target, !.retryTimer = ids.retry, !.retryReady = FALSE,
                                 !.slot = IF policy.holdsSlot THEN "RetryRetained" ELSE "None"]
  IN /\ Fresh(e, kind)
     /\ CanIssue("retry")
     /\ FinishIssuing(g, u, target,
                      When(~policy.holdsSlot, ReleaseEffects(g, t)) \o
                      <<Effect("ScheduleRetry", g, t, ids.retry)>>, TRUE, Issue("retry"))

AllocationRetryable(e) ==
  WaitForRetry(e, "AllocationRetryable",
               WorkTarget(tasks[e.gid].state, "AllocationRetryableFailure"))

ActiveRetryIdle(e) ==
  WaitForRetry(e, "ActiveRetryIdle",
               WorkTarget(tasks[e.gid].state, "LeaseRetryableWithoutRunnableWork"))

\* allocation_host_key_challenge; the challenge is named after its generation.
HostKeyChallenge(e, active) ==
  LET g      == e.gid
      t      == tasks[g]
      kind   == IF active THEN "ActiveHostKeyChallenge" ELSE "AllocationHostKeyChallenge"
      target == WorkTarget(t.state, IF active THEN "ActiveHostKeyChallengeRequired"
                                    ELSE "HostKeyChallengeRequired")
      u      == [Mark(ReleaseSlot(t), kind) EXCEPT !.state = target, !.challenge = t.generation + 1]
  IN /\ Fresh(e, kind)
     /\ Commit(g, u, target,
               <<Effect("PersistHostKeyChallenge", g, t, t.generation + 1)>> \o ReleaseEffects(g, t),
               TRUE, TRUE, ids, tasks)

\* allocation_failed, verification_succeeded/failed, seeding_complete/failed:
\* release the slot and start the terminal record.
WorkerStops(e, kind, target, status) ==
  LET t == tasks[e.gid]
  IN WorkerMoves(e, kind, target,
                 LAMBDA u : BeginTerminal(ReleaseSlot(u), status, status = "error"),
                 ReleaseEffects(e.gid, t), FALSE)

AllocationFailed(e) ==
  WorkerStops(e, "AllocationFailed",
              WorkTarget(tasks[e.gid].state, "AllocationTerminalFailure"), "error")

VerificationSucceeded(e) ==
  WorkerStops(e, "VerificationSucceeded",
              OutcomeTarget(tasks[e.gid].state, "VerificationSucceeded"), "complete")

VerificationFailed(e) ==
  WorkerStops(e, "VerificationFailed",
              OutcomeTarget(tasks[e.gid].state, "VerificationTerminalFailure"), "error")

SeedingComplete(e) ==
  WorkerStops(e, "SeedingComplete",
              OutcomeTarget(tasks[e.gid].state, "SeedingStopped"), "complete")

SeedingFailed(e) ==
  WorkerStops(e, "SeedingFailed",
              OutcomeTarget(tasks[e.gid].state, "BitTorrentFailure"), "error")

\* Mutant: the return to the waiting queue is not published.
VerificationRecoverableUnseen(e) ==
  LET t == tasks[e.gid]
  IN WorkerMoves(e, "VerificationRecoverable",
                 OutcomeTarget(t.state, "VerificationRecoverableFailure"),
                 ReleaseSlot, ReleaseEffects(e.gid, t), FALSE)

VerificationRecoverable(e) ==
  LET t == tasks[e.gid]
  IN WorkerMoves(e, "VerificationRecoverable",
                 OutcomeTarget(t.state, "VerificationRecoverableFailure"),
                 ReleaseSlot, ReleaseEffects(e.gid, t), TRUE)

\* The representation changed under an active transfer: the same task is
\* admitted again under its own slot.  The event is marked after the new
\* generation has cleared the history.
ActiveRepresentationRestart(e) ==
  LET g == e.gid
      t == tasks[g]
      u == Mark(Admit(t), "ActiveRepresentationRestart")
  IN /\ Fresh(e, "ActiveRepresentationRestart")
     /\ CanAdmit(t)
     /\ Finish(g, u, WorkTarget(t.state, "RepresentationRestart"), AdmitEffects(g, u), TRUE)

\* no_space, terminal_failure, slow_demoted, slow_paused: the task leaves
\* Active at once and keeps its slot until the generation is drained.
WorkerDrains(e, kind, target, Update(_), effs, publish) ==
  LET g == e.gid
      t == tasks[g]
      u == BeginCancellation(Update([t EXCEPT !.state = target]), target, FALSE)
  IN /\ Fresh(e, kind)
     /\ CanCancel(t)
     /\ Finish(g, Mark(u, kind), target, effs \o CancelEffects(g, t, FALSE), publish)

NoSpace(e, condition) ==
  LET t == tasks[e.gid]
  IN WorkerDrains(e, "NoSpace", WorkTarget(t.state, "MidTransferNoSpace"),
                  LAMBDA u : [u EXCEPT !.noSpace = condition],
                  <<Effect("PersistConditions", e.gid, t, 0)>>, TRUE)

TerminalFailure(e) ==
  WorkerDrains(e, "TerminalFailure", WorkTarget(tasks[e.gid].state, "TerminalWorkFailure"),
               LAMBDA u : [u EXCEPT !.error = TRUE], << >>, FALSE)

SlowDemoted(e) ==
  /\ InQueue(e.gid, "Active")
  /\ LET position == Position(e.gid, "Active") - 1
     IN WorkerDrains(e, "SlowDemoted", WorkTarget(tasks[e.gid].state, "SlowSlotDemote"),
                     LAMBDA u : [u EXCEPT !.pendingSlow = TRUE, !.slowCount = @ + 1,
                                          !.slowSlot = TRUE, !.slowPos = position],
                     << >>, TRUE)

SlowPaused(e) ==
  WorkerDrains(e, "SlowPaused", WorkTarget(tasks[e.gid].state, "SlowSlotPause"),
               LAMBDA u : [u EXCEPT !.desiredPaused = TRUE], << >>, TRUE)

-----------------------------------------------------------------------------
(* Drains, timers and probes.                                              *)

\* schedule_no_space_probe, after a drain or a failed probe.
ProbeDue(t) == t.state \in ConditionStates /\ t.noSpace = "timed" /\ t.probe = 0

WithProbe(t) == [t EXCEPT !.probe = ids.probe, !.probeOrigin = "AutomaticRetry"]

\* Mutant: the drained generation keeps its slot.
DrainedWithSlot(t) ==
  CASE t.barrier.target = "Error" -> BeginTerminal(t, "error", TRUE)
    [] t.barrier.target = "Removed" -> BeginTerminal(t, "removed", FALSE)
    [] OTHER -> [t EXCEPT !.barrier = NoBarrier]

\* What the drained task becomes, by the target of the drain.
Drained(t) ==
  LET r == [ReleaseSlot(t) EXCEPT !.barrier = NoBarrier]
  IN CASE t.barrier.target = "PausedRestarting" ->
            IF t.sourceReplacement THEN r
            ELSE [r EXCEPT !.barrier = AckBarrier("OptionPatchApplication", t.generation, t.patch)]
       [] t.barrier.target = "WaitingSlow" ->
            IF t.pendingSlow THEN [r EXCEPT !.pendingSlow = FALSE, !.slowReadmission = ids.slow] ELSE r
       [] t.barrier.target = "Error" -> BeginTerminal(r, "error", TRUE)
       [] t.barrier.target = "Removed" -> BeginTerminal(r, "removed", FALSE)
       [] OTHER -> r

CancellationDrained(e) ==
  LET g          == e.gid
      t          == tasks[g]
      restarting == t.barrier.target = "PausedRestarting"
      applies    == restarting /\ ~t.sourceReplacement
      readmits   == t.barrier.target = "WaitingSlow" /\ t.pendingSlow
      target     == RecoveryTarget(t.state, IF restarting THEN "RestartQuiesced"
                                            ELSE "CancellationDrainSucceeded")
      d          == Drained(t)
      probes     == ProbeDue(d)
      u          == Mark(IF probes THEN WithProbe(d) ELSE d, "CancellationDrained")
      slowIds    == IF readmits THEN Issue("slow") ELSE ids
  IN /\ Fresh(e, "CancellationDrained")
     /\ t.barrier.kind = "CancellationDrain" /\ t.barrier.generation = e.generation
     /\ ~restarting => t.state = t.barrier.target
     /\ applies => t.patch # 0 /\ t.patchMode = "ActiveRestart"
     /\ readmits => CanIssue("slow")
     /\ t.barrier.target = "Error" => t.error
     /\ probes => CanIssue("probe")
     /\ FinishIssuing(g, u, target,
          ReleaseEffects(g, t) \o
          When(applies, <<Effect("ApplyOptionPatch", g, t, t.patch)>>) \o
          When(readmits, <<Effect("ScheduleSlowReadmission", g, t, ids.slow)>>) \o
          When(probes, <<Effect("ProbeNoSpace", g, t, ids.probe)>>),
          ~applies /\ t.barrier.target \notin {"Error", "Removed"},
          IF probes THEN [slowIds EXCEPT !.probe = @ + 1] ELSE slowIds)

\* Mutant: a deadline that finds no free slot is forgotten.
RetryReadyOnce(e, timer) ==
  LET g == e.gid
      t == tasks[g]
      r == [t EXCEPT !.retryTimer = 0]
  IN /\ Fresh(e, "RetryReady")
     /\ timer # 0 /\ t.retryTimer = timer
     /\ IF CanAdmit(t)
        THEN Finish(g, Admit(r), RecoveryTarget(t.state, "RetryReadmissionSucceeded"),
                    AdmitEffects(g, Admit(r)), TRUE)
        ELSE Finish(g, r, RecoveryTarget(t.state, "RetryReadmissionBlocked"), << >>, TRUE)

RetryReady(e, timer) ==
  LET g      == e.gid
      t      == tasks[g]
      admits == (OwnsSlot(t) \/ SlotFree) /\ ~t.desiredPaused /\ ~BlocksAdmission(t)
      r      == [t EXCEPT !.retryTimer = 0, !.retryReady = TRUE]
  IN /\ Fresh(e, "RetryReady")
     /\ timer # 0 /\ t.retryTimer = timer
     /\ IF admits
        THEN /\ CanAdmit(t)
             /\ Finish(g, Admit(r), RecoveryTarget(t.state, "RetryReadmissionSucceeded"),
                       AdmitEffects(g, Admit(r)), TRUE)
        ELSE Finish(g, r, RecoveryTarget(t.state, "RetryReadmissionBlocked"), << >>, TRUE)

\* slow_readmit: a waiting task goes first unless the policy says otherwise.
WaitingFirst(t) ==
  /\ \E i \in DOMAIN queues["Waiting"] :
       LET w == tasks[queues["Waiting"][i]]
       IN (w.state = "Waiting" \/ (w.state = "RetryWait" /\ w.retryReady)) /\ Unblocked(w)
  /\ policy.slow = "Back" \/ (policy.slow = "OriginalPosition" /\ t.slowPos # 0)

SlowReadmit(e, readmission) ==
  LET g      == e.gid
      t      == tasks[g]
      admits == ~WaitingFirst(t) /\ SlotFree /\ ~t.desiredPaused /\ ~BlocksAdmission(t)
      r      == [t EXCEPT !.slowReadmission = 0, !.slowReady = TRUE]
  IN /\ Fresh(e, "SlowReadmit")
     /\ readmission # 0 /\ t.slowReadmission = readmission
     /\ IF admits
        THEN /\ CanAdmit(t)
             /\ Finish(g, Admit(r), RecoveryTarget(t.state, "SlowReadmissionSucceeded"),
                       AdmitEffects(g, Admit(r)), TRUE)
        ELSE Finish(g, r, RecoveryTarget(t.state, "SlowReadmissionBlocked"), << >>, TRUE)

\* SchedulerAction::for_no_space_probe_result
ProbeAction(t, ready) ==
  CASE t.state \in {"Waiting", "WaitingSlow", "RetryWait"} ->
         IF ready THEN "WaitingNoSpaceProbeSucceeded" ELSE "WaitingNoSpaceProbeFailed"
    [] t.state = "Paused" /\ ~t.desiredPaused ->
         IF ready THEN "PausedNoSpaceResumeProbeSucceeded" ELSE "PausedNoSpaceResumeProbeFailed"
    [] t.state \in {"Paused", "PausedSlow"} /\ t.desiredPaused ->
         IF ready THEN "PausedNoSpacePausePreservingProbeSucceeded"
         ELSE "PausedNoSpacePausePreservingProbeFailed"
    [] OTHER -> Conflict

\* next: the condition after a failed probe, with or without a next deadline.
NoSpaceProbeCompleted(e, probe, origin, ready, next) ==
  LET g      == e.gid
      t      == tasks[g]
      target == AdmissionTarget(t.state, ProbeAction(t, ready))
      again  == ~ready /\ next = "timed"
      c      == [t EXCEPT !.probe = 0, !.probeOrigin = "none", !.state = target,
                          !.noSpace = IF ready THEN "none" ELSE next]
  IN /\ Fresh(e, "NoSpaceProbeCompleted")
     /\ probe # 0 /\ t.probe = probe /\ t.probeOrigin = origin
     /\ ready \/ t.noSpace # "none"
     /\ again => CanIssue("probe")
     /\ FinishIssuing(g, IF again THEN WithProbe(c) ELSE c, target,
                      <<Effect("PersistConditions", g, t, 0)>> \o
                      When(again, <<Effect("ProbeNoSpace", g, t, ids.probe)>>),
                      TRUE, IF again THEN Issue("probe") ELSE ids)

=============================================================================
