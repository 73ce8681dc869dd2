---------------------------- MODULE SchedulerCommands ----------------------------
(***************************************************************************)
(* The commands of RequestScheduler::execute_command_at: what a user, an   *)
(* RPC client or the engine asks for.  A command that returns an error or  *)
(* an empty outcome changes nothing and is not enabled.  OrderlyShutdown   *)
(* always returns ShutdownBatchRequired here and has no action.            *)
(***************************************************************************)
EXTENDS SchedulerCore

\* Recovered and added tasks start with the queue class of their first state.
\* position = MaxTasks stands for "no position": the end of the queue.
AddValidatedTask(g, id, desiredPaused, credential, noSpace, position) ==
  LET action == IF desiredPaused THEN "ValidationSucceededPaused" ELSE "ValidationSucceeded"
      new    == NewTask(id, desiredPaused, credential, noSpace)
      u      == [new EXCEPT !.state = ControlTarget(new.state, action)]
      class  == QueueClass(u)
      length == Len(queues[class])
      at     == IF position < length THEN position ELSE length
  IN /\ Cardinality(Present) < MaxTasks
     /\ g \notin Present
     /\ id > highestTaskId
     /\ \A c \in QueueClasses : ~InQueue(g, c)
     /\ SnapshotValid(u)
     /\ tasks' = [tasks EXCEPT ![g] = u]
     /\ queues' = [queues EXCEPT ![class] = InsertAt(@, at + 1, g)]
     /\ highestTaskId' = id
     /\ published' = [published EXCEPT ![g] = SnapshotOf(u)]
     /\ effects' = <<Effect("PersistTask", g, u, at), Effect("PublishSnapshot", g, u, 0)>>
     /\ UNCHANGED <<ids, policy>>

-----------------------------------------------------------------------------
(* pause and remove.                                                       *)

\* pause and remove drain a generation that may still have work running.
NeedsDrain(t) ==
  \/ t.state \in WorkingStates \cup {"PausedRestarting"}
  \/ t.barrier.kind = "CancellationDrain"

\* Mutant: the deferred pause replaces a deferred remove.
PauseOvertakesRemove(g, force) ==
  LET t == tasks[g]
      u == [CancelTimers(t) EXCEPT
              !.desiredPaused = TRUE,
              !.userControl = IF t.barrier.kind = "HostKeyResolution" THEN @
                              ELSE IF force THEN "ForcePause" ELSE "Pause"]
  IN /\ DefersUserControl(t)
     /\ Finish(g, u, ControlTarget(t.state, "PauseDeferred"), TimerEffects(g, t), TRUE)

\* A pause behind a persistence barrier is remembered; behind a host-key
\* resolution the desired state alone decides where the task lands.
PauseDeferred(g, force) ==
  LET t       == tasks[g]
      forced  == force \/ t.userControl = "ForcePause"
      control == IF forced THEN "ForcePause" ELSE "Pause"
      u       == [CancelTimers(t) EXCEPT
                    !.desiredPaused = TRUE,
                    !.userControl = IF t.barrier.kind = "HostKeyResolution" THEN @ ELSE control]
  IN /\ DefersUserControl(t)
     /\ t.userControl \notin {"Remove", "ForceRemove"}
     /\ Finish(g, u, ControlTarget(t.state, "PauseDeferred"), TimerEffects(g, t), TRUE)

Pause(g, force) ==
  LET t      == tasks[g]
      target == ControlTarget(t.state, "Pause")
      c      == [CancelTimers(t) EXCEPT !.desiredPaused = TRUE]
      u      == IF NeedsDrain(t) THEN BeginCancellation(c, "Paused", force)
                ELSE IF t.state = "RetryWait" THEN ReleaseSlot(c)
                ELSE c
      effs   == IF NeedsDrain(t) THEN CancelEffects(g, t, force)
                ELSE When(t.state = "RetryWait", ReleaseEffects(g, t))
  IN /\ ~DefersUserControl(t)
     /\ IF NeedsDrain(t) THEN CanCancel(t)
        ELSE t.state # "RetryWait" => t.barrier.kind = "None"
     /\ Finish(g, [u EXCEPT !.state = target], target, TimerEffects(g, t) \o effs, TRUE)

RemoveDeferred(g, force) ==
  LET t == tasks[g]
      u == [CancelTimers(t) EXCEPT
              !.probe = 0, !.probeOrigin = "none",
              !.userControl = IF force \/ @ = "ForceRemove" THEN "ForceRemove" ELSE "Remove"]
  IN /\ DefersUserControl(t)
     /\ Finish(g, u, ControlTarget(t.state, "RemoveDeferred"), TimerEffects(g, t), FALSE)

RemoveTask(g, force) ==
  LET t      == tasks[g]
      target == ControlTarget(t.state, "Remove")
      c      == [Discard(t) EXCEPT !.state = target]
      u      == IF NeedsDrain(t) THEN BeginCancellation(c, "Removed", force)
                ELSE BeginTerminal(ReleaseSlot(c), "removed", FALSE)
      effs   == IF NeedsDrain(t) THEN CancelEffects(g, t, force) ELSE ReleaseEffects(g, t)
  IN /\ ~DefersUserControl(t)
     /\ IF NeedsDrain(t) THEN CanCancel(t) ELSE t.barrier.kind = "None"
     /\ Finish(g, u, target, TimerEffects(g, t) \o RejectEffects(g, t) \o effs, FALSE)

-----------------------------------------------------------------------------
(* resume.                                                                 *)

\* resume drops the slow-readmission timer and its metadata, not the retry one.
DropSlowWait(t) ==
  [t EXCEPT !.slowReadmission = 0, !.slowReady = FALSE, !.slowSlot = FALSE,
            !.slowCount = IF t.state \in {"WaitingSlow", "PausedSlow"} THEN 0 ELSE @]

\* Mutant: the resume of a task that is not parked is remembered as well.
ResumeAlwaysDeferred(g) ==
  LET t == tasks[g]
      u == [DropSlowWait(t) EXCEPT !.desiredPaused = FALSE, !.userControl = "Resume"]
  IN /\ DefersUserControl(t)
     /\ ~t.sourceReplacement
     /\ t.userControl \notin {"Remove", "ForceRemove"}
     /\ t.desiredPaused \/ t.userControl \in {"Pause", "ForcePause"}
     /\ Finish(g, u, ControlTarget(t.state, "ResumeDeferred"), SlowTimerEffects(g, t), TRUE)

ResumeDeferred(g) ==
  LET t       == tasks[g]
      parked  == t.state \in {"Paused", "PausedSlow"}
      control == IF t.barrier.kind # "HostKeyResolution" /\ parked THEN "Resume" ELSE "None"
      u       == [DropSlowWait(t) EXCEPT !.desiredPaused = FALSE, !.userControl = control]
  IN /\ DefersUserControl(t)
     /\ ~t.sourceReplacement
     /\ t.userControl \notin {"Remove", "ForceRemove"}
     /\ t.desiredPaused \/ t.userControl \in {"Pause", "ForcePause"}
     /\ Finish(g, u, ControlTarget(t.state, "ResumeDeferred"), SlowTimerEffects(g, t), TRUE)

\* SchedulerAction::for_resume
ResumeNeedsProbe(t) == t.noSpace # "none" /\ t.state \in ConditionStates

Resume(g) ==
  LET t      == tasks[g]
      target == ControlTarget(t.state, "Resume")
      u      == [DropSlowWait(t) EXCEPT !.desiredPaused = FALSE, !.state = target]
  IN /\ ~t.sourceReplacement
     /\ t.barrier.kind = "None"
     /\ ~ResumeNeedsProbe(t)
     /\ Finish(g, u, target, SlowTimerEffects(g, t), TRUE)

\* A resume of a task that ran out of disk space first asks for a probe, or
\* keeps the one that is running.
ResumeProbe(g) ==
  LET t      == tasks[g]
      slow   == t.state \in {"WaitingSlow", "PausedSlow"}
      target == AdmissionTarget(t.state, "ExplicitNoSpaceProbeRequested")
      s      == IF slow THEN [DropSlowWait(t) EXCEPT !.pendingSlow = FALSE] ELSE t
      r      == [s EXCEPT !.desiredPaused = FALSE, !.state = target]
      fresh  == t.probe = 0
      u      == IF fresh THEN [r EXCEPT !.probe = ids.probe, !.probeOrigin = "ExplicitResume"] ELSE r
      effs   == When(slow, SlowTimerEffects(g, t)) \o
                When(fresh, <<Effect("ProbeNoSpace", g, t, ids.probe)>>)
  IN /\ ~t.sourceReplacement
     /\ t.barrier.kind = "None"
     /\ ResumeNeedsProbe(t)
     /\ fresh \/ t.desiredPaused \/ slow
     /\ fresh => CanIssue("probe")
     /\ Commit(g, u, target, effs, TRUE, TRUE, IF fresh THEN Issue("probe") ELSE ids, tasks)

-----------------------------------------------------------------------------
(* Host keys, sources and options.                                         *)

\* challenge: the identity and fingerprint the user confirmed.
ApproveHostKey(g, challenge) ==
  LET t == tasks[g]
      u == [t EXCEPT !.barrier = [AckBarrier("HostKeyResolution", t.generation, ids.resolution)
                                    EXCEPT !.challenge = challenge]]
  IN /\ t.barrier.kind = "None"
     /\ t.challenge # 0 /\ t.challenge = challenge
     /\ CanIssue("resolution")
     /\ FinishIssuing(g, u, RecoveryTarget(t.state, "ApproveHostKey"),
                      <<Effect("PersistHostKeyPin", g, t, ids.resolution)>>,
                      FALSE, Issue("resolution"))

BeginSourceReplacement(g) ==
  LET t      == tasks[g]
      target == WorkTarget(t.state, "SourceReplacementRequested")
      c      == [CancelTimers(t) EXCEPT !.state = target, !.sourceReplacement = TRUE]
      u      == IF OwnsSlot(t) THEN BeginCancellation(c, "PausedRestarting", FALSE) ELSE c
  IN /\ t.barrier.kind = "None"
     /\ ~t.sourceReplacement /\ t.patch = 0
     /\ Finish(g, u, target,
               TimerEffects(g, t) \o When(OwnsSlot(t), CancelEffects(g, t, FALSE)), TRUE)

\* satisfies: the new sources carry the credentials the task waits for.
CommitSourceReplacement(g, satisfies) ==
  LET t      == tasks[g]
      target == WorkTarget(t.state, "SourceReplacementCommitted")
      u      == [t EXCEPT !.state = target, !.sourceReplacement = FALSE,
                          !.credential = IF satisfies THEN "none" ELSE @]
  IN /\ t.barrier.kind = "None"
     /\ satisfies => t.credential = "source"
     /\ t.sourceReplacement /\ ~OwnsSlot(t)
     /\ QueueClass(u) = QueueClass(t)
     /\ Finish(g, u, target, <<Effect("PersistQueueTransition", g, t, 0)>>, TRUE)

\* The checks apply_option_patch makes for every kind of patch.
PatchAccepted(t, patch, credential) ==
  /\ t.barrier.kind = "None"
  /\ ~t.sourceReplacement
  /\ patch > t.highestPatch
  /\ credential # "none" => t.credential = credential

Patched(t, patch, mode, credential) ==
  [t EXCEPT !.highestPatch = patch, !.patch = patch, !.patchMode = mode,
            !.patchCredential = credential]

\* An in-place patch, or a restarting patch of a task with nothing to restart.
ApplyOptionPatch(g, patch, kind, credential) ==
  LET t == tasks[g]
      u == [Patched(t, patch, "InPlace", credential)
              EXCEPT !.barrier = AckBarrier("OptionPatchApplication", t.generation, patch)]
  IN /\ kind = "InPlace" \/ t.state \notin {"Allocating", "Active", "Verifying"}
     /\ PatchAccepted(t, patch, credential)
     /\ Finish(g, u, AdmissionTarget(t.state, "InPlaceOptionPatchAccepted"),
               <<Effect("ApplyOptionPatch", g, t, patch)>>, FALSE)

ApplyRestartPatch(g, patch, credential) ==
  LET t == tasks[g]
      u == [Patched(t, patch, "ActiveRestart", credential)
              EXCEPT !.barrier = AckBarrier("OptionPatchPersistence", t.generation, patch)]
  IN /\ PatchAccepted(t, patch, credential)
     /\ Finish(g, u, WorkTarget(t.state, "ActiveRestartOptionPatchAccepted"),
               <<Effect("StageOptionPatch", g, t, patch)>>, FALSE)

ApplyHostKeyPatch(g, patch, challenge) ==
  LET t == tasks[g]
      u == [Patched(t, patch, "MatchingHostKey", t.patchCredential)
              EXCEPT !.barrier = [AckBarrier("HostKeyResolution", t.generation, ids.resolution)
                                    EXCEPT !.challenge = challenge]]
  IN /\ PatchAccepted(t, patch, "none")
     /\ t.challenge # 0 /\ t.challenge = challenge
     /\ CanIssue("resolution")
     /\ FinishIssuing(g, u, RecoveryTarget(t.state, "ApplyMatchingHostKeyOption"),
                      <<Effect("PersistHostKeyPin", g, t, ids.resolution)>>,
                      FALSE, Issue("resolution"))

-----------------------------------------------------------------------------
(* Stopped results, queue order and policies.                              *)

RemoveStoppedResult(g) ==
  LET t == tasks[g]
      u == [t EXCEPT !.barrier = AckBarrier("StoppedResultDeletion", t.generation, ids.deletion)]
  IN /\ t.barrier.kind = "None"
     /\ ~DeletionPending
     /\ CanIssue("deletion")
     /\ FinishIssuing(g, u, OutcomeTarget(t.state, "RemoveStoppedResult"),
                      <<Effect("DeleteStoppedTaskMetadata", g, t, ids.deletion)>>,
                      FALSE, Issue("deletion"))

\* position counts from 0, as in the code.
ChangePosition(g, position) ==
  LET t     == tasks[g]
      class == QueueClass(t)
      old   == Position(g, class)
  IN /\ g \in Present
     /\ t.barrier.kind = "None"
     /\ class # "None"
     /\ class = "Stopped" => ~DeletionPending
     /\ position < Len(queues[class])
     /\ InQueue(g, class)
     /\ old # position + 1
     /\ queues' = [queues EXCEPT ![class] = InsertAt(RemoveAt(@, old), position + 1, g)]
     /\ effects' = <<Effect("PersistQueueTransition", g, t, 0)>>
     /\ UNCHANGED <<tasks, highestTaskId, ids, policy, published>>

ConfigureQueuePolicies(p) ==
  /\ policy' = p
  /\ effects' = << >>
  /\ UNCHANGED <<tasks, queues, highestTaskId, ids, published>>

=============================================================================
