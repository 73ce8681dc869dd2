-------------------------- MODULE SchedulerDecisions_proofs --------------------------
(***************************************************************************)
(* Theorems about what the scheduler decides, for every set of GIDs, every *)
(* bound and every selection of inputs: a task is in exactly the queue of  *)
(* its state and clients see the state it is in, nothing works that is     *)
(* held back, no decision is reverted or downgraded, the order of stopped  *)
(* results stands still while one is being deleted, and no two outstanding *)
(* timers or probes have one identity.                                     *)
(*                                                                         *)
(* Every handler but four ends with finish_action, which commits one task. *)
(* So the argument has two halves: a lemma per handler says what the task  *)
(* it commits may look like (Handled), and one lemma says that committing  *)
(* such a task preserves the invariant and keeps the decisions.            *)
(***************************************************************************)
EXTENDS RequestScheduler_proofs

-----------------------------------------------------------------------------
(* What holds of one task, and what one step may do to it.                 *)

\* The names of a task's fields.
FieldNames ==
  {"id", "state", "generation", "started", "desiredPaused", "credential", "noSpace", "slot",
   "barrier", "retryTimer", "retryReady", "slowReadmission", "slowReady", "pendingSlow",
   "slowCount", "slowSlot", "slowPos", "probe", "probeOrigin", "patch", "patchMode",
   "patchCredential", "highestPatch", "userControl", "sourceReplacement", "challenge", "error",
   "stoppedStatus", "terminalPersisted", "seen"}

\* A request is deferred only behind a barrier that defers requests, and behind
\* a host-key resolution only a remove is; an undecided outcome waits for its
\* drain or its record, and a record names the outcome it is of; nothing that
\* is held back works.
TaskInv(t) ==
  /\ (t.state = "Absent") <=> (t.id = 0)
  /\ t.userControl # "None" => DefersUserControl(t)
  /\ t.barrier.kind = "HostKeyResolution" =>
       t.state = "PausedHostKey" /\ t.userControl \in {"None", "Remove", "ForceRemove"}
  /\ t.state \in TerminalPending => t.barrier.kind \in {"CancellationDrain", "TerminalPersistence"}
  /\ t.barrier.kind = "TerminalPersistence" =>
       \/ t.state = "Complete" /\ t.barrier.status = "complete"
       \/ t.state = "Error" /\ t.barrier.status = "error"
       \/ t.state = "Removed" /\ t.barrier.status = "removed"
  /\ t.sourceReplacement =>
       t.state \in {"Waiting", "Paused", "PausedRestarting", "StoppedResult"} \cup TerminalPending
  /\ BlocksAdmission(t) => t.state \notin WorkingStates
  /\ t.desiredPaused /\ t.state \in WorkingStates =>
       t.userControl \in {"Pause", "ForcePause", "Remove", "ForceRemove"}

\* No decision about t is reverted or downgraded when it becomes u.
Decided(t, u) ==
  /\ RemoveAccepted(t) => RemoveAccepted(u)
  /\ Finished(t) => \/ u.state = t.state
                    \/ u.state = "StoppedResult" /\ u.terminalPersisted
  /\ t.state = "PausedHostKey" /\ u.state # "PausedHostKey" =>
       \/ u.state = "Removed"
       \/ /\ t.barrier.kind = "HostKeyResolution"
          /\ t.barrier.challenge = t.challenge
          /\ u.state = (IF t.desiredPaused THEN "Paused" ELSE "Waiting")
  /\ ForcedDrain(t) /\ u.barrier.kind = "CancellationDrain" => ForcedDrain(u)
  /\ t.userControl = "ForceRemove" =>
       \/ u.userControl = "ForceRemove"
       \/ ForcedDrain(u)
       \/ u.barrier.kind = "TerminalPersistence"

\* A change of state or generation is published, unless an outcome is pending.
Shown(t, u, publish) ==
  publish \/ u.state \in TerminalPending \/ (u.state = t.state /\ u.generation = t.generation)

\* A timer is kept, dropped, or the identity next_id issues now.
Renewed(old, new, issued, next) ==
  \/ new \in {0, old} /\ next \in {issued, issued + 1}
  \/ new = issued /\ next = issued + 1

\* The task that a handler commits for g.
Handled(g, u, publish, newIds) ==
  LET t == tasks[g]
  IN /\ TaskInv(u)
     /\ Decided(t, u)
     /\ Shown(t, u, publish)
     /\ u.id = t.id
     /\ u.barrier.kind = "StoppedResultDeletion" =>
          t.barrier.kind = "StoppedResultDeletion" \/ ~DeletionPending
     /\ Renewed(t.retryTimer, u.retryTimer, ids.retry, newIds.retry)
     /\ Renewed(t.slowReadmission, u.slowReadmission, ids.slow, newIds.slow)
     /\ Renewed(t.probe, u.probe, ids.probe, newIds.probe)

\* A handler commits such a task; admission also advances the demoted ones.
HandlerStep(g) ==
  \E u, target, effs, queueFirst, publish, newIds, rest :
    /\ Commit(g, u, target, effs, queueFirst, publish, newIds, rest)
    /\ Handled(g, u, publish, newIds)
    /\ rest \in {tasks, AdvanceDemoted}

\* What a handler may rely on.
Known(g) == StateOK /\ g \in Gid /\ TaskInv(tasks[g])

\* A task is a record of these fields.
LEMMA TaskDomain ==
  ASSUME NEW t \in Tasks
  PROVE  DOMAIN t = FieldNames
  BY DEF Tasks, FieldNames

\* A known task is a task, and the counters are numbers.
LEMMA KnownTask ==
  ASSUME NEW g, Known(g)
  PROVE  /\ tasks[g] \in Tasks
         /\ DOMAIN tasks[g] = FieldNames
         /\ DOMAIN ids = IdKinds
         /\ ids.retry \in Nat /\ ids.slow \in Nat /\ ids.probe \in Nat
  <1>1. tasks[g] \in Tasks BY DEF Known, StateOK
  <1> QED BY <1>1, TaskDomain, BoundsAssumption DEF Known, StateOK, IdKinds

\* Counters that are not advanced renew no timer.
LEMMA FinishHandled ==
  ASSUME NEW g, NEW u, NEW target, NEW effs, NEW publish,
         Finish(g, u, target, effs, publish), Handled(g, u, publish, ids)
  PROVE  HandlerStep(g)
  BY DEF HandlerStep, Finish

\* The same for a handler that issues identities.
LEMMA IssuingHandled ==
  ASSUME NEW g, NEW u, NEW target, NEW effs, NEW publish, NEW newIds,
         FinishIssuing(g, u, target, effs, publish, newIds), Handled(g, u, publish, newIds)
  PROVE  HandlerStep(g)
  BY DEF HandlerStep, FinishIssuing

\* finish_action commits no task the matrix rejects, and none of an unknown GID.
LEMMA CommitAccepts ==
  ASSUME NEW g, NEW u, NEW target, NEW effs, NEW queueFirst, NEW publish, NEW newIds, NEW rest,
         Commit(g, u, target, effs, queueFirst, publish, newIds, rest)
  PROVE  target # Conflict /\ u.state = target /\ tasks[g].state # "Absent"
  BY DEF Commit, Acceptable

\* The same of a handler that issues no identity.
LEMMA FinishAccepts ==
  ASSUME NEW g, NEW u, NEW target, NEW effs, NEW publish, Finish(g, u, target, effs, publish)
  PROVE  target # Conflict /\ u.state = target /\ tasks[g].state # "Absent"
  BY CommitAccepts DEF Finish

\* The same of one that does.
LEMMA IssuingAccepts ==
  ASSUME NEW g, NEW u, NEW target, NEW effs, NEW publish, NEW newIds,
         FinishIssuing(g, u, target, effs, publish, newIds)
  PROVE  target # Conflict /\ u.state = target /\ tasks[g].state # "Absent"
  BY CommitAccepts DEF FinishIssuing

-----------------------------------------------------------------------------
(* Commands.                                                               *)

\* pause
LEMMA PauseHandled ==
  ASSUME NEW g, Known(g), NEW force \in BOOLEAN, Pause(g, force)
  PROVE  HandlerStep(g)
  <1> DEFINE t      == tasks[g]
             target == ControlTarget(t.state, "Pause")
             c      == [CancelTimers(t) EXCEPT !.desiredPaused = TRUE]
             d      == IF NeedsDrain(t) THEN BeginCancellation(c, "Paused", force)
                       ELSE IF t.state = "RetryWait" THEN ReleaseSlot(c) ELSE c
             u      == [d EXCEPT !.state = target]
  <1>1. \E effs : Finish(g, u, target, effs, TRUE) BY DEF Pause
  <1>2. /\ ~DefersUserControl(t)
        /\ IF NeedsDrain(t) THEN CanCancel(t) ELSE t.state # "RetryWait" => t.barrier.kind = "None"
    BY DEF Pause
  <1>3. /\ t.state \in LiveStates
        /\ target = IF t.state \in ParkedStates THEN t.state ELSE "Paused"
    BY <1>1, FinishAccepts
       DEF ControlTarget, PauseRow, Either, Stay, Move, Conflict, ParkedStates, LiveStates
  <1> HIDE DEF target
  <1>4. /\ u.id = t.id /\ u.state = target /\ u.desiredPaused = TRUE
        /\ u.userControl = t.userControl /\ u.sourceReplacement = t.sourceReplacement
        /\ u.retryTimer = 0 /\ u.slowReadmission = 0 /\ u.probe = t.probe
        /\ \/ /\ NeedsDrain(t) /\ u.barrier.kind = "CancellationDrain"
              /\ u.barrier.force = (force \/ ForcedDrain(t))
           \/ ~NeedsDrain(t) /\ u.barrier = t.barrier
    BY KnownTask DEF CancelTimers, BeginCancellation, ReleaseSlot, FieldNames, NoBarrier, ForcedDrain
  <1> HIDE DEF u
  <1>5. Handled(g, u, TRUE, ids)
    BY <1>2, <1>3, <1>4 DEF Known, Handled, TaskInv, Decided, Shown, Renewed, RemoveAccepted,
       Finished, ForcedDrain, NeedsDrain, TerminalPending, WorkingStates, ParkedStates, LiveStates,
       DefersUserControl, BlocksAdmission, CanCancel
  <1> QED BY <1>1, <1>5, FinishHandled

\* pause behind a barrier that defers it
LEMMA PauseDeferredHandled ==
  ASSUME NEW g, Known(g), NEW force \in BOOLEAN, PauseDeferred(g, force)
  PROVE  HandlerStep(g)
  <1> DEFINE t       == tasks[g]
             target  == ControlTarget(t.state, "PauseDeferred")
             control == IF force \/ t.userControl = "ForcePause" THEN "ForcePause" ELSE "Pause"
             u       == [CancelTimers(t) EXCEPT
                           !.desiredPaused = TRUE,
                           !.userControl = IF t.barrier.kind = "HostKeyResolution" THEN @ ELSE control]
  <1>1. \E effs : Finish(g, u, target, effs, TRUE) BY DEF PauseDeferred
  <1>2. DefersUserControl(t) /\ t.userControl \notin {"Remove", "ForceRemove"} BY DEF PauseDeferred
  <1>3. t.state \in LiveStates /\ target = t.state BY <1>1, FinishAccepts DEF ControlTarget, Stay, Conflict
  <1>4. control \in {"Pause", "ForcePause"} OBVIOUS
  <1> HIDE DEF target, control
  <1>5. /\ u.id = t.id /\ u.state = t.state /\ u.desiredPaused = TRUE /\ u.barrier = t.barrier
        /\ u.userControl = IF t.barrier.kind = "HostKeyResolution" THEN t.userControl ELSE control
        /\ u.sourceReplacement = t.sourceReplacement
        /\ u.credential = t.credential /\ u.noSpace = t.noSpace
        /\ u.retryTimer = 0 /\ u.slowReadmission = 0 /\ u.probe = t.probe
    BY KnownTask DEF CancelTimers, FieldNames
  <1> HIDE DEF u
  <1>6. Handled(g, u, TRUE, ids)
    BY <1>2, <1>3, <1>4, <1>5 DEF Known, Handled, TaskInv, Decided, Shown, Renewed, RemoveAccepted,
       Finished, ForcedDrain, TerminalPending, WorkingStates, ParkedStates, LiveStates,
       DefersUserControl, BlocksAdmission
  <1> QED BY <1>1, <1>6, FinishHandled

\* remove behind a barrier that defers it
LEMMA RemoveDeferredHandled ==
  ASSUME NEW g, Known(g), NEW force \in BOOLEAN, RemoveDeferred(g, force)
  PROVE  HandlerStep(g)
  <1> DEFINE t      == tasks[g]
             target == ControlTarget(t.state, "RemoveDeferred")
             u      == [CancelTimers(t) EXCEPT
                          !.probe = 0, !.probeOrigin = "none",
                          !.userControl = IF force \/ @ = "ForceRemove" THEN "ForceRemove" ELSE "Remove"]
  <1>1. \E effs : Finish(g, u, target, effs, FALSE) BY DEF RemoveDeferred
  <1>2. DefersUserControl(t) BY DEF RemoveDeferred
  <1>3. t.state \in LiveStates /\ target = t.state BY <1>1, FinishAccepts DEF ControlTarget, Stay, Conflict
  <1> HIDE DEF target
  <1>4. /\ u.id = t.id /\ u.state = t.state /\ u.generation = t.generation /\ u.barrier = t.barrier
        /\ u.userControl = IF force \/ t.userControl = "ForceRemove" THEN "ForceRemove" ELSE "Remove"
        /\ u.sourceReplacement = t.sourceReplacement /\ u.desiredPaused = t.desiredPaused
        /\ u.credential = t.credential /\ u.noSpace = t.noSpace
        /\ u.retryTimer = 0 /\ u.slowReadmission = 0 /\ u.probe = 0
    BY KnownTask DEF CancelTimers, FieldNames
  <1> HIDE DEF u
  <1>5. Handled(g, u, FALSE, ids)
    BY <1>2, <1>3, <1>4 DEF Known, Handled, TaskInv, Decided, Shown, Renewed, RemoveAccepted,
       Finished, ForcedDrain, TerminalPending, WorkingStates, ParkedStates, LiveStates,
       DefersUserControl, BlocksAdmission
  <1> QED BY <1>1, <1>5, FinishHandled

\* remove
LEMMA RemoveHandled ==
  ASSUME NEW g, Known(g), NEW force \in BOOLEAN, RemoveTask(g, force)
  PROVE  HandlerStep(g)
  <1> DEFINE t      == tasks[g]
             target == ControlTarget(t.state, "Remove")
             c      == [Discard(t) EXCEPT !.state = target]
             u      == IF NeedsDrain(t) THEN BeginCancellation(c, "Removed", force)
                       ELSE BeginTerminal(ReleaseSlot(c), "removed", FALSE)
  <1>1. \E effs : Finish(g, u, target, effs, FALSE) BY DEF RemoveTask
  <1>2. ~DefersUserControl(t) BY DEF RemoveTask
  <1>3. t.state \in LiveStates /\ target = "Removed" BY <1>1, FinishAccepts DEF ControlTarget, Move, Conflict
  <1> HIDE DEF target
  <1>4. /\ c.id = t.id /\ c.state = target /\ c.userControl = "None" /\ c.barrier = t.barrier
        /\ c.retryTimer = 0 /\ c.slowReadmission = 0 /\ c.probe = 0 /\ DOMAIN c = FieldNames
    BY KnownTask DEF Discard, CancelTimers, FieldNames
  <1> HIDE DEF c
  <1>5. /\ u.id = t.id /\ u.state = target /\ u.userControl = "None"
        /\ u.retryTimer = 0 /\ u.slowReadmission = 0 /\ u.probe = 0
        /\ \/ /\ u.barrier.kind = "CancellationDrain"
              /\ u.barrier.force = (force \/ ForcedDrain(t))
           \/ u.barrier.kind = "TerminalPersistence" /\ u.barrier.status = "removed"
    BY <1>4 DEF BeginCancellation, BeginTerminal, ReleaseSlot, FieldNames, NoBarrier, ForcedDrain
  <1> HIDE DEF u
  <1>6. Handled(g, u, FALSE, ids)
    BY <1>2, <1>3, <1>5 DEF Known, Handled, TaskInv, Decided, Shown, Renewed, RemoveAccepted,
       Finished, ForcedDrain, TerminalPending, WorkingStates, ParkedStates, LiveStates,
       DefersUserControl, BlocksAdmission
  <1> QED BY <1>1, <1>6, FinishHandled

\* resume behind a barrier that defers it
LEMMA ResumeDeferredHandled ==
  ASSUME NEW g, Known(g), ResumeDeferred(g)
  PROVE  HandlerStep(g)
  <1> DEFINE t       == tasks[g]
             target  == ControlTarget(t.state, "ResumeDeferred")
             control == IF t.barrier.kind # "HostKeyResolution" /\ t.state \in {"Paused", "PausedSlow"}
                        THEN "Resume" ELSE "None"
             u       == [DropSlowWait(t) EXCEPT !.desiredPaused = FALSE, !.userControl = control]
  <1>1. \E effs : Finish(g, u, target, effs, TRUE) BY DEF ResumeDeferred
  <1>2. DefersUserControl(t) /\ t.userControl \notin {"Remove", "ForceRemove"} BY DEF ResumeDeferred
  <1>3. t.state \in LiveStates /\ target = t.state BY <1>1, FinishAccepts DEF ControlTarget, Stay, Conflict
  <1>4. control = "None" \/ (control = "Resume" /\ t.barrier.kind # "HostKeyResolution") OBVIOUS
  <1> HIDE DEF target, control
  <1>5. /\ u.id = t.id /\ u.state = t.state /\ u.desiredPaused = FALSE /\ u.barrier = t.barrier
        /\ u.userControl = control /\ u.sourceReplacement = t.sourceReplacement
        /\ u.credential = t.credential /\ u.noSpace = t.noSpace
        /\ u.retryTimer = t.retryTimer /\ u.slowReadmission = 0 /\ u.probe = t.probe
    BY KnownTask DEF DropSlowWait, FieldNames
  <1> HIDE DEF u
  <1>6. Handled(g, u, TRUE, ids)
    BY <1>2, <1>3, <1>4, <1>5 DEF Known, Handled, TaskInv, Decided, Shown, Renewed, RemoveAccepted,
       Finished, ForcedDrain, TerminalPending, WorkingStates, ParkedStates, LiveStates,
       DefersUserControl, BlocksAdmission
  <1> QED BY <1>1, <1>6, FinishHandled

\* resume
LEMMA ResumeHandled ==
  ASSUME NEW g, Known(g), Resume(g)
  PROVE  HandlerStep(g)
  <1> DEFINE t      == tasks[g]
             target == ControlTarget(t.state, "Resume")
             u      == [DropSlowWait(t) EXCEPT !.desiredPaused = FALSE, !.state = target]
  <1>1. \E effs : Finish(g, u, target, effs, TRUE) BY DEF Resume
  <1>2. t.barrier.kind = "None" /\ ~t.sourceReplacement BY DEF Resume
  <1>3. t.state \in {"WaitingSlow", "Paused", "PausedSlow"} /\ target = "Waiting"
    BY <1>1, FinishAccepts DEF ControlTarget, Move, Conflict
  <1> HIDE DEF target
  <1>4. /\ u.id = t.id /\ u.state = target /\ u.desiredPaused = FALSE /\ u.barrier = t.barrier
        /\ u.userControl = t.userControl /\ u.sourceReplacement = t.sourceReplacement
        /\ u.retryTimer = t.retryTimer /\ u.slowReadmission = 0 /\ u.probe = t.probe
    BY KnownTask DEF DropSlowWait, FieldNames
  <1> HIDE DEF u
  <1>5. Handled(g, u, TRUE, ids)
    BY <1>2, <1>3, <1>4 DEF Known, Handled, TaskInv, Decided, Shown, Renewed, RemoveAccepted,
       Finished, ForcedDrain, TerminalPending, WorkingStates, DefersUserControl, BlocksAdmission
  <1> QED BY <1>1, <1>5, FinishHandled

\* resume of a task that ran out of disk space
LEMMA ResumeProbeHandled ==
  ASSUME NEW g, Known(g), ResumeProbe(g)
  PROVE  HandlerStep(g)
  <1> DEFINE t      == tasks[g]
             slow   == t.state \in {"WaitingSlow", "PausedSlow"}
             target == AdmissionTarget(t.state, "ExplicitNoSpaceProbeRequested")
             s      == IF slow THEN [DropSlowWait(t) EXCEPT !.pendingSlow = FALSE] ELSE t
             r      == [s EXCEPT !.desiredPaused = FALSE, !.state = target]
             fresh  == t.probe = 0
             u      == IF fresh THEN [r EXCEPT !.probe = ids.probe, !.probeOrigin = "ExplicitResume"]
                       ELSE r
             newIds == IF fresh THEN Issue("probe") ELSE ids
  <1>1. \E effs : Commit(g, u, target, effs, TRUE, TRUE, newIds, tasks) BY DEF ResumeProbe
  <1>2. t.barrier.kind = "None" /\ ~t.sourceReplacement BY DEF ResumeProbe
  <1>3. /\ t.state \in {"Waiting", "RetryWait", "Paused", "WaitingSlow", "PausedSlow"}
        /\ target \in {"Waiting", "RetryWait", "Paused"}
    BY <1>1, CommitAccepts DEF AdmissionTarget, Either, Stay, Move, Conflict
  <1> HIDE DEF target
  <1>4. /\ s.id = t.id /\ s.barrier = t.barrier /\ s.userControl = t.userControl
        /\ s.sourceReplacement = t.sourceReplacement
        /\ s.retryTimer = t.retryTimer /\ s.slowReadmission \in {0, t.slowReadmission}
        /\ s.probe = t.probe /\ DOMAIN s = FieldNames
    BY KnownTask DEF DropSlowWait, FieldNames
  <1> HIDE DEF s
  <1>5. /\ u.id = t.id /\ u.barrier = t.barrier /\ u.userControl = t.userControl
        /\ u.sourceReplacement = t.sourceReplacement /\ u.state = target
        /\ u.retryTimer = t.retryTimer /\ u.slowReadmission \in {0, t.slowReadmission}
        /\ u.probe = IF fresh THEN ids.probe ELSE t.probe
    BY <1>4 DEF FieldNames
  <1>6. /\ newIds.retry = ids.retry /\ newIds.slow = ids.slow
        /\ newIds.probe = IF fresh THEN ids.probe + 1 ELSE ids.probe
    BY KnownTask DEF Issue, IdKinds
  <1> HIDE DEF u, newIds
  <1>7. Handled(g, u, TRUE, newIds)
    BY <1>2, <1>3, <1>5, <1>6 DEF Known, Handled, TaskInv, Decided, Shown, Renewed, RemoveAccepted,
       Finished, ForcedDrain, TerminalPending, WorkingStates, DefersUserControl, BlocksAdmission
  <1> QED BY <1>1, <1>7 DEF HandlerStep

\* A barrier that waits for an acknowledgement replaces none, on a task that
\* is neither finished nor deferring a request.
LEMMA BarrierHandled ==
  ASSUME NEW g, Known(g), tasks[g].barrier.kind = "None", tasks[g].state # "Absent",
         NEW u, NEW newIds,
         u.id = tasks[g].id, u.state = tasks[g].state, u.generation = tasks[g].generation,
         u.desiredPaused = tasks[g].desiredPaused, u.userControl = tasks[g].userControl,
         u.sourceReplacement = tasks[g].sourceReplacement, u.credential = tasks[g].credential,
         u.noSpace = tasks[g].noSpace, u.stoppedStatus = tasks[g].stoppedStatus,
         u.retryTimer = tasks[g].retryTimer, u.slowReadmission = tasks[g].slowReadmission,
         u.probe = tasks[g].probe,
         u.barrier.kind \in {"OptionPatchPersistence", "OptionPatchApplication", "HostKeyResolution",
                             "StoppedResultDeletion"},
         u.barrier.kind = "HostKeyResolution" => u.state = "PausedHostKey",
         u.barrier.kind = "StoppedResultDeletion" => ~DeletionPending,
         newIds.retry = ids.retry, newIds.slow = ids.slow, newIds.probe = ids.probe
  PROVE  Handled(g, u, FALSE, newIds)
  BY DEF Known, Handled, TaskInv, Decided, Shown, Renewed, RemoveAccepted, Finished, ForcedDrain,
     TerminalPending, WorkingStates, DefersUserControl, BlocksAdmission

\* approve_host_key
LEMMA ApproveHostKeyHandled ==
  ASSUME NEW g, Known(g), ApproveHostKey(g, tasks[g].challenge)
  PROVE  HandlerStep(g)
  <1> DEFINE t      == tasks[g]
             target == RecoveryTarget(t.state, "ApproveHostKey")
             b      == [AckBarrier("HostKeyResolution", t.generation, ids.resolution)
                          EXCEPT !.challenge = t.challenge]
             u      == [t EXCEPT !.barrier = b]
             newIds == Issue("resolution")
  <1>1. \E effs : FinishIssuing(g, u, target, effs, FALSE, newIds) BY DEF ApproveHostKey
  <1>2. t.barrier.kind = "None" BY DEF ApproveHostKey
  <1>3. t.state = "PausedHostKey" BY <1>1, IssuingAccepts DEF RecoveryTarget, Stay, Conflict
  <1>4. b.kind = "HostKeyResolution" BY DEF AckBarrier, NoBarrier
  <1>5. newIds.retry = ids.retry /\ newIds.slow = ids.slow /\ newIds.probe = ids.probe
    BY KnownTask DEF Issue, IdKinds
  <1> HIDE DEF b, newIds, target
  <1>6. Handled(g, u, FALSE, newIds) BY <1>2, <1>3, <1>4, <1>5, KnownTask, BarrierHandled DEF FieldNames
  <1> QED BY <1>1, <1>6, IssuingHandled

\* apply_option_patch, to be applied in place or to restart the task
LEMMA ApplyOptionPatchHandled ==
  ASSUME NEW g, Known(g), NEW patch, NEW kind, NEW credential,
         ApplyOptionPatch(g, patch, kind, credential) \/ ApplyRestartPatch(g, patch, credential)
  PROVE  HandlerStep(g)
  <1> DEFINE t  == tasks[g]
             b1 == AckBarrier("OptionPatchApplication", t.generation, patch)
             b2 == AckBarrier("OptionPatchPersistence", t.generation, patch)
             u1 == [Patched(t, patch, "InPlace", credential) EXCEPT !.barrier = b1]
             u2 == [Patched(t, patch, "ActiveRestart", credential) EXCEPT !.barrier = b2]
  <1>1. \/ \E target, effs : Finish(g, u1, target, effs, FALSE)
        \/ \E target, effs : Finish(g, u2, target, effs, FALSE)
    BY DEF ApplyOptionPatch, ApplyRestartPatch
  <1>2. t.barrier.kind = "None" /\ t.state # "Absent"
    BY <1>1, FinishAccepts DEF ApplyOptionPatch, ApplyRestartPatch, PatchAccepted
  <1>3. b1.kind = "OptionPatchApplication" /\ b2.kind = "OptionPatchPersistence" BY DEF AckBarrier, NoBarrier
  <1> HIDE DEF b1, b2
  <1>4. Handled(g, u1, FALSE, ids) BY <1>2, <1>3, KnownTask, BarrierHandled DEF FieldNames, Patched
  <1>5. Handled(g, u2, FALSE, ids) BY <1>2, <1>3, KnownTask, BarrierHandled DEF FieldNames, Patched
  <1> QED BY <1>1, <1>4, <1>5, FinishHandled

\* apply_option_patch with the key of the presented host
LEMMA ApplyHostKeyPatchHandled ==
  ASSUME NEW g, Known(g), NEW patch, ApplyHostKeyPatch(g, patch, tasks[g].challenge)
  PROVE  HandlerStep(g)
  <1> DEFINE t      == tasks[g]
             target == RecoveryTarget(t.state, "ApplyMatchingHostKeyOption")
             b      == [AckBarrier("HostKeyResolution", t.generation, ids.resolution)
                          EXCEPT !.challenge = t.challenge]
             u      == [Patched(t, patch, "MatchingHostKey", t.patchCredential) EXCEPT !.barrier = b]
             newIds == Issue("resolution")
  <1>1. \E effs : FinishIssuing(g, u, target, effs, FALSE, newIds) BY DEF ApplyHostKeyPatch
  <1>2. t.barrier.kind = "None" BY DEF ApplyHostKeyPatch, PatchAccepted
  <1>3. t.state = "PausedHostKey" BY <1>1, IssuingAccepts DEF RecoveryTarget, Stay, Conflict
  <1>4. b.kind = "HostKeyResolution" BY DEF AckBarrier, NoBarrier
  <1>5. newIds.retry = ids.retry /\ newIds.slow = ids.slow /\ newIds.probe = ids.probe
    BY KnownTask DEF Issue, IdKinds
  <1> HIDE DEF b, newIds, target
  <1>6. Handled(g, u, FALSE, newIds)
    BY <1>2, <1>3, <1>4, <1>5, KnownTask, BarrierHandled DEF FieldNames, Patched
  <1> QED BY <1>1, <1>6, IssuingHandled

\* remove_stopped_result
LEMMA RemoveStoppedResultHandled ==
  ASSUME NEW g, Known(g), RemoveStoppedResult(g)
  PROVE  HandlerStep(g)
  <1> DEFINE t      == tasks[g]
             b      == AckBarrier("StoppedResultDeletion", t.generation, ids.deletion)
             u      == [t EXCEPT !.barrier = b]
             newIds == Issue("deletion")
  <1>1. \E target, effs : FinishIssuing(g, u, target, effs, FALSE, newIds) BY DEF RemoveStoppedResult
  <1>2. t.barrier.kind = "None" /\ ~DeletionPending /\ t.state # "Absent"
    BY <1>1, IssuingAccepts DEF RemoveStoppedResult
  <1>3. b.kind = "StoppedResultDeletion" BY DEF AckBarrier, NoBarrier
  <1>4. newIds.retry = ids.retry /\ newIds.slow = ids.slow /\ newIds.probe = ids.probe
    BY KnownTask DEF Issue, IdKinds
  <1> HIDE DEF b, newIds
  <1>5. Handled(g, u, FALSE, newIds) BY <1>2, <1>3, <1>4, KnownTask, BarrierHandled DEF FieldNames
  <1> QED BY <1>1, <1>5, IssuingHandled

\* A waiting task with a staged restart patch applies it.
LEMMA ScheduleRestartPatchHandled ==
  ASSUME NEW g, Known(g), ScheduleRestartPatch(g)
  PROVE  HandlerStep(g)
  <1> DEFINE t == tasks[g]
             b == AckBarrier("OptionPatchApplication", t.generation, t.patch)
             u == [t EXCEPT !.barrier = b]
  <1>1. \E target, effs : Finish(g, u, target, effs, FALSE) BY DEF ScheduleRestartPatch
  <1>2. t.barrier.kind = "None" /\ t.state # "Absent"
    BY <1>1, FinishAccepts, CandidateFree DEF ScheduleRestartPatch
  <1>3. b.kind = "OptionPatchApplication" BY DEF AckBarrier, NoBarrier
  <1> HIDE DEF b
  <1>4. Handled(g, u, FALSE, ids) BY <1>2, <1>3, KnownTask, BarrierHandled DEF FieldNames
  <1> QED BY <1>1, <1>4, FinishHandled

\* begin_source_replacement
LEMMA BeginSourceReplacementHandled ==
  ASSUME NEW g, Known(g), BeginSourceReplacement(g)
  PROVE  HandlerStep(g)
  <1> DEFINE t      == tasks[g]
             target == WorkTarget(t.state, "SourceReplacementRequested")
             c      == [CancelTimers(t) EXCEPT !.state = target, !.sourceReplacement = TRUE]
             u      == IF OwnsSlot(t) THEN BeginCancellation(c, "PausedRestarting", FALSE) ELSE c
  <1>1. \E effs : Finish(g, u, target, effs, TRUE) BY DEF BeginSourceReplacement
  <1>2. t.barrier.kind = "None" BY DEF BeginSourceReplacement
  <1>3. /\ t.state \in {"Waiting", "Paused", "Allocating", "Active", "Verifying", "RetryWait"}
        /\ target \in {"Waiting", "Paused", "PausedRestarting"}
    BY <1>1, FinishAccepts DEF WorkTarget, Either, Stay, Move, Conflict
  <1> HIDE DEF target
  <1>4. /\ u.id = t.id /\ u.state = target /\ u.userControl = t.userControl
        /\ u.retryTimer = 0 /\ u.slowReadmission = 0 /\ u.probe = t.probe
        /\ u.barrier.kind = "CancellationDrain" \/ u.barrier = t.barrier
    BY KnownTask DEF CancelTimers, BeginCancellation, NoBarrier, FieldNames
  <1> HIDE DEF u
  <1>5. Handled(g, u, TRUE, ids)
    BY <1>2, <1>3, <1>4 DEF Known, Handled, TaskInv, Decided, Shown, Renewed, RemoveAccepted,
       Finished, ForcedDrain, TerminalPending, WorkingStates, DefersUserControl, BlocksAdmission
  <1> QED BY <1>1, <1>5, FinishHandled

\* commit_source_replacement
LEMMA CommitSourceReplacementHandled ==
  ASSUME NEW g, Known(g), NEW satisfies \in BOOLEAN, CommitSourceReplacement(g, satisfies)
  PROVE  HandlerStep(g)
  <1> DEFINE t      == tasks[g]
             target == WorkTarget(t.state, "SourceReplacementCommitted")
             u      == [t EXCEPT !.state = target, !.sourceReplacement = FALSE,
                                 !.credential = IF satisfies THEN "none" ELSE @]
  <1>1. \E effs : Finish(g, u, target, effs, TRUE) BY DEF CommitSourceReplacement
  <1>2. t.barrier.kind = "None" BY DEF CommitSourceReplacement
  <1>3. t.state \in {"Waiting", "Paused", "PausedRestarting"} /\ target \in {"Waiting", "Paused"}
    BY <1>1, FinishAccepts DEF WorkTarget, Either, Stay, Move, Conflict
  <1> HIDE DEF target
  <1>4. /\ u.id = t.id /\ u.state = target /\ u.userControl = t.userControl /\ u.barrier = t.barrier
        /\ u.sourceReplacement = FALSE /\ u.retryTimer = t.retryTimer
        /\ u.slowReadmission = t.slowReadmission /\ u.probe = t.probe
    BY KnownTask DEF FieldNames
  <1> HIDE DEF u
  <1>5. Handled(g, u, TRUE, ids)
    BY <1>2, <1>3, <1>4 DEF Known, Handled, TaskInv, Decided, Shown, Renewed, RemoveAccepted,
       Finished, ForcedDrain, TerminalPending, WorkingStates, DefersUserControl, BlocksAdmission
  <1> QED BY <1>1, <1>5, FinishHandled

-----------------------------------------------------------------------------
(* Admission.                                                              *)

\* What plan_admission changes of r, a task that holds nothing back.
LEMMA AdmitFields ==
  ASSUME NEW r \in Tasks
  PROVE  /\ Admit(r).id = r.id /\ Admit(r).state = "Allocating"
         /\ Admit(r).barrier.kind = "GenerationPersistence"
         /\ Admit(r).userControl = r.userControl
         /\ Admit(r).sourceReplacement = r.sourceReplacement
         /\ Admit(r).credential = r.credential /\ Admit(r).noSpace = r.noSpace
         /\ Admit(r).desiredPaused = r.desiredPaused
         /\ Admit(r).retryTimer = r.retryTimer /\ Admit(r).slowReadmission = r.slowReadmission
         /\ Admit(r).probe = r.probe
  <1> DEFINE gen == IF r.started THEN r.generation + 1 ELSE r.generation
             n   == IF gen = r.generation THEN r
                    ELSE ClearGenerationEventHistory([r EXCEPT !.generation = gen])
             b   == AckBarrier("GenerationPersistence", gen, 0)
             u   == [n EXCEPT !.started = TRUE, !.state = "Allocating", !.slot = "Reserved",
                              !.retryReady = FALSE, !.slowReady = FALSE, !.barrier = b]
  <1>1. Admit(r) = u BY DEF Admit
  <1>2. b.kind = "GenerationPersistence" BY DEF AckBarrier, NoBarrier
  <1>3. /\ DOMAIN n = FieldNames /\ n.id = r.id /\ n.userControl = r.userControl
        /\ n.sourceReplacement = r.sourceReplacement /\ n.credential = r.credential
        /\ n.noSpace = r.noSpace /\ n.desiredPaused = r.desiredPaused
        /\ n.retryTimer = r.retryTimer /\ n.slowReadmission = r.slowReadmission /\ n.probe = r.probe
    <2> HIDE DEF gen
    <2> QED BY TaskDomain DEF ClearGenerationEventHistory, FieldNames
  <1> HIDE DEF n, b
  <1> QED BY <1>1, <1>2, <1>3 DEF FieldNames

\* An admitted task was held back by nothing.
LEMMA AdmitHandled ==
  ASSUME NEW g, Known(g), CanAdmit(tasks[g]),
         tasks[g].state \in {"Waiting", "RetryWait", "WaitingSlow", "Active"},
         ~tasks[g].sourceReplacement,
         NEW u, u.id = tasks[g].id, u.state = "Allocating", u.barrier.kind = "GenerationPersistence",
         u.userControl = tasks[g].userControl, u.sourceReplacement = tasks[g].sourceReplacement,
         u.credential = tasks[g].credential, u.noSpace = tasks[g].noSpace,
         u.desiredPaused = tasks[g].desiredPaused, u.retryTimer \in {0, tasks[g].retryTimer},
         u.slowReadmission \in {0, tasks[g].slowReadmission}, u.probe = tasks[g].probe
  PROVE  Handled(g, u, TRUE, ids)
  BY DEF CanAdmit, Known, Handled, TaskInv, Decided, Shown, Renewed, RemoveAccepted, Finished,
     ForcedDrain, TerminalPending, WorkingStates, DefersUserControl, BlocksAdmission

\* No task whose sources are being replaced is selected, but for one that
\* applies its restart patch first.
LEMMA CandidateSource ==
  ASSUME NEW g \in AdmissionCandidate, TaskInv(tasks[g])
  PROVE  \/ tasks[g].state = "Waiting" /\ tasks[g].patchMode = "ActiveRestart"
         \/ ~tasks[g].sourceReplacement
  <1>1. \A h \in FirstReady("Waiting", RestartPatchReady) :
          tasks[h].state = "Waiting" /\ tasks[h].patchMode = "ActiveRestart"
    BY DEF FirstReady, RestartPatchReady
  <1>2. \A h \in FirstReady("Active", RetainedRetryReady) : tasks[h].state = "RetryWait"
    BY DEF FirstReady, RetainedRetryReady
  <1>3. \A h \in FirstReady("Demoted", DemotedReady) : tasks[h].state = "WaitingSlow"
    BY DEF FirstReady, DemotedReady
  <1>4. \A h \in FirstReady("Waiting", WaitingReady) : ~tasks[h].sourceReplacement
    BY DEF FirstReady, WaitingReady
  <1>5. \/ g \in FirstReady("Waiting", RestartPatchReady)
        \/ g \in FirstReady("Active", RetainedRetryReady)
        \/ g \in FirstReady("Demoted", DemotedReady)
        \/ g \in FirstReady("Waiting", WaitingReady)
    BY Zenon DEF AdmissionCandidate, OrElse
  <1>6. tasks[g].state \in {"RetryWait", "WaitingSlow"} => ~tasks[g].sourceReplacement
    BY DEF TaskInv, TerminalPending
  <1> QED BY <1>1, <1>2, <1>3, <1>4, <1>5, <1>6

\* admit_next
LEMMA AdmitNextHandled ==
  ASSUME NEW g, Known(g), AdmitNext(g)
  PROVE  HandlerStep(g)
  <1> DEFINE t      == tasks[g]
             target == AdmitTarget(t)
             rest   == IF t.state = "WaitingSlow" THEN tasks ELSE AdvanceDemoted
  <1>1. \E effs : Commit(g, Admit(t), target, effs, FALSE, TRUE, ids, rest) BY DEF AdmitNext
  <1>2. CanAdmit(t) /\ ~(t.state = "Waiting" /\ t.patchMode = "ActiveRestart") BY DEF AdmitNext
  <1>3. ~t.sourceReplacement BY <1>2, CandidateSource DEF AdmitNext, Known
  <1>4. target # Conflict BY <1>1, CommitAccepts
  <1>5. t.state \in {"Waiting", "RetryWait", "WaitingSlow"} BY <1>4, Zenon DEF AdmitTarget
  <1>6. t \in Tasks BY KnownTask
  <1>7. Handled(g, Admit(t), TRUE, ids) BY <1>2, <1>3, <1>5, <1>6, AdmitFields, AdmitHandled
  <1>8. rest \in {tasks, AdvanceDemoted} OBVIOUS
  <1> HIDE DEF rest, target
  <1> QED BY <1>1, <1>7, <1>8 DEF HandlerStep

-----------------------------------------------------------------------------
(* Acknowledgements.                                                       *)

\* GenerationPersisted
LEMMA GenerationPersistedHandled ==
  ASSUME NEW e, Known(e.gid), GenerationPersisted(e)
  PROVE  HandlerStep(e.gid)
  <1> DEFINE g      == e.gid
             t      == tasks[g]
             target == WorkTarget(t.state, "GenerationPersistenceSucceeded")
             u      == [Mark(t, "GenerationPersisted") EXCEPT !.barrier = NoBarrier, !.slot = "Active"]
  <1>1. \E effs : Finish(g, u, target, effs, TRUE) BY DEF GenerationPersisted
  <1>2. t.barrier.kind = "GenerationPersistence" BY DEF GenerationPersisted
  <1>3. t.state = "Allocating" BY <1>1, FinishAccepts DEF WorkTarget, Stay, Conflict
  <1> HIDE DEF target
  <1>4. /\ u.id = t.id /\ u.state = t.state /\ u.barrier.kind = "None"
        /\ u.userControl = t.userControl /\ u.sourceReplacement = t.sourceReplacement
        /\ u.desiredPaused = t.desiredPaused /\ u.credential = t.credential
        /\ u.noSpace = t.noSpace /\ u.retryTimer = t.retryTimer
        /\ u.slowReadmission = t.slowReadmission /\ u.probe = t.probe
    BY KnownTask DEF Mark, NoBarrier, FieldNames
  <1> HIDE DEF u
  <1>5. Handled(g, u, TRUE, ids)
    BY <1>2, <1>3, <1>4 DEF Known, Handled, TaskInv, Decided, Shown, Renewed, RemoveAccepted,
       Finished, ForcedDrain, TerminalPending, WorkingStates, DefersUserControl, BlocksAdmission
  <1> QED BY <1>1, <1>5, FinishHandled

\* b is the task t after the answer its barrier waited for.
Answered(b, t) ==
  /\ DOMAIN b = FieldNames
  /\ b.barrier.kind = "None"
  /\ b.id = t.id /\ b.state = t.state /\ b.generation = t.generation
  /\ b.desiredPaused = t.desiredPaused /\ b.userControl = t.userControl
  /\ b.sourceReplacement = t.sourceReplacement
  /\ b.credential \in {t.credential, "none"} /\ b.noSpace = t.noSpace
  /\ b.retryTimer = t.retryTimer /\ b.slowReadmission = t.slowReadmission /\ b.probe = t.probe

\* complete_pending_user_control
LEMMA DeferredHandled ==
  ASSUME NEW g, Known(g), NEW b, Answered(b, tasks[g]),
         DefersUserControl(tasks[g]), tasks[g].userControl # "None",
         RecoveryTarget(tasks[g].state, DeferredAction(tasks[g])) # Conflict,
         NEW publish, tasks[g].userControl \notin {"Remove", "ForceRemove"} => publish
  PROVE  Handled(g, CompleteUserControl(tasks[g], b), publish, ids)
  <1> DEFINE t      == tasks[g]
             target == RecoveryTarget(t.state, DeferredAction(t))
             force  == t.userControl \in {"ForcePause", "ForceRemove"}
             p      == [b EXCEPT !.userControl = "None", !.state = target, !.desiredPaused = TRUE]
             r      == [b EXCEPT !.userControl = "None", !.state = target,
                                 !.desiredPaused = FALSE, !.slowCount = 0]
             d      == [Discard(b) EXCEPT !.state = target]
             u      == CompleteUserControl(t, b)
  <1>1. u = IF t.userControl \in {"Pause", "ForcePause"}
              THEN IF OwnsSlot(p) THEN BeginCancellation(p, "Paused", force) ELSE p
            ELSE IF t.userControl = "Resume" THEN CancelTimers(r)
            ELSE IF OwnsSlot(d) THEN BeginCancellation(d, "Removed", force)
            ELSE BeginTerminal(d, "removed", FALSE)
    BY Zenon DEF CompleteUserControl
  <1>2. t.userControl \in UserControls BY KnownTask DEF Tasks
  <1>3. CASE t.userControl \in {"Pause", "ForcePause"}
    <2>1. DeferredAction(t) = "DeferredPauseCompleted" BY <1>3, Zenon DEF DeferredAction
    <2>2. /\ t.state \in LiveStates \ {"PausedHostKey"}
          /\ target = IF t.state = "PausedSlow" THEN "PausedSlow" ELSE "Paused"
      BY <2>1 DEF RecoveryTarget, PauseRow, Either, Stay, Move, Conflict, LiveStates, ParkedStates
    <2> HIDE DEF target
    <2>3. /\ p.id = t.id /\ p.state = target /\ p.userControl = "None" /\ p.barrier.kind = "None"
          /\ p.sourceReplacement = t.sourceReplacement /\ DOMAIN p = FieldNames
          /\ p.retryTimer = t.retryTimer /\ p.slowReadmission = t.slowReadmission
          /\ p.probe = t.probe
      BY DEF Answered, FieldNames
    <2> HIDE DEF p, u
    <2>4. /\ u.id = t.id /\ u.state = target /\ u.userControl = "None"
          /\ u.barrier.kind \in {"None", "CancellationDrain"}
          /\ u.sourceReplacement = t.sourceReplacement
          /\ u.retryTimer = t.retryTimer /\ u.slowReadmission = t.slowReadmission
          /\ u.probe = t.probe
      BY <1>1, <1>3, <2>3 DEF BeginCancellation, NoBarrier, FieldNames
    <2>5. Handled(g, u, publish, ids)
      BY <1>3, <2>2, <2>4 DEF Known, Handled, TaskInv, Decided, Shown, Renewed, RemoveAccepted,
         Finished, ForcedDrain, TerminalPending, WorkingStates, LiveStates, ParkedStates,
         DefersUserControl, BlocksAdmission
    <2> QED BY <2>5 DEF u
  <1>4. CASE t.userControl = "Resume"
    <2>1. DeferredAction(t) = "DeferredResumeCompleted" BY <1>4, Zenon DEF DeferredAction
    <2>2. t.state \in {"Paused", "PausedSlow"} /\ target = "Waiting"
      BY <2>1 DEF RecoveryTarget, Move, Conflict
    <2> HIDE DEF target
    <2>3. /\ r.id = t.id /\ r.state = target /\ r.userControl = "None" /\ r.barrier.kind = "None"
          /\ r.sourceReplacement = t.sourceReplacement /\ DOMAIN r = FieldNames
          /\ r.probe = t.probe
      BY DEF Answered, FieldNames
    <2> HIDE DEF r, u
    <2>4. /\ u.id = t.id /\ u.state = target /\ u.userControl = "None" /\ u.barrier.kind = "None"
          /\ u.sourceReplacement = t.sourceReplacement
          /\ u.retryTimer = 0 /\ u.slowReadmission = 0 /\ u.probe = t.probe
      BY <1>1, <1>4, <2>3 DEF CancelTimers, FieldNames
    <2>5. Handled(g, u, publish, ids)
      BY <1>4, <2>2, <2>4 DEF Known, Handled, TaskInv, Decided, Shown, Renewed, RemoveAccepted,
         Finished, ForcedDrain, TerminalPending, WorkingStates, DefersUserControl, BlocksAdmission
    <2> QED BY <2>5 DEF u
  <1>5. CASE t.userControl \in {"Remove", "ForceRemove"}
    <2>1. DeferredAction(t) = "DeferredRemoveCompleted" BY <1>5, Zenon DEF DeferredAction
    <2>2. t.state \in LiveStates /\ target = "Removed" BY <2>1 DEF RecoveryTarget, Move, Conflict
    <2> HIDE DEF target
    <2>3. /\ d.id = t.id /\ d.state = target /\ d.userControl = "None" /\ d.barrier.kind = "None"
          /\ DOMAIN d = FieldNames /\ d.retryTimer = 0 /\ d.slowReadmission = 0 /\ d.probe = 0
      BY DEF Answered, FieldNames, Discard, CancelTimers
    <2> HIDE DEF d, u
    <2>4. /\ u.id = t.id /\ u.state = target /\ u.userControl = "None"
          /\ u.retryTimer = 0 /\ u.slowReadmission = 0 /\ u.probe = 0
          /\ \/ /\ u.barrier.kind = "CancellationDrain"
                /\ t.userControl = "ForceRemove" => u.barrier.force
             \/ u.barrier.kind = "TerminalPersistence" /\ u.barrier.status = "removed"
      BY <1>1, <1>5, <2>3 DEF BeginCancellation, BeginTerminal, NoBarrier, FieldNames
    <2>5. Handled(g, u, publish, ids)
      BY <1>5, <2>2, <2>4 DEF Known, Handled, TaskInv, Decided, Shown, Renewed, RemoveAccepted,
         Finished, ForcedDrain, TerminalPending, WorkingStates, LiveStates, ParkedStates,
         DefersUserControl, BlocksAdmission
    <2> QED BY <2>5 DEF u
  <1> QED BY <1>2, <1>3, <1>4, <1>5 DEF UserControls

\* DeferredAction names a remove exactly when one was deferred.
LEMMA DeferredRemove ==
  ASSUME NEW t, t.userControl \in UserControls \ {"None"}
  PROVE  DeferredAction(t) = "DeferredRemoveCompleted" <=> t.userControl \in {"Remove", "ForceRemove"}
  <1>1. t.userControl \in {"Pause", "ForcePause"} => DeferredAction(t) = "DeferredPauseCompleted"
    BY Zenon DEF DeferredAction
  <1>2. t.userControl = "Resume" => DeferredAction(t) = "DeferredResumeCompleted" BY Zenon DEF DeferredAction
  <1>3. t.userControl \in {"Remove", "ForceRemove"} => DeferredAction(t) = "DeferredRemoveCompleted"
    BY Zenon DEF DeferredAction
  <1> QED BY <1>1, <1>2, <1>3 DEF UserControls

\* OptionPatchPersistenceCompleted
LEMMA OptionPatchPersistenceHandled ==
  ASSUME NEW e, Known(e.gid), NEW patch, NEW ok \in BOOLEAN,
         OptionPatchPersistenceCompleted(e, patch, ok)
  PROVE  HandlerStep(e.gid)
  <1> DEFINE g      == e.gid
             t      == tasks[g]
             b      == IF ok THEN [t EXCEPT !.barrier = NoBarrier]
                       ELSE ClearPatch([t EXCEPT !.barrier = NoBarrier])
             action == IF ok THEN "ActiveRestartOptionPatchPersisted"
                       ELSE "ActiveRestartOptionPatchPersistenceFailed"
             target == WorkTarget(t.state, action)
             v      == [b EXCEPT !.state = target]
             u      == IF ok THEN BeginCancellation(v, "PausedRestarting", FALSE) ELSE v
             c      == CompleteUserControl(t, b)
  <1>1. t.barrier.kind = "OptionPatchPersistence" BY DEF OptionPatchPersistenceCompleted, Awaits
  <1>2. /\ t.userControl # "None" =>
             \E effs : Finish(g, c, RecoveryTarget(t.state, DeferredAction(t)), effs,
                              DeferredAction(t) # "DeferredRemoveCompleted")
        /\ t.userControl = "None" => \E effs : Finish(g, u, target, effs, ok)
    BY Zenon DEF OptionPatchPersistenceCompleted
  <1>3. Answered(b, t) BY KnownTask DEF Answered, ClearPatch, NoBarrier, FieldNames
  <1> HIDE DEF b, c, u
  <1>4. CASE t.userControl # "None"
    <2>1. t.userControl \in UserControls BY KnownTask DEF Tasks
    <2>2. RecoveryTarget(t.state, DeferredAction(t)) # Conflict BY <1>2, <1>4, FinishAccepts
    <2>3. Handled(g, c, DeferredAction(t) # "DeferredRemoveCompleted", ids)
      BY <1>1, <1>3, <1>4, <2>1, <2>2, DeferredHandled, DeferredRemove DEF c, DefersUserControl
    <2> QED BY <1>2, <1>4, <2>3, FinishHandled
  <1>5. CASE t.userControl = "None"
    <2>1. target # Conflict BY <1>2, <1>5, FinishAccepts
    <2>2. /\ t.state \in {"Allocating", "Active", "Verifying"}
          /\ target = IF ok THEN "PausedRestarting" ELSE t.state
      BY <2>1 DEF WorkTarget, Stay, Move, Conflict
    <2> HIDE DEF target
    <2>3. /\ u.id = t.id /\ u.state = target /\ u.generation = t.generation
          /\ u.userControl = t.userControl /\ u.sourceReplacement = t.sourceReplacement
          /\ u.desiredPaused = t.desiredPaused /\ u.credential \in {t.credential, "none"}
          /\ u.noSpace = t.noSpace /\ u.retryTimer = t.retryTimer
          /\ u.slowReadmission = t.slowReadmission /\ u.probe = t.probe
          /\ u.barrier.kind = IF ok THEN "CancellationDrain" ELSE "None"
      BY <1>3 DEF u, Answered, BeginCancellation, NoBarrier, FieldNames
    <2>4. Handled(g, u, ok, ids)
      BY <1>1, <1>5, <2>2, <2>3 DEF Known, Handled, TaskInv, Decided, Shown, Renewed, RemoveAccepted,
         Finished, ForcedDrain, TerminalPending, WorkingStates, DefersUserControl, BlocksAdmission
    <2> QED BY <1>2, <1>5, <2>4, FinishHandled
  <1> QED BY <1>4, <1>5

\* OptionPatchApplicationCompleted
LEMMA OptionPatchApplicationHandled ==
  ASSUME NEW e, Known(e.gid), NEW patch, NEW ok \in BOOLEAN,
         OptionPatchApplicationCompleted(e, patch, ok)
  PROVE  HandlerStep(e.gid)
  <1> DEFINE g       == e.gid
             t       == tasks[g]
             a       == ClearPatch([t EXCEPT !.barrier = NoBarrier])
             b       == IF ok /\ t.patchCredential # "none" THEN [a EXCEPT !.credential = "none"] ELSE a
             action  == ApplicationAction(t, ok)
             fails   == action = "RestartApplicationFailed"
             removes == t.userControl \in {"Remove", "ForceRemove"}
             defers  == removes \/ (t.userControl # "None" /\ ~fails)
             target  == Either(RecoveryTarget(t.state, action), AdmissionTarget(t.state, action))
             v       == [b EXCEPT !.state = target]
             u       == IF fails THEN BeginTerminal([v EXCEPT !.userControl = "None"], "error", TRUE)
                        ELSE v
             publish == action \in {"RestartApplicationSucceeded", "CredentialsSatisfied"}
             c       == CompleteUserControl(t, b)
  <1>1. t.barrier.kind = "OptionPatchApplication" BY DEF OptionPatchApplicationCompleted, Awaits
  <1>2. /\ defers => \E effs : Finish(g, c, RecoveryTarget(t.state, DeferredAction(t)), effs, ~removes)
        /\ ~defers => \E effs : Finish(g, u, target, effs, publish)
    BY Zenon DEF OptionPatchApplicationCompleted
  <1>3. Answered(b, t) BY KnownTask DEF Answered, ClearPatch, NoBarrier, FieldNames
  <1>4. action \in {"RestartApplicationSucceeded", "RestartApplicationFailed", "CredentialsSatisfied",
                    "CredentialSatisfactionFailed", "InPlaceOptionPatchApplied",
                    "InPlaceOptionPatchApplicationFailed"}
    BY DEF ApplicationAction
  <1> HIDE DEF b, c, u, action
  <1>5. CASE defers
    <2>1. t.userControl \in UserControls /\ t.userControl # "None" BY <1>5, KnownTask DEF Tasks
    <2>2. RecoveryTarget(t.state, DeferredAction(t)) # Conflict BY <1>2, <1>5, FinishAccepts
    <2>3. Handled(g, c, ~removes, ids) BY <1>1, <1>3, <2>1, <2>2, DeferredHandled DEF c, DefersUserControl
    <2> QED BY <1>2, <1>5, <2>3, FinishHandled
  <1>6. CASE ~defers
    <2>1. target # Conflict BY <1>2, <1>6, FinishAccepts
    <2>2. /\ action = "RestartApplicationSucceeded" =>
               t.state \in {"PausedRestarting", "Waiting"} /\ target = "Waiting"
          /\ fails => t.state \in {"PausedRestarting", "Waiting"} /\ target = "Error"
          /\ action \notin {"RestartApplicationSucceeded", "RestartApplicationFailed"} =>
               t.state \in LiveStates /\ target = t.state
      BY <1>4, <2>1 DEF RecoveryTarget, AdmissionTarget, Either, Stay, Move, Conflict, LiveStates,
         ConditionStates, ParkedStates
    <2> HIDE DEF target
    <2>3. /\ u.id = t.id /\ u.state = target /\ u.generation = t.generation
          /\ u.userControl \in {"None", t.userControl}
          /\ ~fails => u.userControl = t.userControl
          /\ u.sourceReplacement = t.sourceReplacement
          /\ u.desiredPaused = t.desiredPaused /\ u.credential \in {t.credential, "none"}
          /\ u.noSpace = t.noSpace /\ u.retryTimer = t.retryTimer
          /\ u.slowReadmission = t.slowReadmission /\ u.probe = t.probe
          /\ fails => u.barrier.kind = "TerminalPersistence" /\ u.barrier.status = "error"
                       /\ u.userControl = "None"
          /\ ~fails => u.barrier.kind = "None"
      BY <1>3 DEF u, Answered, BeginTerminal, NoBarrier, FieldNames
    <2>4. Handled(g, u, publish, ids)
      BY <1>1, <1>6, <2>2, <2>3 DEF Known, Handled, TaskInv, Decided, Shown, Renewed, RemoveAccepted,
         Finished, ForcedDrain, TerminalPending, WorkingStates, LiveStates, ParkedStates,
         DefersUserControl, BlocksAdmission
    <2> QED BY <1>2, <1>6, <2>4, FinishHandled
  <1> QED BY <1>5, <1>6

\* HostKeyResolutionCompleted
LEMMA HostKeyResolutionHandled ==
  ASSUME NEW e, Known(e.gid), NEW resolution, NEW ok \in BOOLEAN,
         HostKeyResolutionCompleted(e, resolution, ok)
  PROVE  HandlerStep(e.gid)
  <1> DEFINE g       == e.gid
             t       == tasks[g]
             a       == [t EXCEPT !.barrier = NoBarrier, !.patch = 0, !.patchMode = "None"]
             b       == IF ok THEN [a EXCEPT !.challenge = 0] ELSE a
             removes == t.userControl \in {"Remove", "ForceRemove"}
             action  == IF ~ok THEN "HostKeyResolutionFailed"
                        ELSE IF t.desiredPaused THEN "HostKeyResolutionSucceededPreservingPause"
                        ELSE "HostKeyResolutionSucceeded"
             target  == RecoveryTarget(t.state, action)
             u       == [b EXCEPT !.state = target]
             c       == CompleteUserControl(t, b)
  <1>1. /\ t.barrier.kind = "HostKeyResolution" /\ t.challenge = t.barrier.challenge
        /\ t.desiredPaused \in BOOLEAN
    BY KnownTask DEF HostKeyResolutionCompleted, Awaits, Tasks
  <1>2. /\ removes => \E effs : Finish(g, c, RecoveryTarget(t.state, DeferredAction(t)), effs, FALSE)
        /\ ~removes => \E effs : Finish(g, u, target, effs, ok)
    BY Zenon DEF HostKeyResolutionCompleted
  <1>3. Answered(b, t) BY KnownTask DEF Answered, NoBarrier, FieldNames
  <1> HIDE DEF b, c, u
  <1>4. CASE removes
    <2> DEFINE removed == RecoveryTarget(t.state, DeferredAction(t))
    <2>1. \E effs : Finish(g, c, removed, effs, FALSE) BY <1>2, <1>4
    <2>2. removed # Conflict
      <3> HIDE DEF removed, target
      <3> QED BY <2>1, FinishAccepts
    <2>3. Handled(g, c, FALSE, ids) BY <1>1, <1>3, <1>4, <2>2, DeferredHandled DEF c, DefersUserControl
    <2> QED BY <2>1, <2>3, FinishHandled
  <1>5. CASE ~removes
    <2>1. target # Conflict BY <1>2, <1>5, FinishAccepts
    <2>2. /\ t.state = "PausedHostKey"
          /\ target = IF ~ok THEN t.state ELSE IF t.desiredPaused THEN "Paused" ELSE "Waiting"
      BY <1>1, <2>1 DEF RecoveryTarget, Stay, Move, Conflict
    <2> HIDE DEF target
    <2>3. /\ u.id = t.id /\ u.state = target /\ u.generation = t.generation
          /\ u.userControl = t.userControl /\ u.sourceReplacement = t.sourceReplacement
          /\ u.barrier.kind = "None" /\ u.retryTimer = t.retryTimer
          /\ u.slowReadmission = t.slowReadmission /\ u.probe = t.probe
      BY <1>3 DEF u, Answered, FieldNames
    <2>4. Handled(g, u, ok, ids)
      BY <1>1, <1>5, <2>2, <2>3 DEF Known, Handled, TaskInv, Decided, Shown, Renewed, RemoveAccepted,
         Finished, ForcedDrain, TerminalPending, WorkingStates, DefersUserControl, BlocksAdmission
    <2> QED BY <1>2, <1>5, <2>4, FinishHandled
  <1> QED BY <1>4, <1>5

\* TerminalPersisted
LEMMA TerminalPersistedHandled ==
  ASSUME NEW e, Known(e.gid), NEW status, TerminalPersisted(e, status)
  PROVE  HandlerStep(e.gid)
  <1> DEFINE g      == e.gid
             t      == tasks[g]
             target == OutcomeTarget(t.state, "TerminalPersistenceSucceeded")
             u      == [Mark(t, "TerminalPersisted") EXCEPT
                          !.barrier = NoBarrier, !.state = target,
                          !.stoppedStatus = status, !.terminalPersisted = TRUE]
  <1>1. \E effs : Finish(g, u, target, effs, TRUE) BY DEF TerminalPersisted
  <1>2. t.barrier.kind = "TerminalPersistence" /\ t.barrier.status = status BY DEF TerminalPersisted
  <1>3. t.state \in TerminalPending /\ target = "StoppedResult"
    BY <1>1, FinishAccepts DEF OutcomeTarget, Move, Conflict
  <1> HIDE DEF target
  <1>4. /\ u.id = t.id /\ u.state = target /\ u.barrier.kind = "None"
        /\ u.stoppedStatus = status /\ u.terminalPersisted = TRUE
        /\ u.userControl = t.userControl /\ u.sourceReplacement = t.sourceReplacement
        /\ u.retryTimer = t.retryTimer
        /\ u.slowReadmission = t.slowReadmission /\ u.probe = t.probe
    BY KnownTask DEF Mark, NoBarrier, FieldNames
  <1> HIDE DEF u
  <1>5. Handled(g, u, TRUE, ids)
    BY <1>2, <1>3, <1>4 DEF Known, Handled, TaskInv, Decided, Shown, Renewed, RemoveAccepted,
       Finished, ForcedDrain, TerminalPending, WorkingStates, DefersUserControl, BlocksAdmission
  <1> QED BY <1>1, <1>5, FinishHandled

\* StoppedResultDeletionFailed
LEMMA StoppedResultDeletionFailedHandled ==
  ASSUME NEW e, Known(e.gid), NEW deletion, StoppedResultDeletionFailed(e, deletion)
  PROVE  HandlerStep(e.gid)
  <1> DEFINE g      == e.gid
             t      == tasks[g]
             target == OutcomeTarget(t.state, "StoppedResultDeletionFailed")
             u      == [t EXCEPT !.barrier = NoBarrier]
  <1>1. \E effs : Finish(g, u, target, effs, FALSE) BY DEF StoppedResultDeletionFailed
  <1>2. t.barrier.kind = "StoppedResultDeletion" BY DEF StoppedResultDeletionFailed, Awaits
  <1>3. t.state = "StoppedResult" BY <1>1, FinishAccepts DEF OutcomeTarget, Stay, Conflict
  <1> HIDE DEF target
  <1>4. /\ u.id = t.id /\ u.state = t.state /\ u.barrier.kind = "None"
        /\ u.generation = t.generation
        /\ u.stoppedStatus = t.stoppedStatus /\ u.terminalPersisted = t.terminalPersisted
        /\ u.userControl = t.userControl /\ u.sourceReplacement = t.sourceReplacement
        /\ u.retryTimer = t.retryTimer
        /\ u.slowReadmission = t.slowReadmission /\ u.probe = t.probe
    BY KnownTask DEF NoBarrier, FieldNames
  <1> HIDE DEF u
  <1>5. Handled(g, u, FALSE, ids)
    BY <1>2, <1>3, <1>4 DEF Known, Handled, TaskInv, Decided, Shown, Renewed, RemoveAccepted,
       Finished, ForcedDrain, TerminalPending, WorkingStates, DefersUserControl, BlocksAdmission
  <1> QED BY <1>1, <1>5, FinishHandled

-----------------------------------------------------------------------------
(* Results of the workers.                                                 *)

\* What only a running worker sends passes no barrier but a drain's.
LEMMA WorkerFresh ==
  ASSUME NEW e, Known(e.gid), NEW kind,
         kind \notin {"GenerationPersisted", "OptionPatchPersistence", "OptionPatchApplication",
                      "HostKeyResolution", "TerminalPersisted", "StoppedResultDeletion"},
         Fresh(e, kind)
  PROVE  tasks[e.gid].barrier.kind \in {"None", "CancellationDrain"}
  <1>1. tasks[e.gid].barrier.kind \in BarrierKinds BY KnownTask DEF Tasks, Barriers
  <1>2. BarrierAccepts(tasks[e.gid], kind) BY DEF Fresh
  <1> QED BY <1>1, <1>2 DEF BarrierKinds, BarrierAccepts

\* What a worker's result may make of its task: it stays, or it leaves with
\* its timers as they are.
Moved(t, u) ==
  /\ u.id = t.id /\ u.generation = t.generation
  /\ u.userControl = t.userControl /\ u.sourceReplacement = t.sourceReplacement
  /\ u.slowReadmission = t.slowReadmission /\ u.probe = t.probe

\* A worker's result that leaves no request behind and no outcome undecided.
LEMMA WorkerHandled ==
  ASSUME NEW g, Known(g), tasks[g].state \in WorkingStates,
         tasks[g].barrier.kind \in {"None", "CancellationDrain"},
         NEW u, NEW publish, NEW newIds, Moved(tasks[g], u),
         u.state \in TaskStates,
         u.state # "StoppedResult" /\ u.state # "PausedRestarting" /\ u.state # "Absent",
         \/ u.barrier.kind = "None" /\ ~ForcedDrain(tasks[g]) /\ u.state \notin TerminalPending
         \/ u.barrier = tasks[g].barrier /\ u.state \notin TerminalPending
         \/ u.barrier.kind = "CancellationDrain" /\ (ForcedDrain(tasks[g]) => ForcedDrain(u))
         \/ /\ u.barrier.kind = "TerminalPersistence"
            /\ <<u.state, u.barrier.status>> \in
                 {<<"Complete", "complete">>, <<"Error", "error">>, <<"Removed", "removed">>},
         u.state \in WorkingStates =>
           /\ u.desiredPaused = tasks[g].desiredPaused
           /\ u.credential = tasks[g].credential /\ u.noSpace = tasks[g].noSpace,
         publish \/ u.state \in TerminalPending,
         Renewed(tasks[g].retryTimer, u.retryTimer, ids.retry, newIds.retry),
         newIds.slow = ids.slow, newIds.probe = ids.probe
  PROVE  Handled(g, u, publish, newIds)
  BY DEF Known, Moved, Handled, TaskInv, Decided, Shown, Renewed, RemoveAccepted, Finished,
     ForcedDrain, TerminalPending, WorkingStates, LiveStates, ParkedStates, TaskStates,
     DefersUserControl, BlocksAdmission

\* AllocationSucceeded
LEMMA AllocationSucceededHandled ==
  ASSUME NEW e, Known(e.gid), AllocationSucceeded(e)
  PROVE  HandlerStep(e.gid)
  <1> DEFINE t      == tasks[e.gid]
             target == WorkTarget(t.state, "AllocationSucceeded")
             u      == Mark([t EXCEPT !.state = target], "AllocationSucceeded")
  <1>1. Fresh(e, "AllocationSucceeded") /\ \E effs : Finish(e.gid, u, target, effs, TRUE)
    BY DEF AllocationSucceeded, WorkerMoves
  <1>2. t.barrier.kind \in {"None", "CancellationDrain"} BY <1>1, WorkerFresh
  <1>3. target = Conflict \/ (t.state \in WorkingStates /\ target \in WorkingStates)
    BY DEF WorkTarget, Move, WorkingStates
  <1> HIDE DEF target
  <1>4. /\ Moved(t, u) /\ u.state = target /\ u.barrier = t.barrier /\ u.retryTimer = t.retryTimer
        /\ u.desiredPaused = t.desiredPaused /\ u.credential = t.credential /\ u.noSpace = t.noSpace
    BY KnownTask DEF Mark, Moved, FieldNames
  <1> HIDE DEF u
  <1>5. target # Conflict BY <1>1, FinishAccepts
  <1>6. Handled(e.gid, u, TRUE, ids)
    BY <1>2, <1>3, <1>4, <1>5, WorkerHandled
       DEF Renewed, WorkingStates, TaskStates, LiveStates, TerminalPending
  <1> QED BY <1>1, <1>6, FinishHandled

\* data_complete
LEMMA DataCompleteHandled ==
  ASSUME NEW e, Known(e.gid), NEW seed \in BOOLEAN, DataComplete(e, seed)
  PROVE  HandlerStep(e.gid)
  <1> DEFINE t      == tasks[e.gid]
             kind   == IF seed THEN "BitTorrentPayloadComplete" ELSE "DataComplete"
             action == IF seed THEN "BitTorrentPayloadComplete" ELSE "AllRequiredDataReceived"
             target == WorkTarget(t.state, action)
             u      == Mark([t EXCEPT !.state = target], kind)
  <1>1. Fresh(e, kind) /\ \E effs : Finish(e.gid, u, target, effs, TRUE) BY DEF DataComplete, WorkerMoves
  <1>2. t.barrier.kind \in {"None", "CancellationDrain"} BY <1>1, WorkerFresh
  <1>3. target = Conflict \/ (t.state \in WorkingStates /\ target \in WorkingStates)
    BY DEF WorkTarget, Move, WorkingStates
  <1> HIDE DEF target
  <1>4. /\ Moved(t, u) /\ u.state = target /\ u.barrier = t.barrier /\ u.retryTimer = t.retryTimer
        /\ u.desiredPaused = t.desiredPaused /\ u.credential = t.credential /\ u.noSpace = t.noSpace
    BY KnownTask DEF Mark, Moved, FieldNames
  <1> HIDE DEF u
  <1>5. target # Conflict BY <1>1, FinishAccepts
  <1>6. Handled(e.gid, u, TRUE, ids)
    BY <1>2, <1>3, <1>4, <1>5, WorkerHandled
       DEF Renewed, WorkingStates, TaskStates, LiveStates, TerminalPending
  <1> QED BY <1>1, <1>6, FinishHandled

\* allocation_retryable, active_retry_idle: the retry timer is a new identity.
LEMMA WaitForRetryHandled ==
  ASSUME NEW e, Known(e.gid), NEW kind \in {"AllocationRetryable", "ActiveRetryIdle"}, NEW target,
         target = Conflict \/ (target = "RetryWait" /\ tasks[e.gid].state \in WorkingStates),
         WaitForRetry(e, kind, target)
  PROVE  HandlerStep(e.gid)
  <1> DEFINE g == e.gid
             t == tasks[g]
             n == Issue("retry")
             s == IF policy.holdsSlot THEN "RetryRetained" ELSE "None"
             u == [Mark(t, kind) EXCEPT !.state = target, !.retryTimer = ids.retry,
                                        !.retryReady = FALSE, !.slot = s]
  <1>1. Fresh(e, kind) /\ \E effs : FinishIssuing(g, u, target, effs, TRUE, n) BY DEF WaitForRetry
  <1>2. t.barrier.kind \in {"None", "CancellationDrain"} BY <1>1, WorkerFresh
  <1>3. n.retry = ids.retry + 1 /\ n.slow = ids.slow /\ n.probe = ids.probe BY KnownTask DEF Issue, IdKinds
  <1> HIDE DEF n, s
  <1>4. /\ Moved(t, u) /\ u.state = target /\ u.barrier = t.barrier /\ u.retryTimer = ids.retry
    BY KnownTask DEF Mark, Moved, FieldNames
  <1> HIDE DEF u
  <1>5. target = "RetryWait" /\ t.state \in WorkingStates BY <1>1, IssuingAccepts
  <1>6. Handled(g, u, TRUE, n)
    BY <1>2, <1>3, <1>4, <1>5, WorkerHandled
       DEF Renewed, WorkingStates, TaskStates, LiveStates, TerminalPending
  <1> QED BY <1>1, <1>6, IssuingHandled

\* AllocationRetryable, ActiveRetryIdle
LEMMA RetryableHandled ==
  ASSUME NEW e, Known(e.gid), AllocationRetryable(e) \/ ActiveRetryIdle(e)
  PROVE  HandlerStep(e.gid)
  <1> DEFINE a == WorkTarget(tasks[e.gid].state, "AllocationRetryableFailure")
             b == WorkTarget(tasks[e.gid].state, "LeaseRetryableWithoutRunnableWork")
  <1>1. /\ a = Conflict \/ (a = "RetryWait" /\ tasks[e.gid].state \in WorkingStates)
        /\ b = Conflict \/ (b = "RetryWait" /\ tasks[e.gid].state \in WorkingStates)
    BY DEF WorkTarget, Move, WorkingStates
  <1>2. WaitForRetry(e, "AllocationRetryable", a) \/ WaitForRetry(e, "ActiveRetryIdle", b)
    BY DEF AllocationRetryable, ActiveRetryIdle
  <1> HIDE DEF a, b
  <1> QED BY <1>1, <1>2, WaitForRetryHandled

\* allocation_host_key_challenge
LEMMA HostKeyChallengeHandled ==
  ASSUME NEW e, Known(e.gid), NEW active \in BOOLEAN, HostKeyChallenge(e, active)
  PROVE  HandlerStep(e.gid)
  <1> DEFINE g      == e.gid
             t      == tasks[g]
             kind   == IF active THEN "ActiveHostKeyChallenge" ELSE "AllocationHostKeyChallenge"
             action == IF active THEN "ActiveHostKeyChallengeRequired" ELSE "HostKeyChallengeRequired"
             target == WorkTarget(t.state, action)
             u      == [Mark(ReleaseSlot(t), kind) EXCEPT !.state = target,
                                                          !.challenge = t.generation + 1]
  <1>1. Fresh(e, kind) /\ \E effs : Commit(g, u, target, effs, TRUE, TRUE, ids, tasks) BY DEF HostKeyChallenge
  <1>2. t.barrier.kind \in {"None", "CancellationDrain"} BY <1>1, WorkerFresh
  <1>3. target = Conflict \/ (target = "PausedHostKey" /\ t.state \in WorkingStates)
    BY DEF WorkTarget, Move, WorkingStates
  <1> HIDE DEF target
  <1>4. /\ Moved(t, u) /\ u.state = target /\ u.barrier = t.barrier /\ u.retryTimer = t.retryTimer
    BY KnownTask DEF Mark, ReleaseSlot, Moved, FieldNames
  <1> HIDE DEF u
  <1>5. target # Conflict BY <1>1, CommitAccepts
  <1>6. Handled(g, u, TRUE, ids)
    BY <1>2, <1>3, <1>4, <1>5, WorkerHandled
       DEF Renewed, WorkingStates, TaskStates, LiveStates, ParkedStates, TerminalPending
  <1> QED BY <1>1, <1>6 DEF HandlerStep

\* A worker that ends for good starts the record of its outcome.
LEMMA WorkerStopsHandled ==
  ASSUME NEW e, Known(e.gid),
         NEW kind \in {"AllocationFailed", "VerificationSucceeded", "VerificationFailed",
                       "SeedingComplete", "SeedingFailed"},
         NEW target, NEW status,
         \/ target = Conflict
         \/ /\ tasks[e.gid].state \in WorkingStates
            /\ <<target, status>> \in {<<"Complete", "complete">>, <<"Error", "error">>},
         WorkerStops(e, kind, target, status)
  PROVE  HandlerStep(e.gid)
  <1> DEFINE g == e.gid
             t == tasks[g]
             f == status = "error"
             u == Mark(BeginTerminal(ReleaseSlot([t EXCEPT !.state = target]), status, f), kind)
  <1>1. Fresh(e, kind) /\ \E effs : Finish(g, u, target, effs, FALSE) BY DEF WorkerStops, WorkerMoves
  <1>2. t.barrier.kind \in {"None", "CancellationDrain"} BY <1>1, WorkerFresh
  <1> HIDE DEF f
  <1>3. /\ Moved(t, u) /\ u.state = target /\ u.retryTimer = t.retryTimer
        /\ u.barrier.kind = "TerminalPersistence" /\ u.barrier.status = status
    BY KnownTask DEF Mark, ReleaseSlot, BeginTerminal, NoBarrier, Moved, FieldNames
  <1> HIDE DEF u
  <1>4. target # Conflict BY <1>1, FinishAccepts
  <1>5. Handled(g, u, FALSE, ids)
    BY <1>2, <1>3, <1>4, WorkerHandled
       DEF Renewed, WorkingStates, TaskStates, LiveStates, TerminalPending
  <1> QED BY <1>1, <1>5, FinishHandled

\* AllocationFailed, VerificationSucceeded, VerificationFailed, SeedingComplete,
\* SeedingFailed
LEMMA FinalResultHandled ==
  ASSUME NEW e, Known(e.gid),
         \/ AllocationFailed(e) \/ VerificationSucceeded(e) \/ VerificationFailed(e)
         \/ SeedingComplete(e) \/ SeedingFailed(e)
  PROVE  HandlerStep(e.gid)
  <1> DEFINE s == tasks[e.gid].state
             Ends(target, status) ==
               \/ target = Conflict
               \/ s \in WorkingStates
                  /\ <<target, status>> \in {<<"Complete", "complete">>, <<"Error", "error">>}
  <1>1. /\ Ends(WorkTarget(s, "AllocationTerminalFailure"), "error")
        /\ Ends(OutcomeTarget(s, "VerificationSucceeded"), "complete")
        /\ Ends(OutcomeTarget(s, "VerificationTerminalFailure"), "error")
        /\ Ends(OutcomeTarget(s, "SeedingStopped"), "complete")
        /\ Ends(OutcomeTarget(s, "BitTorrentFailure"), "error")
    BY DEF WorkTarget, OutcomeTarget, Move, WorkingStates
  <1>2. CASE AllocationFailed(e) BY <1>1, <1>2, WorkerStopsHandled DEF AllocationFailed
  <1>3. CASE VerificationSucceeded(e) BY <1>1, <1>3, WorkerStopsHandled DEF VerificationSucceeded
  <1>4. CASE VerificationFailed(e) BY <1>1, <1>4, WorkerStopsHandled DEF VerificationFailed
  <1>5. CASE SeedingComplete(e) BY <1>1, <1>5, WorkerStopsHandled DEF SeedingComplete
  <1>6. CASE SeedingFailed(e) BY <1>1, <1>6, WorkerStopsHandled DEF SeedingFailed
  <1> QED BY <1>2, <1>3, <1>4, <1>5, <1>6

\* VerificationRecoverable
LEMMA VerificationRecoverableHandled ==
  ASSUME NEW e, Known(e.gid), VerificationRecoverable(e)
  PROVE  HandlerStep(e.gid)
  <1> DEFINE g      == e.gid
             t      == tasks[g]
             kind   == "VerificationRecoverable"
             target == OutcomeTarget(t.state, "VerificationRecoverableFailure")
             u      == Mark(ReleaseSlot([t EXCEPT !.state = target]), kind)
  <1>1. Fresh(e, kind) /\ \E effs : Finish(g, u, target, effs, TRUE)
    BY DEF VerificationRecoverable, WorkerMoves
  <1>2. t.barrier.kind \in {"None", "CancellationDrain"} BY <1>1, WorkerFresh
  <1>3. target = Conflict \/ (target = "Waiting" /\ t.state \in WorkingStates)
    BY DEF OutcomeTarget, Move, WorkingStates
  <1> HIDE DEF target
  <1>4. Moved(t, u) /\ u.state = target /\ u.barrier = t.barrier /\ u.retryTimer = t.retryTimer
    BY KnownTask DEF Mark, ReleaseSlot, Moved, FieldNames
  <1> HIDE DEF u
  <1>5. target # Conflict BY <1>1, FinishAccepts
  <1>6. Handled(g, u, TRUE, ids)
    BY <1>2, <1>3, <1>4, <1>5, WorkerHandled
       DEF Renewed, WorkingStates, TaskStates, LiveStates, TerminalPending
  <1> QED BY <1>1, <1>6, FinishHandled

\* ActiveRepresentationRestart
LEMMA RepresentationRestartHandled ==
  ASSUME NEW e, Known(e.gid), ActiveRepresentationRestart(e)
  PROVE  HandlerStep(e.gid)
  <1> DEFINE g      == e.gid
             t      == tasks[g]
             a      == Admit(t)
             target == WorkTarget(t.state, "RepresentationRestart")
             u      == Mark(a, "ActiveRepresentationRestart")
  <1>1. CanAdmit(t) /\ \E effs : Finish(g, u, target, effs, TRUE) BY DEF ActiveRepresentationRestart
  <1>2. t.state = "Active" /\ ~t.sourceReplacement
    <2>1. target # Conflict
      <3> HIDE DEF u, target
      <3> QED BY <1>1, FinishAccepts
    <2> QED BY <2>1 DEF WorkTarget, Move, Conflict, Known, TaskInv, TerminalPending
  <1>3. t \in Tasks /\ DOMAIN a = FieldNames
    <2>1. t \in Tasks BY KnownTask
    <2>2. a \in Tasks BY <1>1, <2>1, AdmitType DEF CanAdmit
    <2> HIDE DEF a
    <2> QED BY <2>1, <2>2, TaskDomain
  <1>4. /\ u.id = a.id /\ u.state = a.state /\ u.barrier = a.barrier
        /\ u.userControl = a.userControl /\ u.sourceReplacement = a.sourceReplacement
        /\ u.credential = a.credential /\ u.noSpace = a.noSpace
        /\ u.desiredPaused = a.desiredPaused /\ u.retryTimer = a.retryTimer
        /\ u.slowReadmission = a.slowReadmission /\ u.probe = a.probe
    <2> HIDE DEF a
    <2> QED BY <1>3 DEF Mark, FieldNames
  <1> HIDE DEF u, target
  <1>5. Handled(g, u, TRUE, ids) BY <1>1, <1>2, <1>3, <1>4, AdmitFields, AdmitHandled
  <1> QED BY <1>1, <1>5, FinishHandled

\* A task that leaves Active at once, to be drained: v is the task before its
\* drain begins.
LEMMA DrainHandled ==
  ASSUME NEW g, Known(g), tasks[g].state \in WorkingStates,
         tasks[g].barrier.kind \in {"None", "CancellationDrain"},
         NEW target \in {"Waiting", "WaitingSlow", "PausedSlow", "Error"},
         NEW v, DOMAIN v = FieldNames, Moved(tasks[g], v), v.state = target,
         v.barrier = tasks[g].barrier, v.retryTimer = tasks[g].retryTimer,
         NEW publish, publish \/ target = "Error", NEW kind
  PROVE  Handled(g, Mark(BeginCancellation(v, target, FALSE), kind), publish, ids)
  <1> DEFINE t == tasks[g]
             u == Mark(BeginCancellation(v, target, FALSE), kind)
  <1>1. /\ Moved(t, u) /\ u.state = target /\ u.retryTimer = t.retryTimer
        /\ u.barrier.kind = "CancellationDrain"
        /\ u.barrier.force = (t.barrier.kind = "CancellationDrain" /\ t.barrier.force)
    BY DEF Mark, BeginCancellation, NoBarrier, Moved, FieldNames
  <1> HIDE DEF u
  <1>2. Handled(g, u, publish, ids)
    BY <1>1, WorkerHandled DEF Renewed, ForcedDrain, WorkingStates, TaskStates, LiveStates,
       ParkedStates, TerminalPending
  <1> QED BY <1>2 DEF u

\* NoSpace
LEMMA NoSpaceHandled ==
  ASSUME NEW e, Known(e.gid), NEW condition, NoSpace(e, condition)
  PROVE  HandlerStep(e.gid)
  <1> DEFINE g      == e.gid
             t      == tasks[g]
             target == WorkTarget(t.state, "MidTransferNoSpace")
             s      == [t EXCEPT !.state = target]
             v      == [s EXCEPT !.noSpace = condition]
             u      == Mark(BeginCancellation(v, target, FALSE), "NoSpace")
  <1>1. Fresh(e, "NoSpace") /\ \E effs : Finish(g, u, target, effs, TRUE) BY DEF NoSpace, WorkerDrains
  <1>2. t.barrier.kind \in {"None", "CancellationDrain"} BY <1>1, WorkerFresh
  <1>3. target # Conflict
    <2> HIDE DEF u, target
    <2> QED BY <1>1, FinishAccepts
  <1>4. /\ t.state \in WorkingStates /\ target \in {"Waiting", "WaitingSlow", "PausedSlow", "Error"}
        /\ TRUE \/ target = "Error"
    BY <1>3 DEF WorkTarget, Move, WorkingStates, Conflict
  <1> HIDE DEF target
  <1>5. /\ DOMAIN v = FieldNames /\ Moved(t, v) /\ v.state = target /\ v.barrier = t.barrier
        /\ v.retryTimer = t.retryTimer
    BY KnownTask DEF Moved, FieldNames
  <1> HIDE DEF v
  <1>6. Handled(g, u, TRUE, ids) BY <1>2, <1>4, <1>5, DrainHandled
  <1> HIDE DEF u
  <1> QED BY <1>1, <1>6, FinishHandled

\* TerminalFailure
LEMMA TerminalFailureHandled ==
  ASSUME NEW e, Known(e.gid), TerminalFailure(e)
  PROVE  HandlerStep(e.gid)
  <1> DEFINE g      == e.gid
             t      == tasks[g]
             target == WorkTarget(t.state, "TerminalWorkFailure")
             s      == [t EXCEPT !.state = target]
             v      == [s EXCEPT !.error = TRUE]
             u      == Mark(BeginCancellation(v, target, FALSE), "TerminalFailure")
  <1>1. Fresh(e, "TerminalFailure") /\ \E effs : Finish(g, u, target, effs, FALSE)
    BY DEF TerminalFailure, WorkerDrains
  <1>2. t.barrier.kind \in {"None", "CancellationDrain"} BY <1>1, WorkerFresh
  <1>3. target # Conflict
    <2> HIDE DEF u, target
    <2> QED BY <1>1, FinishAccepts
  <1>4. /\ t.state \in WorkingStates /\ target \in {"Waiting", "WaitingSlow", "PausedSlow", "Error"}
        /\ FALSE \/ target = "Error"
    BY <1>3 DEF WorkTarget, Move, WorkingStates, Conflict
  <1> HIDE DEF target
  <1>5. /\ DOMAIN v = FieldNames /\ Moved(t, v) /\ v.state = target /\ v.barrier = t.barrier
        /\ v.retryTimer = t.retryTimer
    BY KnownTask DEF Moved, FieldNames
  <1> HIDE DEF v
  <1>6. Handled(g, u, FALSE, ids) BY <1>2, <1>4, <1>5, DrainHandled
  <1> HIDE DEF u
  <1> QED BY <1>1, <1>6, FinishHandled

\* SlowDemoted
LEMMA SlowDemotedHandled ==
  ASSUME NEW e, Known(e.gid), SlowDemoted(e)
  PROVE  HandlerStep(e.gid)
  <1> DEFINE g      == e.gid
             t      == tasks[g]
             target == WorkTarget(t.state, "SlowSlotDemote")
             place  == Position(g, "Active") - 1
             s      == [t EXCEPT !.state = target]
             v      == [s EXCEPT !.pendingSlow = TRUE, !.slowCount = @ + 1, !.slowSlot = TRUE,
                                  !.slowPos = place]
             u      == Mark(BeginCancellation(v, target, FALSE), "SlowDemoted")
  <1>1. Fresh(e, "SlowDemoted") /\ \E effs : Finish(g, u, target, effs, TRUE) BY DEF SlowDemoted, WorkerDrains
  <1>2. t.barrier.kind \in {"None", "CancellationDrain"} BY <1>1, WorkerFresh
  <1>3. target # Conflict
    <2> HIDE DEF u, target
    <2> QED BY <1>1, FinishAccepts
  <1>4. /\ t.state \in WorkingStates /\ target \in {"Waiting", "WaitingSlow", "PausedSlow", "Error"}
        /\ TRUE \/ target = "Error"
    BY <1>3 DEF WorkTarget, Move, WorkingStates, Conflict
  <1> HIDE DEF target
  <1>5. /\ DOMAIN v = FieldNames /\ Moved(t, v) /\ v.state = target /\ v.barrier = t.barrier
        /\ v.retryTimer = t.retryTimer
    BY KnownTask DEF Moved, FieldNames
  <1> HIDE DEF v
  <1>6. Handled(g, u, TRUE, ids) BY <1>2, <1>4, <1>5, DrainHandled
  <1> HIDE DEF u
  <1> QED BY <1>1, <1>6, FinishHandled

\* SlowPaused
LEMMA SlowPausedHandled ==
  ASSUME NEW e, Known(e.gid), SlowPaused(e)
  PROVE  HandlerStep(e.gid)
  <1> DEFINE g      == e.gid
             t      == tasks[g]
             target == WorkTarget(t.state, "SlowSlotPause")
             s      == [t EXCEPT !.state = target]
             v      == [s EXCEPT !.desiredPaused = TRUE]
             u      == Mark(BeginCancellation(v, target, FALSE), "SlowPaused")
  <1>1. Fresh(e, "SlowPaused") /\ \E effs : Finish(g, u, target, effs, TRUE) BY DEF SlowPaused, WorkerDrains
  <1>2. t.barrier.kind \in {"None", "CancellationDrain"} BY <1>1, WorkerFresh
  <1>3. target # Conflict
    <2> HIDE DEF u, target
    <2> QED BY <1>1, FinishAccepts
  <1>4. /\ t.state \in WorkingStates /\ target \in {"Waiting", "WaitingSlow", "PausedSlow", "Error"}
        /\ TRUE \/ target = "Error"
    BY <1>3 DEF WorkTarget, Move, WorkingStates, Conflict
  <1> HIDE DEF target
  <1>5. /\ DOMAIN v = FieldNames /\ Moved(t, v) /\ v.state = target /\ v.barrier = t.barrier
        /\ v.retryTimer = t.retryTimer
    BY KnownTask DEF Moved, FieldNames
  <1> HIDE DEF v
  <1>6. Handled(g, u, TRUE, ids) BY <1>2, <1>4, <1>5, DrainHandled
  <1> HIDE DEF u
  <1> QED BY <1>1, <1>6, FinishHandled

-----------------------------------------------------------------------------
(* Drains, timers and probes.                                              *)

\* CancellationDrained
LEMMA CancellationDrainedHandled ==
  ASSUME NEW e, Known(e.gid), CancellationDrained(e)
  PROVE  HandlerStep(e.gid)
  <1> DEFINE g          == e.gid
             t          == tasks[g]
             restarting == t.barrier.target = "PausedRestarting"
             applies    == restarting /\ ~t.sourceReplacement
             readmits   == t.barrier.target = "WaitingSlow" /\ t.pendingSlow
             action     == IF restarting THEN "RestartQuiesced" ELSE "CancellationDrainSucceeded"
             target     == RecoveryTarget(t.state, action)
             r          == [ReleaseSlot(t) EXCEPT !.barrier = NoBarrier]
             d          == Drained(t)
             probes     == ProbeDue(d)
             u          == Mark(IF probes THEN WithProbe(d) ELSE d, "CancellationDrained")
             slowIds    == IF readmits THEN Issue("slow") ELSE ids
             n          == IF probes THEN [slowIds EXCEPT !.probe = @ + 1] ELSE slowIds
             publish    == ~applies /\ t.barrier.target \notin {"Error", "Removed"}
  <1>1. \E effs : FinishIssuing(g, u, target, effs, publish, n) BY Zenon DEF CancellationDrained
  <1>2. t.barrier.kind = "CancellationDrain" /\ (~restarting => t.state = t.barrier.target)
    BY DEF CancellationDrained
  <1>3. target # Conflict
    <2> HIDE DEF u, target, n, publish
    <2> QED BY <1>1, IssuingAccepts
  <1>4. t.state \in {"Waiting", "WaitingSlow", "Paused", "PausedSlow", "Error", "Removed",
                     "PausedRestarting"}
        /\ target = t.state /\ (restarting => t.state = "PausedRestarting")
    BY <1>3 DEF RecoveryTarget, Stay, Conflict
  <1> HIDE DEF target, publish
  <1>5. /\ DOMAIN r = FieldNames /\ r.barrier.kind = "None"
        /\ r.id = t.id /\ r.state = t.state /\ r.generation = t.generation
        /\ r.userControl = t.userControl /\ r.sourceReplacement = t.sourceReplacement
        /\ r.desiredPaused = t.desiredPaused /\ r.noSpace = t.noSpace
        /\ r.credential = t.credential
        /\ r.retryTimer = t.retryTimer /\ r.slowReadmission = t.slowReadmission
        /\ r.probe = t.probe
    BY KnownTask DEF ReleaseSlot, NoBarrier, FieldNames
  <1>6. d = IF restarting
            THEN IF t.sourceReplacement THEN r
                 ELSE [r EXCEPT !.barrier = AckBarrier("OptionPatchApplication", t.generation, t.patch)]
            ELSE IF t.barrier.target = "WaitingSlow"
            THEN IF t.pendingSlow THEN [r EXCEPT !.pendingSlow = FALSE, !.slowReadmission = ids.slow]
                 ELSE r
            ELSE IF t.barrier.target = "Error" THEN BeginTerminal(r, "error", TRUE)
            ELSE IF t.barrier.target = "Removed" THEN BeginTerminal(r, "removed", FALSE)
            ELSE r
    BY DEF Drained
  <1> HIDE DEF r, d
  <1>7. /\ DOMAIN d = FieldNames
        /\ d.id = t.id /\ d.state = t.state /\ d.generation = t.generation
        /\ d.userControl = t.userControl /\ d.sourceReplacement = t.sourceReplacement
        /\ d.retryTimer = t.retryTimer /\ d.probe = t.probe
        /\ d.slowReadmission = IF readmits THEN ids.slow ELSE t.slowReadmission
        /\ d.barrier.kind \in {"None", "OptionPatchApplication", "TerminalPersistence"}
        /\ t.state \in TerminalPending \/ d.barrier.kind = "TerminalPersistence" =>
             /\ d.barrier.kind = "TerminalPersistence"
             /\ <<t.state, d.barrier.status>> \in {<<"Error", "error">>, <<"Removed", "removed">>}
    BY <1>2, <1>4, <1>5, <1>6 DEF AckBarrier, BeginTerminal, NoBarrier, TerminalPending, FieldNames
  <1> HIDE DEF probes, readmits
  <1>8. /\ u.id = t.id /\ u.state = t.state /\ u.generation = t.generation
        /\ u.userControl = t.userControl /\ u.sourceReplacement = t.sourceReplacement
        /\ u.retryTimer = t.retryTimer /\ u.barrier = d.barrier
        /\ u.slowReadmission = IF readmits THEN ids.slow ELSE t.slowReadmission
        /\ u.probe = IF probes THEN ids.probe ELSE t.probe
    BY <1>7 DEF Mark, WithProbe, FieldNames
  <1>9. /\ n.retry = ids.retry
        /\ n.slow = IF readmits THEN ids.slow + 1 ELSE ids.slow
        /\ n.probe = IF probes THEN ids.probe + 1 ELSE ids.probe
    BY KnownTask DEF Issue, IdKinds
  <1> HIDE DEF u, n
  <1>10. Handled(g, u, publish, n)
    BY <1>2, <1>4, <1>7, <1>8, <1>9 DEF Known, Handled, TaskInv, Decided, Shown, Renewed,
       RemoveAccepted, Finished, ForcedDrain, TerminalPending, WorkingStates, DefersUserControl,
       BlocksAdmission
  <1> QED BY <1>1, <1>10, IssuingHandled

\* RetryReady
LEMMA RetryReadyHandled ==
  ASSUME NEW e, Known(e.gid), NEW timer, RetryReady(e, timer)
  PROVE  HandlerStep(e.gid)
  <1> DEFINE g      == e.gid
             t      == tasks[g]
             admits == (OwnsSlot(t) \/ SlotFree) /\ ~t.desiredPaused /\ ~BlocksAdmission(t)
             r      == [t EXCEPT !.retryTimer = 0, !.retryReady = TRUE]
             row    == RecoveryTarget(t.state, "RetryReadmissionSucceeded")
             stays  == RecoveryTarget(t.state, "RetryReadmissionBlocked")
  <1>1. /\ Fresh(e, "RetryReady")
        /\ admits => CanAdmit(t) /\ \E effs : Finish(g, Admit(r), row, effs, TRUE)
        /\ ~admits => \E effs : Finish(g, r, stays, effs, TRUE)
    BY Zenon DEF RetryReady
  <1>2. t.barrier.kind \in {"None", "CancellationDrain"} BY <1>1, WorkerFresh
  <1>3. r \in Tasks
    <2>1. 0 \in Tokens /\ t \in Tasks BY KnownTask, BoundsAssumption DEF Tokens
    <2> QED BY <2>1, Zenon DEF Tasks
  <1>4. /\ DOMAIN r = FieldNames /\ r.id = t.id /\ r.state = t.state /\ r.barrier = t.barrier
        /\ r.userControl = t.userControl /\ r.sourceReplacement = t.sourceReplacement
        /\ r.desiredPaused = t.desiredPaused /\ r.noSpace = t.noSpace
        /\ r.credential = t.credential /\ r.retryTimer = 0 /\ r.slowReadmission = t.slowReadmission
        /\ r.probe = t.probe
    BY KnownTask DEF FieldNames
  <1> HIDE DEF r, row, stays, admits
  <1>5. t.state = "RetryWait" BY <1>1, FinishAccepts DEF row, stays, RecoveryTarget, Move, Stay, Conflict
  <1>6. ~t.sourceReplacement BY <1>5 DEF Known, TaskInv, TerminalPending
  <1>7. CASE admits BY <1>1, <1>3, <1>4, <1>5, <1>6, <1>7, AdmitFields, AdmitHandled, FinishHandled
  <1>8. CASE ~admits
    BY <1>2, <1>4, <1>5, <1>1, <1>8, FinishHandled DEF Known, Handled, TaskInv, Decided, Shown, Renewed, RemoveAccepted, Finished, ForcedDrain,
       TerminalPending, WorkingStates, DefersUserControl, BlocksAdmission
  <1> QED BY <1>7, <1>8

\* SlowReadmit
LEMMA SlowReadmitHandled ==
  ASSUME NEW e, Known(e.gid), NEW readmission, SlowReadmit(e, readmission)
  PROVE  HandlerStep(e.gid)
  <1> DEFINE g      == e.gid
             t      == tasks[g]
             admits == ~WaitingFirst(t) /\ SlotFree /\ ~t.desiredPaused /\ ~BlocksAdmission(t)
             r      == [t EXCEPT !.slowReadmission = 0, !.slowReady = TRUE]
             row    == RecoveryTarget(t.state, "SlowReadmissionSucceeded")
             stays  == RecoveryTarget(t.state, "SlowReadmissionBlocked")
  <1>1. /\ Fresh(e, "SlowReadmit")
        /\ admits => CanAdmit(t) /\ \E effs : Finish(g, Admit(r), row, effs, TRUE)
        /\ ~admits => \E effs : Finish(g, r, stays, effs, TRUE)
    BY Zenon DEF SlowReadmit
  <1>2. t.barrier.kind \in {"None", "CancellationDrain"} BY <1>1, WorkerFresh
  <1>3. r \in Tasks
    <2>1. 0 \in Tokens /\ t \in Tasks BY KnownTask, BoundsAssumption DEF Tokens
    <2> QED BY <2>1, Zenon DEF Tasks
  <1>4. /\ DOMAIN r = FieldNames /\ r.id = t.id /\ r.state = t.state /\ r.barrier = t.barrier
        /\ r.userControl = t.userControl /\ r.sourceReplacement = t.sourceReplacement
        /\ r.desiredPaused = t.desiredPaused /\ r.noSpace = t.noSpace
        /\ r.credential = t.credential /\ r.retryTimer = t.retryTimer /\ r.slowReadmission = 0
        /\ r.probe = t.probe
    BY KnownTask DEF FieldNames
  <1> HIDE DEF r, row, stays, admits
  <1>5. t.state = "WaitingSlow" BY <1>1, FinishAccepts DEF row, stays, RecoveryTarget, Move, Stay, Conflict
  <1>6. ~t.sourceReplacement BY <1>5 DEF Known, TaskInv, TerminalPending
  <1>7. CASE admits BY <1>1, <1>3, <1>4, <1>5, <1>6, <1>7, AdmitFields, AdmitHandled, FinishHandled
  <1>8. CASE ~admits
    BY <1>2, <1>4, <1>5, <1>1, <1>8, FinishHandled DEF Known, Handled, TaskInv, Decided, Shown, Renewed, RemoveAccepted, Finished, ForcedDrain,
       TerminalPending, WorkingStates, DefersUserControl, BlocksAdmission
  <1> QED BY <1>7, <1>8

\* NoSpaceProbeCompleted
LEMMA NoSpaceProbeHandled ==
  ASSUME NEW e, Known(e.gid), NEW probe, NEW origin, NEW ready \in BOOLEAN, NEW next,
         NoSpaceProbeCompleted(e, probe, origin, ready, next)
  PROVE  HandlerStep(e.gid)
  <1> DEFINE g      == e.gid
             t      == tasks[g]
             target == AdmissionTarget(t.state, ProbeAction(t, ready))
             again  == ~ready /\ next = "timed"
             s      == IF ready THEN "none" ELSE next
             c      == [t EXCEPT !.probe = 0, !.probeOrigin = "none", !.state = target, !.noSpace = s]
             u      == IF again THEN WithProbe(c) ELSE c
             n      == IF again THEN Issue("probe") ELSE ids
  <1>1. Fresh(e, "NoSpaceProbeCompleted") /\ \E effs : FinishIssuing(g, u, target, effs, TRUE, n)
    BY Zenon DEF NoSpaceProbeCompleted
  <1>2. t.barrier.kind \in {"None", "CancellationDrain"} BY <1>1, WorkerFresh
  <1>3. target # Conflict
    <2> HIDE DEF u, target, n
    <2> QED BY <1>1, IssuingAccepts
  <1>4. /\ t.state \in ConditionStates /\ target \in {t.state, "Waiting"}
    BY <1>3 DEF AdmissionTarget, Stay, Move, Either, Conflict, ConditionStates, LiveStates,
       ParkedStates, ProbeAction
  <1> HIDE DEF target, again, s
  <1>5. /\ u.id = t.id /\ u.state = target /\ u.barrier = t.barrier
        /\ u.userControl = t.userControl /\ u.sourceReplacement = t.sourceReplacement
        /\ u.retryTimer = t.retryTimer /\ u.slowReadmission = t.slowReadmission
        /\ u.probe = IF again THEN ids.probe ELSE 0
    BY KnownTask DEF WithProbe, FieldNames
  <1>6. /\ n.retry = ids.retry /\ n.slow = ids.slow
        /\ n.probe = IF again THEN ids.probe + 1 ELSE ids.probe
    BY KnownTask DEF Issue, IdKinds
  <1> HIDE DEF u, n
  <1>7. Handled(g, u, TRUE, n)
    BY <1>2, <1>4, <1>5, <1>6 DEF Known, Handled, TaskInv, Decided, Shown, Renewed,
       RemoveAccepted, Finished, ForcedDrain, TerminalPending, WorkingStates, DefersUserControl,
       BlocksAdmission, ConditionStates
  <1> QED BY <1>1, <1>7, IssuingHandled

-----------------------------------------------------------------------------
(* Queues.                                                                 *)

\* h is in the sequence q.
Listed(q, h) == \E i \in DOMAIN q : q[i] = h

\* No element of q is repeated.
Unrepeated(q) == \A i, j \in DOMAIN q : i # j => q[i] # q[j]

\* RemoveAt takes one element out and keeps the order of the others.
LEMMA RemoveAtElements ==
  ASSUME NEW S, NEW q \in Seq(S), NEW i \in DOMAIN q
  PROVE  /\ Len(RemoveAt(q, i)) = Len(q) - 1
         /\ DOMAIN RemoveAt(q, i) = 1 .. (Len(q) - 1)
         /\ \A j \in 1 .. (Len(q) - 1) : RemoveAt(q, i)[j] = IF j < i THEN q[j] ELSE q[j + 1]
  <1> DEFINE a == SubSeq(q, 1, i - 1)
             b == SubSeq(q, i + 1, Len(q))
  <1>1. i \in 1 .. Len(q) /\ Len(q) \in Nat OBVIOUS
  <1>2. a \in Seq(S) /\ Len(a) = i - 1 /\ \A j \in 1 .. (i - 1) : a[j] = q[j] BY <1>1
  <1>3. b \in Seq(S) /\ Len(b) = Len(q) - i /\ \A j \in 1 .. (Len(q) - i) : b[j] = q[i + j] BY <1>1
  <1>4. RemoveAt(q, i) = a \o b BY DEF RemoveAt
  <1> HIDE DEF a, b
  <1> QED BY <1>1, <1>2, <1>3, <1>4

\* InsertAt puts one element in and keeps the order of the others.
LEMMA InsertAtElements ==
  ASSUME NEW S, NEW q \in Seq(S), NEW i \in 1 .. (Len(q) + 1), NEW h \in S
  PROVE  /\ Len(InsertAt(q, i, h)) = Len(q) + 1
         /\ DOMAIN InsertAt(q, i, h) = 1 .. (Len(q) + 1)
         /\ \A j \in 1 .. (Len(q) + 1) :
              InsertAt(q, i, h)[j] = IF j < i THEN q[j] ELSE IF j = i THEN h ELSE q[j - 1]
  <1> DEFINE a == SubSeq(q, 1, i - 1)
             b == SubSeq(q, i, Len(q))
             d == a \o <<h>>
  <1>1. i \in Nat /\ Len(q) \in Nat OBVIOUS
  <1>2. a \in Seq(S) /\ Len(a) = i - 1 /\ \A j \in 1 .. (i - 1) : a[j] = q[j] BY <1>1
  <1>3. b \in Seq(S) /\ Len(b) = Len(q) - i + 1 /\ \A j \in 1 .. (Len(q) - i + 1) : b[j] = q[i + j - 1]
    BY <1>1
  <1>4. InsertAt(q, i, h) = d \o b BY DEF InsertAt
  <1> HIDE DEF a, b
  <1>5. d \in Seq(S) /\ Len(d) = i /\ \A j \in 1 .. i : d[j] = IF j < i THEN q[j] ELSE h BY <1>1, <1>2
  <1> HIDE DEF d
  <1>6. Len(d \o b) = Len(q) + 1 /\ DOMAIN (d \o b) = 1 .. (Len(q) + 1) BY <1>1, <1>3, <1>5
  <1>7. ASSUME NEW j \in 1 .. (Len(q) + 1)
        PROVE  (d \o b)[j] = IF j < i THEN q[j] ELSE IF j = i THEN h ELSE q[j - 1]
    <2>1. CASE j <= i BY <1>1, <1>3, <1>5, <2>1
    <2>2. CASE j > i
      <3>1. (d \o b)[j] = b[j - i] BY <1>1, <1>3, <1>5, <2>2
      <3>2. (j - i) \in 1 .. (Len(q) - i + 1) /\ i + (j - i) - 1 = j - 1 BY <1>1, <2>2
      <3>3. b[j - i] = q[j - 1] BY <1>3, <3>2
      <3> QED BY <1>1, <2>2, <3>1, <3>3
    <2>3. j <= i \/ j > i BY <1>1
    <2> QED BY <2>1, <2>2, <2>3, Zenon
  <1> QED BY <1>4, <1>6, <1>7

\* Removing the place of an element that occurs once removes the element.
LEMMA RemoveAtListed ==
  ASSUME NEW S, NEW q \in Seq(S), NEW i \in DOMAIN q, Unrepeated(q)
  PROVE  /\ Unrepeated(RemoveAt(q, i))
         /\ \A h : Listed(RemoveAt(q, i), h) <=> Listed(q, h) /\ h # q[i]
  <1> DEFINE r == RemoveAt(q, i)
  <1>1. /\ Len(q) \in Nat /\ DOMAIN q = 1 .. Len(q) /\ DOMAIN r = 1 .. (Len(q) - 1)
        /\ \A j \in 1 .. (Len(q) - 1) : r[j] = IF j < i THEN q[j] ELSE q[j + 1]
    BY RemoveAtElements
  <1> HIDE DEF r
  <1>2. Unrepeated(r) BY <1>1 DEF Unrepeated
  <1>3. ASSUME NEW h, Listed(r, h)
        PROVE  Listed(q, h) /\ h # q[i]
    <2>1. PICK j \in DOMAIN r : r[j] = h BY <1>3 DEF Listed
    <2>2. CASE j < i BY <1>1, <2>1, <2>2 DEF Listed, Unrepeated
    <2>3. CASE ~(j < i) BY <1>1, <2>1, <2>3 DEF Listed, Unrepeated
    <2> QED BY <2>2, <2>3
  <1>4. ASSUME NEW h, Listed(q, h), h # q[i]
        PROVE  Listed(r, h)
    <2>1. PICK j \in DOMAIN q : q[j] = h BY <1>4 DEF Listed
    <2>2. CASE j < i BY <1>1, <2>1, <2>2 DEF Listed
    <2>3. CASE ~(j < i)
      <3>1. (j - 1) \in DOMAIN r /\ r[j - 1] = h BY <1>1, <1>4, <2>1, <2>3
      <3> QED BY <3>1 DEF Listed
    <2> QED BY <2>2, <2>3
  <1> QED BY <1>2, <1>3, <1>4 DEF r

\* Inserting an element that is not there adds just that element.
LEMMA InsertAtListed ==
  ASSUME NEW S, NEW q \in Seq(S), NEW i \in 1 .. (Len(q) + 1), NEW e \in S,
         Unrepeated(q), ~Listed(q, e)
  PROVE  /\ Unrepeated(InsertAt(q, i, e))
         /\ \A h : Listed(InsertAt(q, i, e), h) <=> Listed(q, h) \/ h = e
  <1> DEFINE r == InsertAt(q, i, e)
  <1>1. /\ Len(q) \in Nat /\ DOMAIN q = 1 .. Len(q) /\ DOMAIN r = 1 .. (Len(q) + 1)
        /\ \A j \in 1 .. (Len(q) + 1) : r[j] = IF j < i THEN q[j] ELSE IF j = i THEN e ELSE q[j - 1]
    BY InsertAtElements
  <1> HIDE DEF r
  <1>2. Unrepeated(r) BY <1>1 DEF Unrepeated, Listed
  <1>3. ASSUME NEW h, Listed(r, h), h # e
        PROVE  Listed(q, h)
    <2>1. PICK j \in DOMAIN r : r[j] = h BY <1>3 DEF Listed
    <2>2. CASE j < i BY <1>1, <2>1, <2>2 DEF Listed
    <2>3. CASE ~(j < i) BY <1>1, <1>3, <2>1, <2>3 DEF Listed
    <2> QED BY <2>2, <2>3
  <1>4. ASSUME NEW h, Listed(q, h)
        PROVE  Listed(r, h)
    <2>1. PICK j \in DOMAIN q : q[j] = h BY <1>4 DEF Listed
    <2>2. CASE j < i BY <1>1, <2>1, <2>2 DEF Listed
    <2>3. CASE ~(j < i)
      <3>1. (j + 1) \in DOMAIN r /\ r[j + 1] = h BY <1>1, <2>1, <2>3
      <3> QED BY <3>1 DEF Listed
    <2> QED BY <2>2, <2>3
  <1>5. Listed(r, e) BY <1>1 DEF Listed
  <1> QED BY <1>2, <1>3, <1>4, <1>5 DEF r

\* The same for the end of the queue.
LEMMA AppendListed ==
  ASSUME NEW S, NEW q \in Seq(S), NEW e \in S, Unrepeated(q), ~Listed(q, e)
  PROVE  /\ Unrepeated(Append(q, e))
         /\ \A h : Listed(Append(q, e), h) <=> Listed(q, h) \/ h = e
  <1> DEFINE r == Append(q, e)
  <1>1. /\ Len(q) \in Nat /\ DOMAIN q = 1 .. Len(q) /\ DOMAIN r = 1 .. (Len(q) + 1)
        /\ \A j \in 1 .. Len(q) : r[j] = q[j]
        /\ r[Len(q) + 1] = e
    OBVIOUS
  <1> HIDE DEF r
  <1>2. Unrepeated(r) BY <1>1 DEF Unrepeated, Listed
  <1>3. ASSUME NEW h, Listed(r, h), h # e
        PROVE  Listed(q, h)
    BY <1>1, <1>3 DEF Listed
  <1>4. ASSUME NEW h, Listed(q, h)
        PROVE  Listed(r, h)
    BY <1>1, <1>4 DEF Listed
  <1>5. Listed(r, e) BY <1>1 DEF Listed
  <1> QED BY <1>2, <1>3, <1>4, <1>5 DEF r

-----------------------------------------------------------------------------
(* The invariant.                                                          *)

\* Each queue lists a task once, exactly when the task's class is the queue's.
Placed(q, t) ==
  /\ \A c \in QueueClasses : Unrepeated(q[c])
  /\ \A h \in Gid : \A c \in QueueClasses : Listed(q[c], h) <=> c = QueueClass(t[h])

\* Clients were shown the state and the generation of every task whose outcome
\* is not pending.
ShownCurrent ==
  \A g \in Gid : tasks[g].state \notin TerminalPending =>
    published[g].state = tasks[g].state /\ published[g].generation = tasks[g].generation

\* One stopped result at a time is being deleted.
OneDeletion ==
  \A g, h \in Gid :
    tasks[g].barrier.kind = "StoppedResultDeletion"
      /\ tasks[h].barrier.kind = "StoppedResultDeletion" => g = h

\* highest_task_id is what it says.
IdsBounded == \A g \in Gid : tasks[g].id <= highestTaskId

\* What the steps of the scheduler preserve together with SchedulerInv.
DecisionInv ==
  /\ SchedulerInv
  /\ \A g \in Gid : TaskInv(tasks[g])
  /\ QueueExact
  /\ ShownCurrent
  /\ OneDeletion
  /\ IdsBounded
  /\ IdentitiesDistinct

\* What no step does: revert a decision about a task that stays, or change the
\* order of stopped results under a deletion.
StepKeeps ==
  /\ \A g \in Gid : \/ Decided(tasks[g], tasks'[g])
                    \/ tasks'[g].id # tasks[g].id /\ tasks[g].state # "PausedHostKey"
  /\ DeletionPending /\ DeletionPending' => queues'["Stopped"] = queues["Stopped"]

\* t and u differ at most in what nothing here depends on.
Same(t, u) ==
  /\ u.id = t.id /\ u.state = t.state /\ u.generation = t.generation /\ u.slot = t.slot
  /\ u.barrier = t.barrier /\ u.userControl = t.userControl
  /\ u.sourceReplacement = t.sourceReplacement /\ u.desiredPaused = t.desiredPaused
  /\ u.credential = t.credential /\ u.noSpace = t.noSpace
  /\ u.retryTimer = t.retryTimer /\ u.slowReadmission = t.slowReadmission /\ u.probe = t.probe
  /\ u.challenge = t.challenge /\ u.stoppedStatus = t.stoppedStatus
  /\ u.terminalPersisted = t.terminalPersisted

\* A task that stays the same is in the same queue, keeps what held of it, and
\* no decision about it changes.
LEMMA SameKeeps ==
  ASSUME NEW t, NEW u, Same(t, u)
  PROVE  /\ QueueClass(u) = QueueClass(t)
         /\ TaskInv(t) => TaskInv(u)
         /\ Decided(t, u)
  <1>1. QueueClass(u) = QueueClass(t) BY DEF Same, QueueClass, OwnsSlot
  <1>2. TaskInv(t) => TaskInv(u) BY DEF Same, TaskInv, DefersUserControl, BlocksAdmission
  <1>3. Decided(t, u) BY DEF Same, Decided, RemoveAccepted, Finished, ForcedDrain
  <1> QED BY <1>1, <1>2, <1>3

\* Admission changes no other task but for the place of the demoted ones.
LEMMA RestSame ==
  ASSUME StateOK, NEW rest \in {tasks, AdvanceDemoted}, NEW h \in Gid
  PROVE  Same(tasks[h], rest[h]) /\ DOMAIN rest = Gid
  <1>1. DOMAIN tasks[h] = FieldNames /\ DOMAIN tasks = Gid BY TaskDomain DEF StateOK
  <1>2. \/ rest[h] = tasks[h]
        \/ rest[h] = [tasks[h] EXCEPT !.slowPos = tasks[h].slowPos - 1]
    BY <1>1 DEF AdvanceDemoted, FieldNames
  <1>3. DOMAIN rest = Gid BY <1>1 DEF AdvanceDemoted
  <1> QED BY <1>1, <1>2, <1>3 DEF Same, FieldNames

\* Every class is a queue's or "None".
LEMMA QueueClassType ==
  ASSUME NEW t
  PROVE  QueueClass(t) \in QueueClasses \cup {"None"}
  BY DEF QueueClass, QueueClasses

\* Membership, element by element.
LEMMA MembershipListed ==
  ASSUME NEW g, NEW class \in QueueClasses \cup {"None"}
  PROVE  MembershipExact(g, class) <=> \A c \in QueueClasses : Listed(queues[c], g) <=> c = class
  <1>1. "None" \notin QueueClasses BY DEF QueueClasses
  <1>2. \A c \in QueueClasses : InQueue(g, c) <=> Listed(queues[c], g) BY DEF InQueue, Listed
  <1> QED BY <1>1, <1>2 DEF MembershipExact

\* QueueExact, element by element, before and after a step.
LEMMA QueueExactPlaced ==
  /\ QueueExact <=> Placed(queues, tasks)
  /\ QueueExact' <=> Placed(queues', tasks')
  <1>1. "None" \notin QueueClasses BY DEF QueueClasses
  <1>2. ASSUME NEW S \in SUBSET QueueClasses, NEW t
        PROVE  S = {QueueClass(t)} \ {"None"} <=> \A c \in QueueClasses : c \in S <=> c = QueueClass(t)
    BY <1>1, QueueClassType
  <1>3. QueueExact <=> Placed(queues, tasks)
    BY QueueClassType, MembershipListed DEF QueueExact, Placed, Unrepeated
  <1>4. QueueExact' <=> Placed(queues', tasks')
    <2>1. ASSUME NEW h \in Gid
          PROVE  MembershipExact(h, QueueClass(tasks[h]))' <=>
                   \A c \in QueueClasses : Listed(queues'[c], h) <=> c = QueueClass(tasks'[h])
      <3> DEFINE S == {c \in QueueClasses : \E i \in DOMAIN queues'[c] : queues'[c][i] = h}
      <3>1. MembershipExact(h, QueueClass(tasks[h]))' <=> S = {QueueClass(tasks'[h])} \ {"None"}
        BY DEF MembershipExact, InQueue
      <3>2. \A c \in QueueClasses : c \in S <=> Listed(queues'[c], h) BY DEF Listed
      <3>3. S \in SUBSET QueueClasses OBVIOUS
      <3> HIDE DEF S
      <3> QED BY <1>2, <3>1, <3>2, <3>3
    <2> QED BY <2>1, Zenon DEF QueueExact, Placed, Unrepeated
  <1> QED BY <1>3, <1>4

\* queue_updates moves the one task it is called for.
LEMMA QueuesAfterPlaced ==
  ASSUME StateOK, NEW g \in Gid, NEW from \in QueueClasses \cup {"None"},
         NEW to \in QueueClasses \cup {"None"}, NEW class \in QueueClasses,
         Unrepeated(queues[class]), Listed(queues[class], g) <=> class = from,
         NEW q, q = QueuesAfter(g, from, to)[class]
  PROVE  /\ Unrepeated(q)
         /\ Listed(q, g) <=> class = to
         /\ \A h : h # g => (Listed(q, h) <=> Listed(queues[class], h))
  <1> DEFINE p == Position(g, class)
  <1>1. queues[class] \in Seq(Gid) BY DEF StateOK
  <1>2. CASE from = to BY <1>2 DEF QueuesAfter
  <1>3. CASE from # to /\ class = from
    <2>1. p \in DOMAIN queues[class] /\ queues[class][p] = g BY <1>3 DEF Position, Listed
    <2>2. q = RemoveAt(queues[class], p) BY <1>3 DEF QueuesAfter
    <2> HIDE DEF p
    <2>3. Unrepeated(q) /\ \A h : Listed(q, h) <=> Listed(queues[class], h) /\ h # g
      BY <1>1, <2>1, <2>2, RemoveAtListed
    <2> QED BY <1>3, <2>3
  <1>4. CASE from # to /\ class # from /\ class = to BY <1>4, <1>1, AppendListed DEF QueuesAfter
  <1>5. CASE from # to /\ class # from /\ class # to BY <1>5 DEF QueuesAfter
  <1> QED BY <1>2, <1>3, <1>4, <1>5

\* When one task of the step is new to its class and the others stay in theirs,
\* every queue is exact again.
LEMMA QueuesKept ==
  ASSUME StateOK, QueueExact, NEW g \in Gid, NEW class \in QueueClasses \cup {"None"},
         queues' = QueuesAfter(g, QueueClass(tasks[g]), class), QueueClass(tasks'[g]) = class,
         \A h \in Gid : h # g => QueueClass(tasks'[h]) = QueueClass(tasks[h])
  PROVE  QueueExact'
  <1> DEFINE from == QueueClass(tasks[g])
  <1>1. Placed(queues, tasks) BY QueueExactPlaced
  <1>2. from \in QueueClasses \cup {"None"} BY QueueClassType
  <1>3. ASSUME NEW c \in QueueClasses
        PROVE  /\ Unrepeated(queues'[c])
               /\ Listed(queues'[c], g) <=> c = class
               /\ \A h : h # g => (Listed(queues'[c], h) <=> Listed(queues[c], h))
    <2>1. Unrepeated(queues[c]) /\ (Listed(queues[c], g) <=> c = from) BY <1>1 DEF Placed
    <2> DEFINE q == QueuesAfter(g, from, class)[c]
    <2>2. queues'[c] = q OBVIOUS
    <2> HIDE DEF from, q
    <2>3. /\ Unrepeated(q)
          /\ Listed(q, g) <=> c = class
          /\ \A h : h # g => (Listed(q, h) <=> Listed(queues[c], h))
      BY <1>2, <2>1, QueuesAfterPlaced DEF q
    <2> QED BY <2>2, <2>3
  <1>4. Placed(queues', tasks') BY <1>1, <1>3 DEF Placed
  <1> QED BY <1>4, QueueExactPlaced

\* Identities stay distinct when at most one of them is new.
LEMMA RenewedDistinct ==
  ASSUME NEW old \in [Gid -> Nat], NEW new \in [Gid -> Nat], NEW n \in Nat \ {0}, NEW m, NEW g \in Gid,
         \A h \in Gid : old[h] < n,
         \A h, k \in Gid : h # k /\ old[h] = old[k] => old[h] = 0,
         \A h \in Gid : h # g => new[h] = old[h],
         Renewed(old[g], new[g], n, m)
  PROVE  /\ \A h \in Gid : new[h] < m
         /\ \A h, k \in Gid : h # k /\ new[h] = new[k] => new[h] = 0
  BY DEF Renewed

-----------------------------------------------------------------------------
(* A committed task keeps the invariant.                                   *)

\* What finish_action requires and assigns, for the parts of the invariant.
LEMMA CommitFacts ==
  ASSUME NEW g \in Gid, NEW u, NEW target, NEW effs, NEW queueFirst, NEW publish, NEW newIds, NEW rest,
         Commit(g, u, target, effs, queueFirst, publish, newIds, rest)
  PROVE  /\ tasks' = [rest EXCEPT ![g] = u]
         /\ queues' = QueuesAfter(g, QueueClass(tasks[g]), QueueClass(u))
         /\ ids' = newIds /\ highestTaskId' = highestTaskId
         /\ published' = IF publish THEN [published EXCEPT ![g] = SnapshotOf(u)] ELSE published
         /\ QueueClass(tasks[g]) # QueueClass(u)
              /\ "Stopped" \in {QueueClass(tasks[g]), QueueClass(u)} => ~DeletionPending
         /\ tasks[g].state # "Absent"
  BY Zenon DEF Commit, Acceptable

\* A handler's step keeps the invariant and the decisions.
LEMMA HandlerKeeps ==
  ASSUME DecisionInv, SchedulerInv', NEW g \in Gid, HandlerStep(g)
  PROVE  DecisionInv' /\ StepKeeps
  <1>1. PICK u, target, effs, queueFirst, publish, newIds, rest :
               /\ Commit(g, u, target, effs, queueFirst, publish, newIds, rest)
               /\ Handled(g, u, publish, newIds)
               /\ rest \in {tasks, AdvanceDemoted}
    BY DEF HandlerStep
  <1> DEFINE t == tasks[g]
  <1>2. StateOK /\ StateOK' BY DEF DecisionInv, SchedulerInv
  <1>3. /\ tasks' = [rest EXCEPT ![g] = u]
        /\ queues' = QueuesAfter(g, QueueClass(t), QueueClass(u))
        /\ ids' = newIds /\ highestTaskId' = highestTaskId
        /\ published' = IF publish THEN [published EXCEPT ![g] = SnapshotOf(u)] ELSE published
        /\ QueueClass(t) # QueueClass(u) /\ "Stopped" \in {QueueClass(t), QueueClass(u)} =>
             ~DeletionPending
    BY <1>1, CommitFacts
  <1>4. /\ \A h \in Gid : h # g => Same(tasks[h], tasks'[h])
        /\ tasks'[g] = u
    BY <1>1, <1>2, RestSame, <1>3
  <1>5. /\ TaskInv(u) /\ Decided(t, u) /\ Shown(t, u, publish) /\ u.id = t.id
        /\ u.barrier.kind = "StoppedResultDeletion" =>
             t.barrier.kind = "StoppedResultDeletion" \/ ~DeletionPending
        /\ Renewed(t.retryTimer, u.retryTimer, ids.retry, newIds.retry)
        /\ Renewed(t.slowReadmission, u.slowReadmission, ids.slow, newIds.slow)
        /\ Renewed(t.probe, u.probe, ids.probe, newIds.probe)
    BY <1>1, Zenon DEF Handled
  <1>6. \A h \in Gid : TaskInv(tasks'[h]) BY <1>4, <1>5, SameKeeps DEF DecisionInv
  <1>7. QueueExact' BY <1>4, SameKeeps, QueueClassType, <1>2, <1>3, QueuesKept DEF DecisionInv
  <1>8. ShownCurrent'
    <2> SUFFICES ASSUME NEW h \in Gid, tasks'[h].state \notin TerminalPending
                 PROVE  /\ published'[h].state = tasks'[h].state
                        /\ published'[h].generation = tasks'[h].generation
      BY DEF ShownCurrent
    <2>1. DOMAIN published = Gid BY <1>2 DEF StateOK
    <2>2. tasks[h].state \notin TerminalPending =>
            published[h].state = tasks[h].state /\ published[h].generation = tasks[h].generation
      BY DEF DecisionInv, ShownCurrent
    <2>3. CASE h # g BY <1>3, <2>1, <2>3, <1>4, <2>2 DEF Same
    <2>4. CASE h = g /\ publish BY <1>3, <2>1, <2>4, <1>4 DEF SnapshotOf
    <2>5. CASE h = g /\ ~publish BY <1>3, <1>4, <1>5, <2>2, <2>5 DEF Shown
    <2> QED BY <2>3, <2>4, <2>5
  <1>9. OneDeletion' BY <1>4, <1>5 DEF DecisionInv, OneDeletion, DeletionPending, Same
  <1>10. IdsBounded' BY <1>3, <1>4, <1>5 DEF DecisionInv, IdsBounded, Same
  <1>11. IdentitiesDistinct'
    <2>1. /\ \A h \in Gid : tasks[h] \in Tasks /\ tasks'[h] \in Tasks
          /\ ids.retry \in Nat \ {0} /\ ids.slow \in Nat \ {0} /\ ids.probe \in Nat \ {0}
      BY <1>2, BoundsAssumption DEF StateOK, IdKinds
    <2>2. \A h \in Gid : /\ tasks[h].retryTimer \in Nat /\ tasks'[h].retryTimer \in Nat
                         /\ tasks[h].slowReadmission \in Nat /\ tasks'[h].slowReadmission \in Nat
                         /\ tasks[h].probe \in Nat /\ tasks'[h].probe \in Nat
      BY <2>1, BoundsAssumption DEF Tasks, Tokens
    <2>3. IdentitiesDistinct BY DEF DecisionInv
    <2>4. /\ \A h \in Gid : tasks'[h].retryTimer < newIds.retry
          /\ \A h, k \in Gid : h # k /\ tasks'[h].retryTimer = tasks'[k].retryTimer =>
               tasks'[h].retryTimer = 0
      <3> DEFINE old == [h \in Gid |-> tasks[h].retryTimer]
                 new == [h \in Gid |-> tasks'[h].retryTimer]
      <3>1. old \in [Gid -> Nat] /\ new \in [Gid -> Nat] BY <2>2
      <3>2. /\ \A h \in Gid : old[h] < ids.retry
            /\ \A h, k \in Gid : h # k /\ old[h] = old[k] => old[h] = 0
            /\ \A h \in Gid : h # g => new[h] = old[h]
        BY <1>4, <2>3 DEF IdentitiesDistinct, Same
      <3>3. /\ \A h \in Gid : new[h] = tasks'[h].retryTimer
            /\ old[g] = t.retryTimer /\ new[g] = u.retryTimer
        BY <1>4
      <3> HIDE DEF old, new
      <3>4. /\ \A h \in Gid : new[h] < newIds.retry
            /\ \A h, k \in Gid : h # k /\ new[h] = new[k] => new[h] = 0
        BY <1>5, <2>1, <3>1, <3>2, <3>3, RenewedDistinct
      <3> QED BY <3>3, <3>4
    <2>5. /\ \A h \in Gid : tasks'[h].slowReadmission < newIds.slow
          /\ \A h, k \in Gid : h # k /\ tasks'[h].slowReadmission = tasks'[k].slowReadmission =>
               tasks'[h].slowReadmission = 0
      <3> DEFINE old == [h \in Gid |-> tasks[h].slowReadmission]
                 new == [h \in Gid |-> tasks'[h].slowReadmission]
      <3>1. old \in [Gid -> Nat] /\ new \in [Gid -> Nat] BY <2>2
      <3>2. /\ \A h \in Gid : old[h] < ids.slow
            /\ \A h, k \in Gid : h # k /\ old[h] = old[k] => old[h] = 0
            /\ \A h \in Gid : h # g => new[h] = old[h]
        BY <1>4, <2>3 DEF IdentitiesDistinct, Same
      <3>3. /\ \A h \in Gid : new[h] = tasks'[h].slowReadmission
            /\ old[g] = t.slowReadmission /\ new[g] = u.slowReadmission
        BY <1>4
      <3> HIDE DEF old, new
      <3>4. /\ \A h \in Gid : new[h] < newIds.slow
            /\ \A h, k \in Gid : h # k /\ new[h] = new[k] => new[h] = 0
        BY <1>5, <2>1, <3>1, <3>2, <3>3, RenewedDistinct
      <3> QED BY <3>3, <3>4
    <2>6. /\ \A h \in Gid : tasks'[h].probe < newIds.probe
          /\ \A h, k \in Gid : h # k /\ tasks'[h].probe = tasks'[k].probe => tasks'[h].probe = 0
      <3> DEFINE old == [h \in Gid |-> tasks[h].probe]
                 new == [h \in Gid |-> tasks'[h].probe]
      <3>1. old \in [Gid -> Nat] /\ new \in [Gid -> Nat] BY <2>2
      <3>2. /\ \A h \in Gid : old[h] < ids.probe
            /\ \A h, k \in Gid : h # k /\ old[h] = old[k] => old[h] = 0
            /\ \A h \in Gid : h # g => new[h] = old[h]
        BY <1>4, <2>3 DEF IdentitiesDistinct, Same
      <3>3. /\ \A h \in Gid : new[h] = tasks'[h].probe
            /\ old[g] = t.probe /\ new[g] = u.probe
        BY <1>4
      <3> HIDE DEF old, new
      <3>4. /\ \A h \in Gid : new[h] < newIds.probe
            /\ \A h, k \in Gid : h # k /\ new[h] = new[k] => new[h] = 0
        BY <1>5, <2>1, <3>1, <3>2, <3>3, RenewedDistinct
      <3> QED BY <3>3, <3>4
    <2>7. \A h, k \in Gid : h # k /\ tasks'[h].id = tasks'[k].id => tasks'[h].id = 0
      BY <1>4, <1>5, <2>3 DEF Same, IdentitiesDistinct
    <2> QED BY <1>3, <2>4, <2>5, <2>6, <2>7 DEF IdentitiesDistinct
  <1>12. StepKeeps BY <1>4, <1>5, SameKeeps, <1>3 DEF QueuesAfter, QueueClasses, StepKeeps
  <1> QED BY <1>6, <1>7, <1>8, <1>9, <1>10, <1>11, <1>12 DEF DecisionInv

-----------------------------------------------------------------------------
(* The steps that do not end with finish_action.                           *)

\* A step that leaves the tasks, their queues and what was shown alone.
LEMMA QuietKeeps ==
  ASSUME DecisionInv, SchedulerInv', UNCHANGED <<tasks, queues, highestTaskId, ids, published>>
  PROVE  DecisionInv' /\ StepKeeps
  <1>1. QueueExact' BY QueueExactPlaced DEF DecisionInv
  <1>2. \A g \in Gid : Same(tasks[g], tasks'[g]) BY DEF Same
  <1>3. \A g \in Gid : TaskInv(tasks'[g]) BY DEF DecisionInv
  <1>4. ShownCurrent' /\ OneDeletion' /\ IdsBounded' /\ IdentitiesDistinct'
    BY DEF DecisionInv, ShownCurrent, OneDeletion, IdsBounded, IdentitiesDistinct
  <1>5. StepKeeps BY <1>2, SameKeeps DEF StepKeeps
  <1> QED BY <1>1, <1>3, <1>4, <1>5 DEF DecisionInv

\* change_position: the queue lists the same tasks in another order.
LEMMA ChangePositionKeeps ==
  ASSUME DecisionInv, SchedulerInv', NEW g \in Gid, NEW position \in Nat, ChangePosition(g, position)
  PROVE  DecisionInv' /\ StepKeeps
  <1> DEFINE class == QueueClass(tasks[g])
             q     == queues[class]
             p     == Position(g, class)
             r     == RemoveAt(q, p)
             s     == InsertAt(r, position + 1, g)
  <1>1. /\ class # "None" /\ (class = "Stopped" => ~DeletionPending)
        /\ position < Len(q) /\ InQueue(g, class)
        /\ queues' = [queues EXCEPT ![class] = s]
        /\ UNCHANGED <<tasks, highestTaskId, ids, published>>
    BY DEF ChangePosition
  <1>2. class \in QueueClasses BY <1>1, QueueClassType
  <1>3. StateOK /\ Placed(queues, tasks) BY QueueExactPlaced DEF DecisionInv, SchedulerInv
  <1>4. q \in Seq(Gid) /\ Unrepeated(q) /\ DOMAIN queues = QueueClasses BY <1>2, <1>3 DEF StateOK, Placed
  <1>5. p \in DOMAIN q /\ q[p] = g BY <1>1 DEF InQueue, Position
  <1> HIDE DEF class, p
  <1>6. r \in Seq(Gid) BY <1>4, <1>5, RemoveAtType
  <1>7. Unrepeated(r) /\ (\A h : Listed(r, h) <=> Listed(q, h) /\ h # g) /\ Len(r) = Len(q) - 1
    BY <1>4, <1>5, RemoveAtListed, RemoveAtElements
  <1>8. Listed(q, g) BY <1>5 DEF Listed
  <1> HIDE DEF r
  <1>9. Unrepeated(s) /\ \A h : Listed(s, h) <=> Listed(q, h)
    <2>1. (position + 1) \in 1 .. (Len(r) + 1) /\ ~Listed(r, g) BY <1>1, <1>4, <1>7
    <2>2. Unrepeated(s) /\ \A h : Listed(s, h) <=> Listed(r, h) \/ h = g BY <1>6, <1>7, <2>1, InsertAtListed
    <2> HIDE DEF s
    <2> QED BY <1>7, <1>8, <2>2
  <1> HIDE DEF s
  <1>10. Placed(queues', tasks') BY <1>1, <1>4, <1>3, <1>9 DEF Placed
  <1>11. QueueExact' BY <1>10, QueueExactPlaced
  <1>12. \A h \in Gid : TaskInv(tasks'[h]) /\ Same(tasks[h], tasks'[h]) BY <1>1 DEF DecisionInv, Same
  <1>13. ShownCurrent' /\ OneDeletion' /\ IdsBounded' /\ IdentitiesDistinct'
    BY <1>1 DEF DecisionInv, ShownCurrent, OneDeletion, IdsBounded, IdentitiesDistinct
  <1>14. DeletionPending => queues'["Stopped"] = queues["Stopped"] BY <1>1, <1>4
  <1>15. StepKeeps BY <1>12, <1>14, SameKeeps DEF StepKeeps
  <1> QED BY <1>11, <1>12, <1>13, <1>15 DEF DecisionInv

\* Task identities, and none, are numbers.
LEMMA TaskIdsNatural == \A x \in TaskIds \cup {0} : x \in Nat
  BY BoundsAssumption

\* A step that replaces one task by another, or by none: it owes nothing, and
\* its identity is a new one.
LEMMA ReplacedKeeps ==
  ASSUME DecisionInv, SchedulerInv', NEW g \in Gid,
         \A h \in Gid : h # g => tasks'[h] = tasks[h] /\ published'[h] = published[h],
         TaskInv(tasks'[g]), tasks'[g].barrier.kind = "None",
         tasks'[g].retryTimer = 0, tasks'[g].slowReadmission = 0, tasks'[g].probe = 0,
         published'[g].state = tasks'[g].state, published'[g].generation = tasks'[g].generation,
         \/ tasks'[g].id = 0 /\ highestTaskId' = highestTaskId
         \/ tasks'[g].id > highestTaskId /\ highestTaskId' = tasks'[g].id,
         tasks'[g].id # tasks[g].id, tasks[g].state # "PausedHostKey",
         ids' = ids, QueueExact',
         DeletionPending /\ DeletionPending' => queues'["Stopped"] = queues["Stopped"]
  PROVE  DecisionInv' /\ StepKeeps
  <1>1. StateOK /\ StateOK' BY DEF DecisionInv, SchedulerInv
  <1>2. /\ \A h \in Gid : tasks[h].id \in Nat /\ tasks'[h].id \in Nat
        /\ highestTaskId \in Nat /\ highestTaskId' \in Nat
        /\ ids.retry \in Nat \ {0} /\ ids.slow \in Nat \ {0} /\ ids.probe \in Nat \ {0}
    <2>1. \A h \in Gid : tasks[h] \in Tasks /\ tasks'[h] \in Tasks BY <1>1 DEF StateOK
    <2>2. \A x \in TaskIds \cup {0} : x \in Nat BY TaskIdsNatural
    <2>3. \A t \in Tasks : t.id \in TaskIds \cup {0} BY DEF Tasks
    <2>4. highestTaskId \in TaskIds \cup {0} /\ highestTaskId' \in TaskIds \cup {0} BY <1>1 DEF StateOK
    <2>5. ids.retry \in Nat \ {0} /\ ids.slow \in Nat \ {0} /\ ids.probe \in Nat \ {0}
      BY <1>1, BoundsAssumption DEF StateOK, IdKinds
    <2> QED BY <2>1, <2>2, <2>3, <2>4, <2>5
  <1>3. \A h \in Gid : TaskInv(tasks'[h]) BY DEF DecisionInv
  <1>4. ShownCurrent' /\ OneDeletion' BY DEF DecisionInv, ShownCurrent, OneDeletion
  <1>5. IdsBounded' BY <1>2 DEF DecisionInv, IdsBounded
  <1>6. IdentitiesDistinct' BY <1>2 DEF DecisionInv, IdentitiesDistinct, IdsBounded
  <1>7. \A h \in Gid : h # g => Same(tasks[h], tasks'[h]) BY DEF Same
  <1>8. StepKeeps BY <1>7, SameKeeps DEF StepKeeps
  <1> QED BY <1>3, <1>4, <1>5, <1>6, <1>8 DEF DecisionInv

\* A deleted result is forgotten, and no other deletion is pending.
LEMMA DeletedKeeps ==
  ASSUME DecisionInv, SchedulerInv', NEW e, e.gid \in Gid, NEW deletion,
         StoppedResultDeleted(e, deletion)
  PROVE  DecisionInv' /\ StepKeeps
  <1> DEFINE g == e.gid
             t == tasks[g]
  <1>1. /\ tasks' = [tasks EXCEPT ![g] = AbsentTask]
        /\ queues' = QueuesAfter(g, QueueClass(t), "None")
        /\ published' = [published EXCEPT ![g] = NoSnapshot]
        /\ highestTaskId' = highestTaskId /\ ids' = ids
        /\ t.barrier.kind = "StoppedResultDeletion"
        /\ OutcomeTarget(t.state, "StoppedResultDeletionSucceeded") = Deleted
    BY DEF StoppedResultDeleted, Awaits
  <1>2. t.state = "StoppedResult" BY <1>1 DEF OutcomeTarget, Move, Conflict, Deleted
  <1>3. StateOK /\ DOMAIN tasks = Gid /\ DOMAIN published = Gid BY DEF DecisionInv, SchedulerInv, StateOK
  <1>4. /\ tasks'[g] = AbsentTask /\ published'[g] = NoSnapshot
        /\ \A h \in Gid : h # g => tasks'[h] = tasks[h] /\ published'[h] = published[h]
    BY <1>1, <1>3
  <1>5. /\ AbsentTask.state = "Absent" /\ AbsentTask.id = 0 /\ AbsentTask.generation = 0
        /\ AbsentTask.barrier.kind = "None" /\ AbsentTask.userControl = "None"
        /\ ~AbsentTask.sourceReplacement /\ AbsentTask.retryTimer = 0
        /\ AbsentTask.slowReadmission = 0 /\ AbsentTask.probe = 0
    BY DEF AbsentTask, NewTask, NoBarrier
  <1>6. TaskInv(AbsentTask) BY <1>5 DEF TaskInv, TerminalPending, WorkingStates, DefersUserControl
  <1>7. t.id # 0 BY <1>2 DEF DecisionInv, TaskInv
  <1>8. QueueClass(AbsentTask) = "None" BY <1>5 DEF QueueClass, WorkingStates, ParkedStates, TerminalPending
  <1>9. QueueExact' BY <1>1, <1>3, <1>4, <1>8, QueuesKept DEF DecisionInv
  <1>10. ~DeletionPending' BY <1>1, <1>4, <1>5 DEF DecisionInv, OneDeletion, DeletionPending
  <1>11. NoSnapshot.state = "Absent" /\ NoSnapshot.generation = 0 BY DEF NoSnapshot
  <1> QED BY <1>1, <1>2, <1>4, <1>5, <1>6, <1>7, <1>9, <1>10, <1>11, ReplacedKeeps

\* The queues of a new task.
LEMMA FirstClass ==
  ASSUME NEW u
  PROVE  /\ u.state = "Paused" => QueueClass(u) = "Paused"
         /\ u.state = "Waiting" => QueueClass(u) = "Waiting"
  BY DEF QueueClass, WorkingStates, ParkedStates, TerminalPending

\* add_validated_task: the new task is in the queue of its first state.
LEMMA AddKeeps ==
  ASSUME DecisionInv, SchedulerInv', NEW g \in Gid, NEW id \in TaskIds, NEW desiredPaused \in BOOLEAN,
         NEW credential, NEW noSpace, NEW position \in Nat,
         AddValidatedTask(g, id, desiredPaused, credential, noSpace, position)
  PROVE  DecisionInv' /\ StepKeeps
  <1> DEFINE action == IF desiredPaused THEN "ValidationSucceededPaused" ELSE "ValidationSucceeded"
             new    == NewTask(id, desiredPaused, credential, noSpace)
             target == ControlTarget(new.state, action)
             u      == [new EXCEPT !.state = target]
             class  == QueueClass(u)
             length == Len(queues[class])
             at     == IF position < length THEN position ELSE length
             s      == InsertAt(queues[class], at + 1, g)
  <1>1. /\ tasks[g].state = "Absent" /\ id > highestTaskId
        /\ \A c \in QueueClasses : ~InQueue(g, c)
        /\ tasks' = [tasks EXCEPT ![g] = u]
        /\ queues' = [queues EXCEPT ![class] = s]
        /\ highestTaskId' = id /\ ids' = ids
        /\ published' = [published EXCEPT ![g] = SnapshotOf(u)]
    BY DEF AddValidatedTask, Present
  <1>2. target = IF desiredPaused THEN "Paused" ELSE "Waiting" BY DEF NewTask, ControlTarget, Move
  <1> HIDE DEF target
  <1>3. /\ u.id = id /\ u.state = target /\ u.generation = 0 /\ u.barrier.kind = "None"
        /\ u.userControl = "None" /\ ~u.sourceReplacement
        /\ u.retryTimer = 0 /\ u.slowReadmission = 0 /\ u.probe = 0
    <2>1. /\ DOMAIN new = FieldNames /\ new.id = id /\ new.generation = 0
          /\ new.barrier.kind = "None" /\ new.userControl = "None" /\ ~new.sourceReplacement
          /\ new.retryTimer = 0 /\ new.slowReadmission = 0 /\ new.probe = 0
      BY DEF NewTask, NoBarrier, FieldNames
    <2> HIDE DEF new
    <2> QED BY <2>1 DEF FieldNames
  <1> HIDE DEF u
  <1>4. class = IF desiredPaused THEN "Paused" ELSE "Waiting"
    <2>1. CASE desiredPaused BY <1>2, <1>3, <2>1, FirstClass
    <2>2. CASE ~desiredPaused BY <1>2, <1>3, <2>2, FirstClass
    <2> QED BY <2>1, <2>2
  <1>5. TaskInv(u) BY BoundsAssumption, <1>2, <1>3 DEF TaskInv, TerminalPending, WorkingStates
  <1>6. /\ StateOK /\ Placed(queues, tasks)
        /\ DOMAIN tasks = Gid /\ DOMAIN published = Gid /\ DOMAIN queues = QueueClasses
    BY QueueExactPlaced DEF DecisionInv, SchedulerInv, StateOK
  <1>7. /\ tasks'[g] = u /\ published'[g] = SnapshotOf(u)
        /\ \A h \in Gid : h # g => tasks'[h] = tasks[h] /\ published'[h] = published[h]
    BY <1>1, <1>6
  <1>8. class \in QueueClasses /\ class # "Stopped" BY <1>4 DEF QueueClasses
  <1>9. queues[class] \in Seq(Gid) /\ Unrepeated(queues[class]) /\ ~Listed(queues[class], g)
    BY <1>1, <1>6, <1>8 DEF StateOK, Placed, InQueue, Listed
  <1>10. at + 1 \in 1 .. (length + 1) BY <1>9
  <1> HIDE DEF class
  <1>11. Unrepeated(s) /\ \A h : Listed(s, h) <=> Listed(queues[class], h) \/ h = g
    <2> HIDE DEF at
    <2> QED BY <1>9, <1>10, InsertAtListed
  <1> HIDE DEF s
  <1>12. Placed(queues', tasks')
    <2>1. \A c \in QueueClasses : queues'[c] = IF c = class THEN s ELSE queues[c] BY <1>1, <1>6
    <2>2. ASSUME NEW c \in QueueClasses
          PROVE  /\ Unrepeated(queues'[c])
                 /\ \A h \in Gid : Listed(queues'[c], h) <=> c = QueueClass(tasks'[h])
      BY <1>1, <1>6, <1>11, <2>1, <1>7 DEF InQueue, Listed, Placed, class
    <2> QED BY <2>2 DEF Placed
  <1>13. QueueExact' BY <1>12, QueueExactPlaced
  <1>14. tasks[g].id = 0 /\ id # 0 BY <1>1, BoundsAssumption DEF DecisionInv, TaskInv
  <1>15. queues'["Stopped"] = queues["Stopped"] BY <1>1, <1>6, <1>8
  <1>16. SnapshotOf(u).state = u.state /\ SnapshotOf(u).generation = u.generation BY DEF SnapshotOf
  <1> QED BY <1>1, <1>3, <1>5, <1>7, <1>13, <1>14, <1>15, <1>16, ReplacedKeeps

-----------------------------------------------------------------------------
(* The recovered state.                                                    *)

\* How many of the indices N come up to i, and what the one at i is given.
Rank(N, i)    == Cardinality({j \in 1 .. i : j \in N})
RankedAt(N, i) == IF i \in N THEN Rank(N, i) ELSE 0

\* restore issues identities in the order of the batch: each needing task
\* (those in N) gets one of its own, below the counter.
LEMMA IssuedDistinct ==
  ASSUME NEW n \in Nat, NEW N \in SUBSET (1 .. n)
  PROVE  /\ \A i \in 1 .. n : RankedAt(N, i) < Cardinality(N) + 1
         /\ \A i, j \in 1 .. n : i # j /\ RankedAt(N, i) = RankedAt(N, j) => RankedAt(N, i) = 0
  <1> DEFINE P(i) == {j \in 1 .. i : j \in N}
  <1>1. IsFiniteSet(N)
    <2>1. IsFiniteSet(1 .. n) BY FS_Interval
    <2> QED BY <2>1, FS_Subset
  <1>2. \A i \in 1 .. n : P(i) \in SUBSET N OBVIOUS
  <1>3. Cardinality(N) \in Nat BY <1>1, FS_CardinalityType
  <1>4. \A i \in 1 .. n : /\ Rank(N, i) = Cardinality(P(i)) /\ IsFiniteSet(P(i))
                          /\ Cardinality(P(i)) \in Nat /\ Cardinality(P(i)) <= Cardinality(N)
    <2> SUFFICES ASSUME NEW i \in 1 .. n
                 PROVE  /\ Rank(N, i) = Cardinality(P(i)) /\ IsFiniteSet(P(i))
                        /\ Cardinality(P(i)) \in Nat /\ Cardinality(P(i)) <= Cardinality(N)
      OBVIOUS
    <2>1. Rank(N, i) = Cardinality(P(i)) /\ P(i) \in SUBSET N BY <1>2 DEF Rank
    <2> HIDE DEF P
    <2>2. IsFiniteSet(P(i)) /\ Cardinality(P(i)) <= Cardinality(N) BY <1>1, <2>1, FS_Subset
    <2> QED BY <2>1, <2>2, FS_CardinalityType
  <1>5. ASSUME NEW i \in 1 .. n, NEW j \in 1 .. n, i < j, j \in N
        PROVE  Rank(N, i) # Rank(N, j)
    <2>1. P(i) \in SUBSET P(j) /\ j \in P(j) /\ j \notin P(i) BY <1>5
    <2> HIDE DEF P
    <2>2. P(i) # P(j) BY <2>1
    <2> QED BY <1>4, <2>1, <2>2, FS_Subset
  <1>6. \A i \in 1 .. n : RankedAt(N, i) = IF i \in N THEN Rank(N, i) ELSE 0 BY DEF RankedAt
  <1> HIDE DEF P
  <1>7. \A i \in 1 .. n : RankedAt(N, i) < Cardinality(N) + 1 BY <1>3, <1>4, <1>6
  <1>8. ASSUME NEW i \in 1 .. n, NEW j \in 1 .. n, i # j, RankedAt(N, i) = RankedAt(N, j), RankedAt(N, i) # 0
        PROVE  FALSE
    BY <1>6, <1>8, <1>5
  <1> QED BY <1>7, <1>8

\* The same of a recovered batch.
LEMMA RestoredIdentities ==
  ASSUME NEW b \in Batches
  PROVE  /\ \A i \in DOMAIN b.tasks :
              /\ IssuedFor(b, i, NeedsRetry) < IssuedUpTo(b, Len(b.tasks), NeedsRetry) + 1
              /\ IssuedFor(b, i, NeedsSlow) < IssuedUpTo(b, Len(b.tasks), NeedsSlow) + 1
              /\ IssuedFor(b, i, NeedsProbe) < IssuedUpTo(b, Len(b.tasks), NeedsProbe) + 1
         /\ \A i, j \in DOMAIN b.tasks : i # j =>
              /\ IssuedFor(b, i, NeedsRetry) = IssuedFor(b, j, NeedsRetry) =>
                   IssuedFor(b, i, NeedsRetry) = 0
              /\ IssuedFor(b, i, NeedsSlow) = IssuedFor(b, j, NeedsSlow) =>
                   IssuedFor(b, i, NeedsSlow) = 0
              /\ IssuedFor(b, i, NeedsProbe) = IssuedFor(b, j, NeedsProbe) =>
                   IssuedFor(b, i, NeedsProbe) = 0
  <1> DEFINE n    == Len(b.tasks)
             R    == {i \in 1 .. n : NeedsRetry(b.tasks[i])}
             S    == {i \in 1 .. n : NeedsSlow(b.tasks[i])}
             P    == {i \in 1 .. n : NeedsProbe(b.tasks[i])}
  <1>1. n \in Nat /\ DOMAIN b.tasks = 1 .. n BY DEF Batches
  <1>2. ASSUME NEW N \in SUBSET (1 .. n)
        PROVE  /\ \A i \in 1 .. n : RankedAt(N, i) < Cardinality(N) + 1
               /\ \A i, j \in 1 .. n : i # j /\ RankedAt(N, i) = RankedAt(N, j) => RankedAt(N, i) = 0
    <2> HIDE DEF n
    <2> QED BY <1>1, IssuedDistinct
  <1>3. R \in SUBSET (1 .. n) /\ S \in SUBSET (1 .. n) /\ P \in SUBSET (1 .. n) OBVIOUS
  <1>4. /\ IssuedUpTo(b, n, NeedsRetry) = Cardinality(R)
        /\ IssuedUpTo(b, n, NeedsSlow) = Cardinality(S)
        /\ IssuedUpTo(b, n, NeedsProbe) = Cardinality(P)
    BY DEF IssuedUpTo
  <1>5. ASSUME NEW i \in 1 .. n
        PROVE  /\ IssuedFor(b, i, NeedsRetry) = RankedAt(R, i)
               /\ IssuedFor(b, i, NeedsSlow) = RankedAt(S, i)
               /\ IssuedFor(b, i, NeedsProbe) = RankedAt(P, i)
    <2>1. {j \in 1 .. i : NeedsRetry(b.tasks[j])} = {j \in 1 .. i : j \in R} BY <1>1
    <2>2. {j \in 1 .. i : NeedsSlow(b.tasks[j])} = {j \in 1 .. i : j \in S} BY <1>1
    <2>3. {j \in 1 .. i : NeedsProbe(b.tasks[j])} = {j \in 1 .. i : j \in P} BY <1>1
    <2>4. /\ NeedsRetry(b.tasks[i]) <=> i \in R
          /\ NeedsSlow(b.tasks[i]) <=> i \in S
          /\ NeedsProbe(b.tasks[i]) <=> i \in P
      OBVIOUS
    <2> HIDE DEF R, S, P, n
    <2>5. \A N : RankedAt(N, i) = IF i \in N THEN Cardinality({j \in 1 .. i : j \in N}) ELSE 0
      BY DEF RankedAt, Rank
    <2>6. IssuedFor(b, i, NeedsRetry) = RankedAt(R, i) BY <2>1, <2>4, <2>5 DEF IssuedFor, IssuedUpTo
    <2>7. IssuedFor(b, i, NeedsSlow) = RankedAt(S, i) BY <2>2, <2>4, <2>5 DEF IssuedFor, IssuedUpTo
    <2>8. IssuedFor(b, i, NeedsProbe) = RankedAt(P, i) BY <2>3, <2>4, <2>5 DEF IssuedFor, IssuedUpTo
    <2> QED BY <2>6, <2>7, <2>8
  <1> HIDE DEF R, S, P
  <1>6. ASSUME NEW N \in {R, S, P}
        PROVE  /\ \A i \in 1 .. n : RankedAt(N, i) < Cardinality(N) + 1
               /\ \A i, j \in 1 .. n : i # j /\ RankedAt(N, i) = RankedAt(N, j) => RankedAt(N, i) = 0
    BY <1>2, <1>3
  <1> HIDE DEF n
  <1>7. /\ \A i \in 1 .. n : RankedAt(R, i) < Cardinality(R) + 1
        /\ \A i, j \in 1 .. n : i # j /\ RankedAt(R, i) = RankedAt(R, j) => RankedAt(R, i) = 0
    BY <1>6
  <1>8. /\ \A i \in 1 .. n : RankedAt(S, i) < Cardinality(S) + 1
        /\ \A i, j \in 1 .. n : i # j /\ RankedAt(S, i) = RankedAt(S, j) => RankedAt(S, i) = 0
    BY <1>6
  <1>9. /\ \A i \in 1 .. n : RankedAt(P, i) < Cardinality(P) + 1
        /\ \A i, j \in 1 .. n : i # j /\ RankedAt(P, i) = RankedAt(P, j) => RankedAt(P, i) = 0
    BY <1>6
  <1> QED BY <1>1, <1>4, <1>5, <1>7, <1>8, <1>9 DEF n

\* What a recovered task looks like: it waits, is parked or stopped, and owes
\* no acknowledgement.
LEMMA RestoredTaskFields ==
  ASSUME NEW b \in Batches, ValidBatch(b), NEW i \in DOMAIN b.tasks
  PROVE  LET t == RestoredTask(b, i)
         IN /\ TaskInv(t) /\ t.state \notin TerminalPending /\ t.barrier.kind = "None"
            /\ t.id = b.tasks[i].id /\ t.id # 0 /\ t.id \in Nat
            /\ t.retryTimer = IssuedFor(b, i, NeedsRetry)
            /\ t.slowReadmission = IssuedFor(b, i, NeedsSlow)
            /\ t.probe = IssuedFor(b, i, NeedsProbe)
  <1> DEFINE r  == b.tasks[i]
             m  == NewTask(r.id, r.desiredPaused, r.credential, r.noSpace)
             x  == IF r.slowSlot THEN r.slowPos ELSE 0
             y  == IssuedFor(b, i, NeedsRetry)
             z  == IssuedFor(b, i, NeedsSlow)
             w  == IssuedFor(b, i, NeedsProbe)
             o  == IF NeedsProbe(r) THEN "AutomaticRetry" ELSE "none"
             tp == (r.state = "StoppedResult")
             u  == [m EXCEPT !.state = r.state, !.generation = r.generation, !.started = r.started,
                             !.slowCount = r.slowCount, !.slowSlot = r.slowSlot, !.slowPos = x,
                             !.challenge = r.challenge, !.error = r.error,
                             !.stoppedStatus = r.stoppedStatus, !.terminalPersisted = tp,
                             !.retryTimer = y, !.slowReadmission = z, !.probe = w,
                             !.probeOrigin = o]
  <1>1. r \in Recovered /\ i \in 1 .. Len(b.tasks) BY DEF Batches
  <1>2. r.state \in RecoverableStates BY <1>1 DEF ValidBatch, ValidRecovered
  <1>3. r.id \in Nat /\ r.id # 0 BY <1>1, BoundsAssumption DEF Recovered
  <1>4. /\ DOMAIN m = FieldNames /\ m.id = r.id /\ m.barrier.kind = "None"
        /\ m.userControl = "None" /\ ~m.sourceReplacement
    BY DEF NewTask, NoBarrier, FieldNames
  <1>5. RestoredTask(b, i) = u BY DEF RestoredTask
  <1> HIDE DEF r, m, x, y, z, w, o, tp
  <1>6. /\ u.state = r.state /\ u.id = m.id /\ u.barrier = m.barrier
        /\ u.userControl = m.userControl /\ u.sourceReplacement = m.sourceReplacement
        /\ u.retryTimer = y /\ u.slowReadmission = z /\ u.probe = w
    BY <1>4 DEF FieldNames
  <1> HIDE DEF u
  <1>7. u.state \notin WorkingStates /\ u.state \notin TerminalPending /\ u.state # "Absent"
    BY <1>2, <1>6 DEF RecoverableStates, ParkedStates, WorkingStates, TerminalPending
  <1>8. TaskInv(u) BY <1>3, <1>4, <1>6, <1>7 DEF TaskInv
  <1> QED BY <1>3, <1>4, <1>5, <1>6, <1>7, <1>8 DEF y, z, w, r

\* restore: every task is where the batch says, is shown as it is, and has
\* identities of its own.
LEMMA DecisionInit ==
  ASSUME Init
  PROVE  DecisionInv
  <1>1. PICK b \in RestoreBatches : InitRestored(b) BY DEF Init
  <1>2. b \in Batches /\ ValidBatch(b) BY <1>1, SchedulerAssumption DEF InitRestored
  <1> DEFINE K == {g \in Gid : \E i \in DOMAIN b.tasks : b.tasks[i].gid = g}
             I(g) == IndexOf(b, g)
  <1>3. ASSUME NEW g \in K
        PROVE  I(g) \in DOMAIN b.tasks /\ b.tasks[I(g)].gid = g /\ tasks[g] = RestoredTask(b, I(g))
    BY <1>1 DEF IndexOf, InitRestored, RestoredTasks
  <1>4. ASSUME NEW g \in Gid, g \notin K
        PROVE  tasks[g] = AbsentTask
    BY <1>1, <1>4 DEF InitRestored, RestoredTasks
  <1>5. /\ AbsentTask.state = "Absent" /\ AbsentTask.id = 0 /\ AbsentTask.generation = 0
        /\ AbsentTask.barrier.kind = "None" /\ AbsentTask.userControl = "None"
        /\ ~AbsentTask.sourceReplacement /\ AbsentTask.retryTimer = 0
        /\ AbsentTask.slowReadmission = 0 /\ AbsentTask.probe = 0
    BY DEF AbsentTask, NewTask, NoBarrier
  <1>6. TaskInv(AbsentTask) BY <1>5 DEF TaskInv, TerminalPending, WorkingStates, DefersUserControl
  <1>7. SchedulerInv BY InitInv
  <1>8. \A g, h \in K : I(g) = I(h) => g = h BY <1>3
  <1> HIDE DEF K, I
  <1>9. \A g \in K : LET t == tasks[g] IN
           /\ TaskInv(t) /\ t.state \notin TerminalPending /\ t.barrier.kind = "None"
           /\ t.id = b.tasks[I(g)].id /\ t.id # 0 /\ t.id \in Nat
           /\ t.retryTimer = IssuedFor(b, I(g), NeedsRetry)
           /\ t.slowReadmission = IssuedFor(b, I(g), NeedsSlow)
           /\ t.probe = IssuedFor(b, I(g), NeedsProbe)
    BY <1>2, <1>3, RestoredTaskFields
  <1>10. \A g \in Gid : TaskInv(tasks[g]) /\ tasks[g].barrier.kind = "None" BY <1>4, <1>5, <1>6, <1>9
  <1>11. QueueExact BY <1>1, <1>2, Zenon DEF InitRestored, ValidBatch, QueueExact, MembershipExact, InQueue
  <1>12. ShownCurrent
    <2> SUFFICES ASSUME NEW g \in Gid
                 PROVE  /\ published[g].state = tasks[g].state
                        /\ published[g].generation = tasks[g].generation
      BY DEF ShownCurrent
    <2>1. published[g] = IF tasks[g].state = "Absent" THEN NoSnapshot ELSE SnapshotOf(tasks[g])
      BY <1>1 DEF InitRestored
    <2>2. CASE tasks[g].state = "Absent" BY <1>9, <2>2, <1>4, <1>5, <2>1 DEF TaskInv, NoSnapshot
    <2>3. CASE tasks[g].state # "Absent" BY <2>1, <2>3 DEF SnapshotOf
    <2> QED BY <2>2, <2>3
  <1>13. OneDeletion BY <1>10 DEF OneDeletion
  <1>14. IdsBounded
    BY <1>7, BoundsAssumption, <1>1, <1>3, <1>4, <1>5, <1>9 DEF SchedulerInv, StateOK, InitRestored, IdsBounded
  <1>15. IdentitiesDistinct
    <2> DEFINE n == Len(b.tasks)
    <2>1. /\ ids.retry = IssuedUpTo(b, n, NeedsRetry) + 1
          /\ ids.slow = IssuedUpTo(b, n, NeedsSlow) + 1
          /\ ids.probe = IssuedUpTo(b, n, NeedsProbe) + 1
      BY <1>1 DEF InitRestored, IdKinds
    <2>2. ids.retry \in Nat \ {0} /\ ids.slow \in Nat \ {0} /\ ids.probe \in Nat \ {0}
      BY <1>7, BoundsAssumption DEF SchedulerInv, StateOK, IdKinds
    <2>3. \A g \in Gid : /\ tasks[g].retryTimer < ids.retry
                         /\ tasks[g].slowReadmission < ids.slow
                         /\ tasks[g].probe < ids.probe
      BY <1>2, <1>3, <1>4, <1>5, <1>9, <2>1, <2>2, RestoredIdentities
    <2>4. ASSUME NEW g \in Gid, NEW h \in Gid, g # h
          PROVE  /\ tasks[g].retryTimer = tasks[h].retryTimer => tasks[g].retryTimer = 0
                 /\ tasks[g].slowReadmission = tasks[h].slowReadmission =>
                      tasks[g].slowReadmission = 0
                 /\ tasks[g].probe = tasks[h].probe => tasks[g].probe = 0
                 /\ tasks[g].id = tasks[h].id => tasks[g].id = 0
      <3>1. CASE g \in K /\ h \in K
        <4>1. I(g) \in 1 .. n /\ I(h) \in 1 .. n /\ I(g) # I(h) BY <1>2, <1>3, <1>8, <2>4, <3>1 DEF Batches
        <4>2. b.tasks[I(g)].id # b.tasks[I(h)].id BY <1>2, <4>1 DEF ValidBatch
        <4> QED BY <1>2, <1>3, <1>9, <3>1, <4>1, <4>2, RestoredIdentities
      <3>2. CASE g \notin K \/ h \notin K BY <1>4, <1>5, <3>2
      <3> QED BY <3>1, <3>2
    <2> QED BY <2>3, <2>4 DEF IdentitiesDistinct
  <1> QED BY <1>7, <1>10, <1>11, <1>12, <1>13, <1>14, <1>15 DEF DecisionInv
-----------------------------------------------------------------------------
(* The theorems.                                                           *)

\* Every step of the scheduler preserves the invariant and keeps decisions.
LEMMA DecisionNext ==
  ASSUME DecisionInv, [Next]_vars
  PROVE  DecisionInv' /\ StepKeeps
  <1> DEFINE Kept == DecisionInv' /\ StepKeeps
  <1>1. SchedulerInv' BY NextInv DEF DecisionInv
  <1>2. \A g \in Gid : Known(g) BY DEF DecisionInv, SchedulerInv, Known
  <1>3. \A g \in Gid : HandlerStep(g) => Kept BY <1>1, HandlerKeeps
  <1>4. CASE UNCHANGED vars BY <1>1, <1>4, QuietKeeps DEF vars
  <1>5. CASE \E p \in PolicyChoices : ConfigureQueuePolicies(p)
    BY <1>1, <1>5, QuietKeeps DEF ConfigureQueuePolicies
  <1>6. ASSUME NEW g \in Gid, UserCommand(g)
        PROVE  Kept
    <2>1. \A position \in 0 .. MaxTasks : position \in Nat BY SchedulerAssumption
    <2>2. \A position \in 0 .. (MaxTasks - 1) : position \in Nat BY SchedulerAssumption
    <2>3. \A a \in AddChoices : a.paused \in BOOLEAN BY SchedulerAssumption
    <2>4. CASE \E id \in TaskIds, a \in AddChoices, position \in 0 .. MaxTasks :
                 AddValidatedTask(g, id, a.paused, a.credential, a.noSpace, position)
      <3>1. PICK id \in TaskIds, a \in AddChoices, position \in 0 .. MaxTasks :
                 AddValidatedTask(g, id, a.paused, a.credential, a.noSpace, position)
        BY <2>4
      <3> DEFINE paused     == a.paused
                 credential == a.credential
                 noSpace    == a.noSpace
      <3>2. paused \in BOOLEAN /\ position \in Nat BY <2>1, <2>3
      <3>3. AddValidatedTask(g, id, paused, credential, noSpace, position) BY <3>1
      <3> HIDE DEF paused, credential, noSpace
      <3> QED BY <1>1, <3>2, <3>3, AddKeeps
    <2>5. CASE \E force \in BOOLEAN : Pause(g, force) \/ PauseDeferred(g, force)
      BY <1>2, <1>3, <2>5, PauseHandled, PauseDeferredHandled, Zenon
    <2>6. CASE Resume(g) \/ ResumeDeferred(g) \/ ResumeProbe(g)
      BY <1>2, <1>3, <2>6, ResumeHandled, ResumeDeferredHandled, ResumeProbeHandled, Zenon
    <2>7. CASE \E force \in BOOLEAN : RemoveTask(g, force) \/ RemoveDeferred(g, force)
      BY <1>2, <1>3, <2>7, RemoveHandled, RemoveDeferredHandled, Zenon
    <2>8. CASE RemoveStoppedResult(g) BY <1>2, <1>3, <2>8, RemoveStoppedResultHandled, Zenon
    <2>9. CASE \E position \in 0 .. (MaxTasks - 1) : ChangePosition(g, position)
      BY <1>1, <2>2, <2>9, ChangePositionKeeps
    <2> QED BY <1>6, <2>4, <2>5, <2>6, <2>7, <2>8, <2>9 DEF UserCommand
  <1>7. ASSUME NEW g \in Gid, OptionCommand(g)
        PROVE  Kept
    BY <1>2, <1>3, BeginSourceReplacementHandled, CommitSourceReplacementHandled, ApplyOptionPatchHandled, ApproveHostKeyHandled,
       ApplyHostKeyPatchHandled, <1>7 DEF OptionCommand
  <1>8. ASSUME NEW g \in Gid, Admission(g)
        PROVE  Kept
    BY <1>2, <1>3, <1>8, AdmitNextHandled, ScheduleRestartPatchHandled, Zenon DEF Admission
  <1>9. ASSUME NEW g \in Gid, Acknowledgement(g)
        PROVE  Kept
    <2> DEFINE e     == Current(g)
               token == tasks[g].barrier.token
    <2>1. e.gid = g BY DEF Current
    <2>2. \/ GenerationPersisted(e)
          \/ \E ok \in BOOLEAN : \/ OptionPatchPersistenceCompleted(e, token, ok)
                                 \/ OptionPatchApplicationCompleted(e, token, ok)
                                 \/ HostKeyResolutionCompleted(e, token, ok)
          \/ TerminalPersisted(e, tasks[g].barrier.status)
          \/ StoppedResultDeletionFailed(e, token)
          \/ StoppedResultDeleted(e, token)
      BY <1>9, Zenon DEF Acknowledgement
    <2> HIDE DEF e, token
    <2>3. Known(e.gid) /\ (HandlerStep(e.gid) => Kept) BY <1>2, <1>3, <2>1, Zenon
    <2>4. CASE StoppedResultDeleted(e, token) BY <1>1, <2>1, <2>4, DeletedKeeps
    <2>5. CASE \/ GenerationPersisted(e)
               \/ TerminalPersisted(e, tasks[g].barrier.status)
               \/ StoppedResultDeletionFailed(e, token)
      BY <2>3, <2>5, GenerationPersistedHandled, TerminalPersistedHandled,
         StoppedResultDeletionFailedHandled, Zenon
    <2>6. CASE \E ok \in BOOLEAN : \/ OptionPatchPersistenceCompleted(e, token, ok)
                                   \/ OptionPatchApplicationCompleted(e, token, ok)
                                   \/ HostKeyResolutionCompleted(e, token, ok)
      BY <2>3, <2>6, OptionPatchPersistenceHandled, OptionPatchApplicationHandled,
         HostKeyResolutionHandled, Zenon
    <2> QED BY <2>2, <2>4, <2>5, <2>6
  <1>10. ASSUME NEW g \in Gid, WorkerResult(g)
         PROVE  Kept
    <2> DEFINE e == Current(g)
    <2>1. e.gid = g BY DEF Current
    <2>2. \/ AllocationSucceeded(e) \/ AllocationRetryable(e) \/ ActiveRetryIdle(e)
          \/ \E active \in BOOLEAN : HostKeyChallenge(e, active)
          \/ ActiveRepresentationRestart(e) \/ AllocationFailed(e) \/ TerminalFailure(e)
          \/ \E c \in {"manual", "timed"} : NoSpace(e, c)
          \/ SlowDemoted(e) \/ SlowPaused(e)
          \/ \E seed \in BOOLEAN : DataComplete(e, seed)
          \/ VerificationSucceeded(e) \/ VerificationRecoverable(e) \/ VerificationFailed(e)
          \/ SeedingComplete(e) \/ SeedingFailed(e) \/ CancellationDrained(e)
      BY <1>10, Zenon DEF WorkerResult
    <2> HIDE DEF e
    <2>3. Known(e.gid) /\ (HandlerStep(e.gid) => Kept) BY <1>2, <1>3, <2>1, Zenon
    <2>4. HandlerStep(e.gid)
      BY <2>2, <2>3, AllocationSucceededHandled, RetryableHandled, HostKeyChallengeHandled,
         RepresentationRestartHandled, FinalResultHandled, TerminalFailureHandled, NoSpaceHandled,
         SlowDemotedHandled, SlowPausedHandled, DataCompleteHandled,
         VerificationRecoverableHandled, CancellationDrainedHandled, Zenon
    <2> QED BY <2>3, <2>4
  <1>11. ASSUME NEW g \in Gid, Timer(g)
         PROVE  Kept
    <2> DEFINE e == Current(g)
    <2>1. e.gid = g BY DEF Current
    <2>2. \/ \E timer : RetryReady(e, timer)
          \/ \E readmission : SlowReadmit(e, readmission)
          \/ \E probe, origin, next : \E ready \in BOOLEAN :
               NoSpaceProbeCompleted(e, probe, origin, ready, next)
      BY <1>11, Zenon DEF Timer
    <2> HIDE DEF e
    <2>3. Known(e.gid) /\ (HandlerStep(e.gid) => Kept) BY <1>2, <1>3, <2>1, Zenon
    <2>4. HandlerStep(e.gid) BY <2>2, <2>3, RetryReadyHandled, SlowReadmitHandled, NoSpaceProbeHandled, Zenon
    <2> QED BY <2>3, <2>4
  <1> QED BY <1>4, <1>5, <1>6, <1>7, <1>8, <1>9, <1>10, <1>11, Zenon DEF Next

\* The invariant holds in every reachable state.
THEOREM DecisionInvariance == Spec => []DecisionInv
  <1>1. Init => DecisionInv BY DecisionInit
  <1>2. DecisionInv /\ [Next]_vars => DecisionInv' BY DecisionNext
  <1> QED BY <1>1, <1>2, PTL DEF Spec

\* Whatever the commands and results and their order, every task is in exactly
\* the queue its state and slot say, once, and a task that waits for no
\* acknowledgement was published in the state and generation it is in: after a
\* recovery from any batch restore accepts, and after every finish_action.
THEOREM QueuesArePublished == Spec => []QueuesPublished
  <1>1. DecisionInv => QueuesPublished
    BY DEF DecisionInv, TaskInv, ShownCurrent, PublishedCurrent, QueuesPublished
  <1> QED BY <1>1, DecisionInvariance, PTL

\* Nothing works that an admission condition, a source replacement in progress
\* or the user's pause holds back, except while the pause itself waits behind
\* a persistence barrier.
THEOREM HeldBackNeverWorks == Spec => []WorkAllowed
  <1>1. DecisionInv => WorkAllowed
    BY DEF DecisionInv, TaskInv, ConditionsBlockWork, WorkingStates, TerminalPending, PauseHonoured, WorkAllowed
  <1> QED BY <1>1, DecisionInvariance, PTL

\* No identity is outstanding twice: a timer, probe or task identity that a
\* late event carries is of one task, also right after a recovery.
THEOREM IdentitiesAreDistinct == Spec => []IdentitiesDistinct
  <1>1. DecisionInv => IdentitiesDistinct BY DEF DecisionInv
  <1> QED BY <1>1, DecisionInvariance, PTL

\* No step reverts a decision: only its resolution opens a host-key gate, an
\* accepted remove and a decided outcome stand, and force is not downgraded.
THEOREM DecisionsHold == Spec => DecisionsStand
  <1>1. DecisionInv /\ [Next]_vars => StepKeeps BY DecisionNext
  <1> DEFINE Gate  == \A g \in Gid : tasks[g].state = "PausedHostKey" /\ tasks'[g].state # "PausedHostKey" =>
                        \/ tasks'[g].state = "Removed"
                        \/ /\ tasks[g].barrier.kind = "HostKeyResolution"
                           /\ tasks[g].barrier.challenge = tasks[g].challenge
                           /\ tasks'[g].state = (IF tasks[g].desiredPaused THEN "Paused" ELSE "Waiting")
             Final == \A g \in Gid : SameTask(g) =>
                        /\ RemoveAccepted(tasks[g]) => RemoveAccepted(tasks'[g])
                        /\ Finished(tasks[g]) =>
                             \/ tasks'[g].state = tasks[g].state
                             \/ tasks'[g].state = "StoppedResult" /\ tasks'[g].terminalPersisted
             Forced == \A g \in Gid : SameTask(g) =>
                        /\ ForcedDrain(tasks[g]) /\ tasks'[g].barrier.kind = "CancellationDrain" =>
                             ForcedDrain(tasks'[g])
                        /\ tasks[g].userControl = "ForceRemove" =>
                             \/ tasks'[g].userControl = "ForceRemove"
                             \/ ForcedDrain(tasks'[g])
                             \/ tasks'[g].barrier.kind = "TerminalPersistence"
  <1>2. StepKeeps => Gate /\ Final /\ Forced BY DEF StepKeeps, SameTask, Decided
  <1>3. DecisionInv /\ [Next]_vars => [Gate]_vars /\ [Final]_vars /\ [Forced]_vars BY <1>1, <1>2
  <1>4. Spec => [][Gate]_vars /\ [][Final]_vars /\ [][Forced]_vars BY <1>3, DecisionInvariance, PTL DEF Spec
  <1> QED BY <1>4 DEF DecisionsStand, HostKeyGate, OutcomeFinal, ForceKept

\* The order a pending deletion was computed for is the order it finds.
THEOREM StoppedOrderStands == Spec => StoppedOrderFrozen
  <1> DEFINE Frozen == (DeletionPending /\ DeletionPending') => queues'["Stopped"] = queues["Stopped"]
  <1>1. DecisionInv /\ [Next]_vars => [Frozen]_vars BY DecisionNext DEF StepKeeps
  <1>2. Spec => [][Frozen]_vars BY <1>1, DecisionInvariance, PTL DEF Spec
  <1> QED BY <1>2 DEF StoppedOrderFrozen

=============================================================================
