---------------------------- MODULE RequestScheduler ----------------------------
(***************************************************************************)
(* The request scheduler of ariax under every order of commands, admission *)
(* calls and asynchronous results.                                         *)
(*                                                                         *)
(* Here the environment is arbitrary: any command and any result may come  *)
(* at any time, which is what the public API of RequestScheduler permits.  *)
(* Results are sent under the task's current identity, generation and      *)
(* token; every other envelope is ignored or refused (see Fresh) and would *)
(* only add stuttering steps.                                              *)
(***************************************************************************)
EXTENDS SchedulerCommands, SchedulerEvents

CONSTANTS
  Inputs,         \* names of the commands and results this instance offers
  PolicyChoices,  \* queue policies the configuration may select
  AddChoices      \* what a caller may add: [paused, credential, noSpace]

----------------------------------------------------------------------------
(* RequestScheduler::restore: the scheduler a process starts with, rebuilt *)
(* from the tasks and queue orders startup recovery found.                 *)

RecoverableStates == {"Waiting", "WaitingSlow", "RetryWait"} \cup ParkedStates \cup {"StoppedResult"}

\* RecoveredSchedulerTask.  retry_at is set exactly in RetryWait, slowSlot says
\* whether slow_slot is, and slowPos is its original_position.
Recovered == [gid: Gid, id: TaskIds, state: TaskStates, generation: Generations,
              started: BOOLEAN, desiredPaused: BOOLEAN, credential: Credentials,
              noSpace: NoSpaceValues, slowCount: Nat, slowSlot: BOOLEAN, slowPos: Nat,
              challenge: Nat, error: BOOLEAN, stoppedStatus: Aria2Terminal \cup {"None"}]

Batches == [tasks: Seq(Recovered), queues: [QueueClasses -> Seq(Gid)]]

\* validate_recovered_task
ValidRecovered(r) ==
  /\ r.state \in RecoverableStates
  /\ r.slowSlot = (r.state = "WaitingSlow")
  /\ r.slowSlot => r.slowCount > 0 /\ r.slowPos < MaxTasks
  /\ (r.state = "PausedHostKey") = (r.challenge # 0)
  /\ IF r.state = "StoppedResult"
     THEN r.stoppedStatus # "None" /\ r.error = (r.stoppedStatus = "error")
     ELSE r.stoppedStatus = "None" /\ ~r.error

NeedsRetry(r) == r.state = "RetryWait"
NeedsSlow(r)  == r.state = "WaitingSlow"
NeedsProbe(r) == r.noSpace = "timed"

\* Identities are issued in the order of the batch.
IssuedUpTo(b, i, Needs(_)) == Cardinality({j \in 1 .. i : Needs(b.tasks[j])})

IssuedFor(b, i, Needs(_)) == IF Needs(b.tasks[i]) THEN IssuedUpTo(b, i, Needs) ELSE 0

RestoredTask(b, i) ==
  LET r == b.tasks[i]
  IN [NewTask(r.id, r.desiredPaused, r.credential, r.noSpace) EXCEPT
        !.state = r.state, !.generation = r.generation, !.started = r.started,
        !.slowCount = r.slowCount, !.slowSlot = r.slowSlot,
        !.slowPos = IF r.slowSlot THEN r.slowPos ELSE 0,
        !.challenge = r.challenge, !.error = r.error, !.stoppedStatus = r.stoppedStatus,
        !.terminalPersisted = (r.state = "StoppedResult"),
        !.retryTimer = IssuedFor(b, i, NeedsRetry),
        !.slowReadmission = IssuedFor(b, i, NeedsSlow),
        !.probe = IssuedFor(b, i, NeedsProbe),
        !.probeOrigin = IF NeedsProbe(r) THEN "AutomaticRetry" ELSE "none"]

IndexOf(b, g) == CHOOSE i \in DOMAIN b.tasks : b.tasks[i].gid = g

RestoredTasks(b) ==
  [g \in Gid |-> IF \E i \in DOMAIN b.tasks : b.tasks[i].gid = g
                 THEN RestoredTask(b, IndexOf(b, g)) ELSE AbsentTask]

\* Everything restore checks before it returns a scheduler.
ValidBatch(b) ==
  LET n == Len(b.tasks)
  IN /\ n <= MaxTasks
     /\ \A i, j \in 1 .. n : i # j => b.tasks[i].gid # b.tasks[j].gid /\ b.tasks[i].id # b.tasks[j].id
     /\ \A i \in 1 .. n : ValidRecovered(b.tasks[i]) /\ SnapshotValid(RestoredTask(b, i))
     /\ IssuedUpTo(b, n, NeedsRetry) <= MaxId
     /\ IssuedUpTo(b, n, NeedsSlow) <= MaxId
     /\ IssuedUpTo(b, n, NeedsProbe) <= MaxId
     /\ \A c \in QueueClasses : \A i, j \in DOMAIN b.queues[c] :
          i # j => b.queues[c][i] # b.queues[c][j]
     /\ \A g \in Gid : {c \in QueueClasses : \E i \in DOMAIN b.queues[c] : b.queues[c][i] = g}
                         = {QueueClass(RestoredTasks(b)[g])} \ {"None"}

\* SchedulerRestorePlan: the timers of each task, then its first snapshot, in
\* queue order.
PlanFor(g, t) ==
  When(t.retryTimer # 0, <<Effect("ScheduleRetry", g, t, t.retryTimer)>>) \o
  When(t.slowReadmission # 0, <<Effect("ScheduleSlowReadmission", g, t, t.slowReadmission)>>) \o
  When(t.probe # 0, <<Effect("ProbeNoSpace", g, t, t.probe)>>) \o
  <<Effect("PublishSnapshot", g, t, 0)>>

RestorePlan(b) ==
  LET all == b.queues["Waiting"] \o b.queues["Demoted"] \o b.queues["Paused"] \o
             b.queues["Active"] \o b.queues["Stopped"]
  IN FlattenSeq([i \in DOMAIN all |-> PlanFor(all[i], RestoredTasks(b)[all[i]])])

InitRestored(b) ==
  /\ ValidBatch(b)
  /\ tasks = RestoredTasks(b)
  /\ queues = b.queues
  /\ highestTaskId \in IF b.tasks = << >> THEN {0} ELSE {b.tasks[i].id : i \in DOMAIN b.tasks}
  /\ \A i \in DOMAIN b.tasks : b.tasks[i].id <= highestTaskId
  /\ ids = [k \in IdKinds |->
              LET n == Len(b.tasks)
              IN CASE k = "retry" -> IssuedUpTo(b, n, NeedsRetry) + 1
                   [] k = "slow" -> IssuedUpTo(b, n, NeedsSlow) + 1
                   [] k = "probe" -> IssuedUpTo(b, n, NeedsProbe) + 1
                   [] OTHER -> 1]
  /\ published = [g \in Gid |-> IF tasks[g].state = "Absent" THEN NoSnapshot ELSE SnapshotOf(tasks[g])]
  /\ effects = RestorePlan(b)

----------------------------------------------------------------------------
ASSUME SchedulerAssumption ==
  /\ IsFiniteSet(Gid)
  /\ MaxActiveTasks \in Nat \ {0}
  /\ MaxTasks \in Nat \ {0}
  /\ PolicyChoices \subseteq Policies
  /\ AddChoices \subseteq [paused: BOOLEAN, credential: Credentials, noSpace: NoSpaceValues]
  /\ RestoreBatches \subseteq Batches

\* The scheduler of a fresh session has restored nothing.
EmptyBatch == [tasks |-> << >>, queues |-> [c \in QueueClasses |-> << >>]]

Init ==
  /\ policy \in PolicyChoices
  /\ \E b \in RestoreBatches : InitRestored(b)

On(input) == input \in Inputs

\* The envelope under which the workers and effects of g report now.
Current(g) == [gid |-> g, id |-> tasks[g].id, generation |-> tasks[g].generation]

UserCommand(g) ==
  \/ /\ On("Add")
     /\ \E id \in TaskIds, a \in AddChoices, position \in 0 .. MaxTasks :
          AddValidatedTask(g, id, a.paused, a.credential, a.noSpace, position)
  \/ On("Pause") /\ \E force \in BOOLEAN : Pause(g, force) \/ PauseDeferred(g, force)
  \/ On("Resume") /\ (Resume(g) \/ ResumeDeferred(g) \/ ResumeProbe(g))
  \/ On("Remove") /\ \E force \in BOOLEAN : RemoveTask(g, force) \/ RemoveDeferred(g, force)
  \/ On("Delete") /\ RemoveStoppedResult(g)
  \/ On("Position") /\ \E position \in 0 .. (MaxTasks - 1) : ChangePosition(g, position)

OptionCommand(g) ==
  \/ /\ On("Source")
     /\ \/ BeginSourceReplacement(g)
        \/ \E satisfies \in BOOLEAN : CommitSourceReplacement(g, satisfies)
  \/ /\ On("Patch")
     /\ \E patch \in Patches, credential \in Credentials :
          \/ \E kind \in {"InPlace", "ActiveRestart"} : ApplyOptionPatch(g, patch, kind, credential)
          \/ ApplyRestartPatch(g, patch, credential)
  \/ /\ On("HostKey")
     /\ \/ ApproveHostKey(g, tasks[g].challenge)
        \/ \E patch \in Patches : ApplyHostKeyPatch(g, patch, tasks[g].challenge)

Admission(g) == On("Admit") /\ (AdmitNext(g) \/ ScheduleRestartPatch(g))

Acknowledgement(g) ==
  LET e     == Current(g)
      token == tasks[g].barrier.token
  IN \/ On("Admit") /\ GenerationPersisted(e)
     \/ On("Patch") /\ \E ok \in BOOLEAN : \/ OptionPatchPersistenceCompleted(e, token, ok)
                                           \/ OptionPatchApplicationCompleted(e, token, ok)
     \/ On("HostKey") /\ \E ok \in BOOLEAN : HostKeyResolutionCompleted(e, token, ok)
     \/ On("Terminal") /\ TerminalPersisted(e, tasks[g].barrier.status)
     \/ On("Delete") /\ (StoppedResultDeletionFailed(e, token) \/ StoppedResultDeleted(e, token))

WorkerResult(g) ==
  LET e == Current(g)
  IN \/ On("Admit") /\ AllocationSucceeded(e)
     \/ On("Retry") /\ (AllocationRetryable(e) \/ ActiveRetryIdle(e))
     \/ On("HostKey") /\ \E active \in BOOLEAN : HostKeyChallenge(e, active)
     \/ On("Restart") /\ ActiveRepresentationRestart(e)
     \/ On("Fail") /\ (AllocationFailed(e) \/ TerminalFailure(e))
     \/ On("NoSpace") /\ \E c \in {"manual", "timed"} : NoSpace(e, c)
     \/ On("SlowDemote") /\ SlowDemoted(e)
     \/ On("SlowPause") /\ SlowPaused(e)
     \/ On("Verify") /\ \/ DataComplete(e, FALSE)
                        \/ VerificationSucceeded(e)
                        \/ VerificationRecoverable(e)
                        \/ VerificationFailed(e)
     \/ On("Seed") /\ (DataComplete(e, TRUE) \/ SeedingComplete(e) \/ SeedingFailed(e))
     \/ On("Drain") /\ CancellationDrained(e)

Timer(g) ==
  LET e == Current(g)
      t == tasks[g]
  IN \/ On("Retry") /\ RetryReady(e, t.retryTimer)
     \/ On("SlowDemote") /\ SlowReadmit(e, t.slowReadmission)
     \/ /\ On("NoSpace")
        /\ \E ready \in BOOLEAN, next \in {"manual", "timed"} :
             NoSpaceProbeCompleted(e, t.probe, t.probeOrigin, ready, next)

Next ==
  \/ \E g \in Gid : \/ UserCommand(g)
                    \/ OptionCommand(g)
                    \/ Admission(g)
                    \/ Acknowledgement(g)
                    \/ WorkerResult(g)
                    \/ Timer(g)
  \/ On("Policy") /\ \E p \in PolicyChoices : ConfigureQueuePolicies(p)

Spec == Init /\ [][Next]_vars

-----------------------------------------------------------------------------
(* Properties.                                                             *)

\* Every part of the scheduler's state has its type.
StateOK ==
  /\ tasks \in [Gid -> Tasks]
  /\ queues \in [QueueClasses -> Seq(Gid)]
  /\ highestTaskId \in TaskIds \cup {0}
  /\ ids \in [IdKinds -> 1 .. (MaxId + 1)]
  /\ policy \in Policies
  /\ published \in [Gid -> Snapshots]

\* The state and the effects of the last step have their types; in particular
\* no identity counter and no generation runs past its bound.
TypeOK == StateOK /\ effects \in Seq(Effects)

\* No interleaving of admission, readmission and release lets more tasks own
\* an active slot than max_active_tasks.
SlotBound == Cardinality(SlotOwners) <= MaxActiveTasks

\* A slot is never leaked: whoever owns one is working, keeps it for a retry,
\* or is draining the generation that used it; and nothing works without one.
SlotJustified ==
  \A g \in Gid :
    LET t == tasks[g]
    IN /\ OwnsSlot(t) => \/ t.state \in WorkingStates
                         \/ t.state = "RetryWait" /\ t.slot = "RetryRetained"
                         \/ t.barrier.kind = "CancellationDrain"
       /\ t.state \in WorkingStates => OwnsSlot(t)

\* Every task is in exactly the queue its state and slot say, once, and no
\* queue names a task the scheduler has forgotten.
QueueExact ==
  /\ \A g \in Gid : MembershipExact(g, QueueClass(tasks[g]))
  /\ \A c \in QueueClasses : \A i, j \in DOMAIN queues[c] :
       i # j => queues[c][i] # queues[c][j]

\* A task that waits for no acknowledgement has published the state and the
\* generation it is in: no status read shows a state that was left silently.
PublishedCurrent ==
  \A g \in Gid :
    LET t == tasks[g]
    IN t.barrier.kind = "None" =>
         published[g].state = t.state /\ published[g].generation = t.generation

\* A drain can be acknowledged: its event is not a duplicate of the generation,
\* the task is in the state the drain was retargeted to, and what the drain
\* needs next (a staged patch, an error, a queue to leave) is there.
DrainCanComplete ==
  \A g \in Gid :
    LET t == tasks[g]
    IN t.barrier.kind = "CancellationDrain" =>
         /\ "CancellationDrained" \notin t.seen
         /\ t.state = t.barrier.target
         /\ t.state = "Error" => t.error
         /\ t.state \in {"Error", "Removed"} => QueueClass(t) # "None"
         /\ t.state = "PausedRestarting" /\ ~t.sourceReplacement =>
              t.patch # 0 /\ t.patchMode = "ActiveRestart"

\* A terminal record that becomes durable can be published: the stopped
\* snapshot is one that TaskSnapshot::validate accepts.
TerminalCanPublish ==
  \A g \in Gid :
    LET t == tasks[g]
    IN t.barrier.kind = "TerminalPersistence" =>
         /\ ~BlocksAdmission(t)
         /\ t.challenge = 0
         /\ <<t.state, t.barrier.status, t.error>> \in
              {<<"Complete", "complete", FALSE>>, <<"Error", "error", TRUE>>,
               <<"Removed", "removed", FALSE>>}

\* A task waiting for a deadline or a probe has one outstanding, or is ready:
\* nothing waits for an event that will never come.
WaitersCanWake ==
  \A g \in Gid :
    LET t == tasks[g]
    IN t.barrier.kind = "None" =>
         /\ t.state = "RetryWait" => t.retryTimer # 0 \/ t.retryReady
         /\ t.state = "WaitingSlow" => t.slowReadmission # 0 \/ t.slowReady
         /\ t.state = "Paused" /\ ~t.desiredPaused => t.probe # 0

\* A request deferred behind an option patch can be completed when the patch is
\* acknowledged, whatever the acknowledgement says.
DeferredCanComplete ==
  \A g \in Gid :
    LET t == tasks[g]
    IN t.barrier.kind \in {"OptionPatchPersistence", "OptionPatchApplication"}
         /\ t.userControl # "None" => RecoveryTarget(t.state, DeferredAction(t)) # Conflict

\* The results that a running worker can still send.
ExpectedResults(state) ==
  CASE state = "Allocating" -> {"AllocationSucceeded", "AllocationRetryable", "AllocationFailed",
                                "AllocationHostKeyChallenge"}
    [] state = "Active" -> {"ActiveRetryIdle", "ActiveRepresentationRestart", "DataComplete",
                            "BitTorrentPayloadComplete", "NoSpace", "TerminalFailure",
                            "SlowDemoted", "SlowPaused", "ActiveHostKeyChallenge"}
    [] state = "Verifying" -> {"VerificationSucceeded", "VerificationRecoverable",
                               "VerificationFailed"}
    [] state = "Seeding" -> {"SeedingComplete", "SeedingFailed"}
    [] OTHER -> {}

\* The first result of a generation's worker is never taken for a duplicate:
\* what an earlier generation reported does not count against this one.
ResultsNotSeen ==
  \A g \in Gid : tasks[g].seen \cap ExpectedResults(tasks[g].state) = {}

\* No admission condition and no source replacement in progress lets its task
\* work: the old source set is never admitted, and neither is a task that
\* waits for credentials or disk space.
ConditionsBlockWork ==
  \A g \in Gid :
    LET t == tasks[g]
    IN BlocksAdmission(t) \/ t.sourceReplacement => t.state \notin WorkingStates

\* A task the user paused does no work and is not on its way to any, except
\* while the pause waits behind a persistence barrier.
PauseHonoured ==
  \A g \in Gid :
    LET t == tasks[g]
    IN t.desiredPaused /\ t.state \in WorkingStates =>
         t.userControl \in {"Pause", "ForcePause", "Remove", "ForceRemove"} /\ DefersUserControl(t)

\* Outstanding timers, probes and acknowledgements are told apart by identities
\* that were issued once: no late event can be taken for another task's.
IdentitiesDistinct ==
  \A g, h \in Gid :
    LET t == tasks[g]
        u == tasks[h]
    IN /\ t.retryTimer < ids.retry /\ t.slowReadmission < ids.slow /\ t.probe < ids.probe
       /\ g # h => /\ t.retryTimer = u.retryTimer => t.retryTimer = 0
                   /\ t.slowReadmission = u.slowReadmission => t.slowReadmission = 0
                   /\ t.probe = u.probe => t.probe = 0
                   /\ t.id = u.id => t.id = 0

-----------------------------------------------------------------------------

\* A remove was accepted for the task, whether or not it has taken effect.
RemoveAccepted(t) ==
  \/ t.userControl \in {"Remove", "ForceRemove"}
  \/ t.state = "Removed"
  \/ t.state = "StoppedResult" /\ t.stoppedStatus = "removed"

\* An outcome is decided.
Finished(t) == t.state \in TerminalPending \cup {"StoppedResult"}

SameTask(g) == tasks'[g].id = tasks[g].id

\* An accepted remove is never lost or overtaken, and an outcome never
\* reverts: no result, retry, restart or later command revives the task.
OutcomeFinal ==
  [][\A g \in Gid : SameTask(g) =>
       /\ RemoveAccepted(tasks[g]) => RemoveAccepted(tasks'[g])
       /\ Finished(tasks[g]) =>
            \/ tasks'[g].state = tasks[g].state
            \/ tasks'[g].state = "StoppedResult" /\ tasks'[g].terminalPersisted]_vars

\* Only a durable resolution of the very challenge the user saw lets a task
\* out of PausedHostKey; anything else can only remove it.
HostKeyGate ==
  [][\A g \in Gid : tasks[g].state = "PausedHostKey" /\ tasks'[g].state # "PausedHostKey" =>
       \/ tasks'[g].state = "Removed"
       \/ /\ tasks[g].barrier.kind = "HostKeyResolution"
          /\ tasks[g].barrier.challenge = tasks[g].challenge
          /\ tasks'[g].state = (IF tasks[g].desiredPaused THEN "Paused" ELSE "Waiting")]_vars

ForcedDrain(t) == t.barrier.kind = "CancellationDrain" /\ t.barrier.force

\* Force is never downgraded: a forced drain stays forced until it is over,
\* whatever later command retargets it, and a forced remove deferred behind a
\* persistence barrier becomes a forced drain if it becomes a drain at all.
ForceKept ==
  [][\A g \in Gid : SameTask(g) =>
       /\ ForcedDrain(tasks[g]) /\ tasks'[g].barrier.kind = "CancellationDrain" =>
            ForcedDrain(tasks'[g])
       /\ tasks[g].userControl = "ForceRemove" =>
            \/ tasks'[g].userControl = "ForceRemove"
            \/ ForcedDrain(tasks'[g])
            \/ tasks'[g].barrier.kind = "TerminalPersistence"]_vars

\* The order that a pending stopped-result deletion will leave behind was
\* computed when it was requested: nothing may change the stopped queue until
\* the deletion is over.
StoppedOrderFrozen ==
  [][(DeletionPending /\ DeletionPending') => queues'["Stopped"] = queues["Stopped"]]_vars

-----------------------------------------------------------------------------
(* What the runs check, by subject.                                        *)

\* A task is in exactly one queue of its state, and what clients were shown
\* last is what the task and its queue say.
QueuesPublished == QueueExact /\ PublishedCurrent

\* Nothing works that a condition, a source replacement or the user holds
\* back.
WorkAllowed == ConditionsBlockWork /\ PauseHonoured

\* A drain and the record of an outcome can always be brought to their end.
EndingsReachable == DrainCanComplete /\ TerminalCanPublish

\* What was deferred behind a barrier can complete, and no result of a new
\* generation is mistaken for one that was already handled.
NothingLostBehind == DeferredCanComplete /\ ResultsNotSeen

\* Every wait has a wake-up of its own, after a restart as well.
WakeupsDistinct == WaitersCanWake /\ IdentitiesDistinct

\* Decisions stand: a host-key gate opens only for its resolution, an outcome
\* never reverts, and force is never downgraded.
DecisionsStand == HostKeyGate /\ OutcomeFinal /\ ForceKept

=============================================================================
