------------------------------ MODULE SchedulerCore ------------------------------
(***************************************************************************)
(* The state of crates/ariax-core/src/scheduler.rs RequestScheduler and    *)
(* the one atomic step every operation ends with, finish_action.           *)
(*                                                                         *)
(* Every operation of RequestScheduler works on a copy of one task and     *)
(* commits it, its queue move and its ordered effects at once, or returns  *)
(* an error (or an ignored outcome) and changes nothing.  An operation is  *)
(* therefore an action that is enabled exactly when the code would commit. *)
(***************************************************************************)
EXTENDS SchedulerTask, FiniteSets, SequencesExt

CONSTANTS
  Gid,             \* aria2 task identifiers
  MaxActiveTasks,  \* config.max_active_tasks
  MaxTasks,        \* config.max_tasks
  RestoreBatches   \* recovered states the process may start from

VARIABLES
  tasks,          \* [Gid -> Tasks], AbsentTask for an unknown gid
  queues,         \* [QueueClasses -> Seq(Gid)]
  highestTaskId,  \* highest_task_id, 0 when none was ever added
  ids,            \* IdCounters: the next identity of each kind
  policy,         \* the two settings configure_queue_policies changes
  published,      \* published_snapshots: what the task store last received
  effects         \* the ordered effects of the last outcome

vars == <<tasks, queues, highestTaskId, ids, policy, published, effects>>

MaxEffects == 8   \* MAX_SCHEDULER_EFFECTS

Policies == [holdsSlot: BOOLEAN, slow: {"Front", "OriginalPosition", "Back"}]

IdKinds == {"retry", "slow", "probe", "resolution", "deletion"}

EffectKinds == {"PersistTask", "PersistGenerationStarted", "StartAllocation", "CancelGeneration",
                "ReleaseSlot", "ScheduleRetry", "CancelRetry", "ScheduleSlowReadmission",
                "CancelSlowReadmission", "ProbeNoSpace", "StageOptionPatch", "ApplyOptionPatch",
                "PersistConditions", "PersistHostKeyChallenge", "PersistHostKeyPin",
                "PersistHostKeyChallengeRejected", "PersistTerminal", "PersistQueueTransition",
                "DeleteStoppedTaskMetadata", "PublishSnapshot"}

\* token carries the identity (timer, probe, patch, ...) the effect correlates
\* on; for CancelGeneration it is 1 when the cancellation is forced.
Effects == [kind: EffectKinds, gid: Gid, id: TaskIds \cup {0}, generation: Generations,
            token: Nat, status: Aria2Terminal \cup {"None"}]

Snapshots == [state: TaskStates \cup {"Absent"}, generation: Generations,
              status: Aria2Terminal \cup {"active", "waiting", "paused", "None"}]

NoSnapshot == [state |-> "Absent", generation |-> 0, status |-> "None"]

-----------------------------------------------------------------------------
(* Effects.                                                                *)

Effect(kind, g, t, token) ==
  [kind |-> kind, gid |-> g, id |-> t.id, generation |-> t.generation,
   token |-> token, status |-> "None"]

When(condition, sequence) == IF condition THEN sequence ELSE << >>

\* cancel_timers
TimerEffects(g, t) ==
  When(t.retryTimer # 0, <<Effect("CancelRetry", g, t, t.retryTimer)>>) \o
  When(t.slowReadmission # 0, <<Effect("CancelSlowReadmission", g, t, t.slowReadmission)>>)

SlowTimerEffects(g, t) ==
  When(t.slowReadmission # 0, <<Effect("CancelSlowReadmission", g, t, t.slowReadmission)>>)

\* release_slot
ReleaseEffects(g, t) == When(OwnsSlot(t), <<Effect("ReleaseSlot", g, t, 0)>>)

\* begin_cancellation: a retargeted drain repeats the request only to force it.
CancelEffects(g, t, force) ==
  When(t.barrier.kind # "CancellationDrain" \/ (force /\ ~t.barrier.force),
       <<Effect("CancelGeneration", g, t, IF force THEN 1 ELSE 0)>>)

\* remove: a presented host key is rejected before the task goes.
RejectEffects(g, t) ==
  When(t.challenge # 0, <<Effect("PersistHostKeyChallengeRejected", g, t, t.challenge)>>)

\* complete_pending_user_control: t the task whose request was deferred.
DeferredEffects(g, t, b) ==
  LET force == t.userControl \in {"ForcePause", "ForceRemove"}
  IN CASE t.userControl \in {"Pause", "ForcePause"} ->
            When(OwnsSlot(b), CancelEffects(g, b, force))
       [] t.userControl = "Resume" -> TimerEffects(g, b)
       [] OTHER -> TimerEffects(g, b) \o RejectEffects(g, b) \o
                   When(OwnsSlot(b), CancelEffects(g, b, force))

SnapshotOf(t) ==
  [state |-> t.state, generation |-> t.generation, status |-> WireStatus(t, policy.holdsSlot)]

-----------------------------------------------------------------------------
(* Slots, queues and identities.                                           *)

Present == {g \in Gid : tasks[g].state # "Absent"}

SlotOwners == {g \in Gid : OwnsSlot(tasks[g])}

\* active_slot_count() < max_active_tasks
SlotFree == Cardinality(SlotOwners) < MaxActiveTasks

\* pending_stopped_deletion
DeletionPending == \E g \in Gid : tasks[g].barrier.kind = "StoppedResultDeletion"

\* Mutant: the exhaustion test is off by one.
CanIssueOneMore(kind) == ids[kind] \in 1 .. (MaxId + 1)

\* next_id refuses once the counter is exhausted.
CanIssue(kind) == ids[kind] \in 1 .. MaxId
\* Mutant: the counter is read and not advanced.
IssueAgain(kind) == ids

Issue(kind)    == [ids EXCEPT ![kind] = @ + 1]

InQueue(g, class) == \E i \in DOMAIN queues[class] : queues[class][i] = g

Position(g, class) == CHOOSE i \in DOMAIN queues[class] : queues[class][i] = g

\* Mutant: the task joins the new queue and stays in the old one.
QueuesAppended(g, from, to) ==
  [class \in QueueClasses |->
     IF from # to /\ class = to THEN Append(queues[class], g) ELSE queues[class]]

\* queue_updates: the task leaves its old queue and joins the end of the new one.
QueuesAfter(g, from, to) ==
  [class \in QueueClasses |->
     IF from = to THEN queues[class]
     ELSE IF class = from THEN RemoveAt(queues[class], Position(g, class))
     ELSE IF class = to THEN Append(queues[class], g)
     ELSE queues[class]]

\* The membership check of queue_updates.
MembershipExact(g, class) == {c \in QueueClasses : InQueue(g, c)} = {class} \ {"None"}

-----------------------------------------------------------------------------
(* finish_action.                                                          *)

TerminalBegun(t, u) == u.barrier.kind = "TerminalPersistence" /\ u.barrier # t.barrier

\* A change of the desired or slow-slot metadata is persisted with the queue.
QueueDirty(t, u) ==
  \/ QueueClass(t) # QueueClass(u)
  \/ t.desiredPaused # u.desiredPaused
  \/ t.slowCount # u.slowCount
  \/ t.slowSlot # u.slowSlot

QueueEffects(g, t, u) ==
  IF TerminalBegun(t, u)
  THEN <<[Effect("PersistTerminal", g, t, 0) EXCEPT !.generation = u.barrier.generation,
                                                    !.status = u.barrier.status]>>
  ELSE When(QueueDirty(t, u), <<Effect("PersistQueueTransition", g, t, 0)>>)

\* Mutant: a pending deletion does not protect the stopped queue.
AcceptableDuringDeletion(g, t, u, target, publish) ==
  LET from == QueueClass(t)
      to   == QueueClass(u)
  IN /\ t.state # "Absent"
     /\ target \notin {Conflict, Deleted}
     /\ u.state = target
     /\ MembershipExact(g, from)
     /\ publish => SnapshotValid(u)

\* What finish_action requires before it commits t as u.
Acceptable(g, t, u, target, publish) ==
  LET from == QueueClass(t)
      to   == QueueClass(u)
  IN /\ t.state # "Absent"
     /\ target \notin {Conflict, Deleted}
     /\ u.state = target
     /\ MembershipExact(g, from)
     /\ (from # to /\ "Stopped" \in {from, to}) => ~DeletionPending
     /\ TerminalBegun(t, u) => (from # "None" /\ to = "Stopped" /\ from # to)
     /\ (~TerminalBegun(t, u) /\ QueueDirty(t, u) /\ from = to) => from # "None"
     /\ publish => SnapshotValid(u)

\* rest: the other tasks after the step; all operations but admission leave
\* them alone.
Commit(g, u, target, effs, queueFirst, publish, newIds, rest) ==
  LET t      == tasks[g]
      queue  == QueueEffects(g, t, u)
      listed == (IF queueFirst THEN queue \o effs ELSE effs \o queue) \o
                When(publish, <<Effect("PublishSnapshot", g, u, 0)>>)
  IN /\ Acceptable(g, t, u, target, publish)
     /\ Len(listed) <= MaxEffects
     /\ tasks' = [rest EXCEPT ![g] = u]
     /\ queues' = QueuesAfter(g, QueueClass(t), QueueClass(u))
     /\ ids' = newIds
     /\ published' = IF publish THEN [published EXCEPT ![g] = SnapshotOf(u)] ELSE published
     /\ effects' = listed
     /\ UNCHANGED <<highestTaskId, policy>>

Finish(g, u, target, effs, publish) == Commit(g, u, target, effs, FALSE, publish, ids, tasks)

FinishIssuing(g, u, target, effs, publish, newIds) ==
  Commit(g, u, target, effs, FALSE, publish, newIds, tasks)

=============================================================================
