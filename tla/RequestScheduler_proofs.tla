------------------------- MODULE RequestScheduler_proofs -------------------------
(***************************************************************************)
(* Theorems about the scheduler for every set of GIDs, every number of     *)
(* slots and every bound: its state keeps its type, and no more tasks own  *)
(* an active slot than max_active_tasks allows.                            *)
(***************************************************************************)
EXTENDS RequestScheduler, TLAPS, FiniteSetTheorems

-----------------------------------------------------------------------------
(* What the pure functions on one task and the rows of the matrix return.  *)

\* A row of the matrix is a state of the task or rejects the action.
RowResults == TaskStates \cup {Conflict, Deleted}

\* A row of user control, deferred or not, yields a state or a conflict.
LEMMA ControlTargetType ==
  ASSUME NEW s, NEW a
  PROVE  ControlTarget(s, a) \in RowResults
  BY DEF ControlTarget, Move, Stay, Either, PauseRow, RowResults, TaskStates, LiveStates,
         WorkingStates, ParkedStates, TerminalPending

\* A row of admission, patches and probes yields a state or a conflict.
LEMMA AdmissionTargetType ==
  ASSUME NEW s, NEW a
  PROVE  AdmissionTarget(s, a) \in RowResults
  BY DEF AdmissionTarget, Move, Stay, Either, RowResults, TaskStates, LiveStates,
         WorkingStates, ParkedStates, TerminalPending, ConditionStates

\* A row of the workers' results yields a state or a conflict.
LEMMA WorkTargetType ==
  ASSUME NEW s, NEW a
  PROVE  WorkTarget(s, a) \in RowResults
  BY DEF WorkTarget, Move, Stay, Either, RowResults, TaskStates, LiveStates,
         WorkingStates, ParkedStates, TerminalPending

\* A row of drains, readmissions and approvals yields a state or a conflict.
LEMMA RecoveryTargetType ==
  ASSUME NEW s, NEW a
  PROVE  RecoveryTarget(s, a) \in RowResults
  BY DEF RecoveryTarget, PauseRow, Move, Stay, Either, RowResults, TaskStates, LiveStates,
         WorkingStates, ParkedStates, TerminalPending

\* A row of the outcomes yields a state, a deletion or a conflict.
LEMMA OutcomeTargetType ==
  ASSUME NEW s, NEW a
  PROVE  OutcomeTarget(s, a) \in RowResults
  BY DEF OutcomeTarget, Move, Stay, Either, RowResults, TaskStates, LiveStates,
         WorkingStates, ParkedStates, TerminalPending

\* "No timer" is a token.
LEMMA ZeroToken == 0 \in Tokens
  BY BoundsAssumption DEF Tokens

\* "No patch" is a patch identity.
LEMMA ZeroPatch == 0 \in Patches
  BY BoundsAssumption DEF Patches

\* The generation of a new task.
LEMMA ZeroGeneration == 0 \in Generations
  BY BoundsAssumption DEF Generations

\* The empty barrier is a barrier.
LEMMA NoBarrierType == NoBarrier \in Barriers
  BY ZeroGeneration DEF NoBarrier, Barriers, BarrierKinds

\* A barrier that waits for an acknowledgement is a barrier.
LEMMA AckBarrierType ==
  ASSUME NEW kind \in BarrierKinds, NEW generation \in Generations, NEW token \in Nat
  PROVE  AckBarrier(kind, generation, token) \in Barriers
  BY ZeroGeneration DEF AckBarrier, NoBarrier, Barriers

-----------------------------------------------------------------------------
(* The steps on one task keep it a task.                                   *)

\* release_slot
LEMMA ReleaseSlotType ==
  ASSUME NEW t \in Tasks
  PROVE  ReleaseSlot(t) \in Tasks
  BY Zenon DEF ReleaseSlot, Tasks, Slots

\* cancel_timers
LEMMA CancelTimersType ==
  ASSUME NEW t \in Tasks
  PROVE  CancelTimers(t) \in Tasks
  BY ZeroToken, Zenon DEF CancelTimers, Tasks

\* clear_generation_event_history
LEMMA ClearHistoryType ==
  ASSUME NEW t \in Tasks
  PROVE  ClearGenerationEventHistory(t) \in Tasks
  BY Zenon DEF ClearGenerationEventHistory, Tasks

\* A task may be given any barrier.
LEMMA WithBarrierType ==
  ASSUME NEW t \in Tasks, NEW b \in Barriers
  PROVE  [t EXCEPT !.barrier = b] \in Tasks
  BY Zenon DEF Tasks

\* A task may be given any state.
LEMMA WithStateType ==
  ASSUME NEW t \in Tasks, NEW s \in TaskStates
  PROVE  [t EXCEPT !.state = s] \in Tasks
  BY Zenon DEF Tasks

\* begin_cancellation
LEMMA BeginCancellationType ==
  ASSUME NEW t \in Tasks, NEW target \in DrainTargets, NEW force \in BOOLEAN
  PROVE  BeginCancellation(t, target, force) \in Tasks
  <1> DEFINE keep == force \/ (t.barrier.kind = "CancellationDrain" /\ t.barrier.force)
             b    == [NoBarrier EXCEPT !.kind = "CancellationDrain", !.generation = t.generation,
                                       !.target = target, !.force = keep]
  <1>1. t.generation \in Generations BY DEF Tasks
  <1>2. keep \in BOOLEAN BY Zenon
  <1>3. b \in Barriers BY <1>1, <1>2, NoBarrierType, Zenon DEF Barriers, BarrierKinds
  <1> QED BY <1>3, WithBarrierType DEF BeginCancellation

\* begin_terminal
LEMMA BeginTerminalType ==
  ASSUME NEW t \in Tasks, NEW status \in Aria2Terminal, NEW error \in BOOLEAN
  PROVE  BeginTerminal(t, status, error) \in Tasks
  <1> DEFINE b == [NoBarrier EXCEPT !.kind = "TerminalPersistence",
                                    !.generation = t.generation, !.status = status]
  <1>1. t.generation \in Generations BY DEF Tasks
  <1>2. b \in Barriers BY <1>1, NoBarrierType, Zenon DEF Barriers, BarrierKinds
  <1> QED BY <1>2, Zenon DEF BeginTerminal, Tasks

\* What remove clears.
LEMMA DiscardType ==
  ASSUME NEW t \in Tasks
  PROVE  Discard(t) \in Tasks
  <1>0. /\ 0 \in Nat
        /\ "none" \in ProbeOrigins
        /\ "None" \in PatchModes
        /\ "none" \in Credentials
        /\ "None" \in UserControls
    BY DEF ProbeOrigins, PatchModes, Credentials, UserControls
  <1>1. ASSUME NEW c \in Tasks
        PROVE  [c EXCEPT !.probe = 0, !.probeOrigin = "none", !.challenge = 0,
                         !.patch = 0, !.patchMode = "None", !.patchCredential = "none",
                         !.userControl = "None"] \in Tasks
    BY <1>0, ZeroToken, ZeroPatch, Zenon DEF Tasks
  <1> QED BY <1>1, CancelTimersType DEF Discard

\* plan_admission
LEMMA AdmitType ==
  ASSUME NEW t \in Tasks, t.started => t.generation < MaxGeneration
  PROVE  Admit(t) \in Tasks
  <1> DEFINE gen == IF t.started THEN t.generation + 1 ELSE t.generation
             n   == IF gen = t.generation THEN t
                    ELSE ClearGenerationEventHistory([t EXCEPT !.generation = gen])
             b   == AckBarrier("GenerationPersistence", gen, 0)
  <1>1. gen \in Generations BY BoundsAssumption DEF Tasks, Generations
  <1>2. [t EXCEPT !.generation = gen] \in Tasks BY <1>1, Zenon DEF Tasks
  <1>3. n \in Tasks BY <1>2, ClearHistoryType
  <1>4. b \in Barriers BY <1>1, AckBarrierType DEF BarrierKinds
  <1> HIDE DEF n, b
  <1>s. "Allocating" \in TaskStates /\ "Reserved" \in Slots
    BY DEF TaskStates, LiveStates, WorkingStates, Slots
  <1>5. [n EXCEPT !.started = TRUE, !.state = "Allocating", !.slot = "Reserved",
                  !.retryReady = FALSE, !.slowReady = FALSE, !.barrier = b] \in Tasks
    BY <1>3, <1>4, <1>s, Zenon DEF Tasks
  <1> QED BY <1>5 DEF Admit, n, b

\* A new task, recovered or added, is a task without a slot.
LEMMA NewTaskType ==
  ASSUME NEW id \in TaskIds \cup {0}, NEW desiredPaused \in BOOLEAN,
         NEW credential \in Credentials, NEW noSpace \in NoSpaceValues
  PROVE  /\ NewTask(id, desiredPaused, credential, noSpace) \in Tasks
         /\ NewTask(id, desiredPaused, credential, noSpace).slot = "None"
  <1>1. /\ 0 \in Nat
        /\ "none" \in ProbeOrigins
        /\ "None" \in PatchModes
        /\ "none" \in Credentials
        /\ "None" \in UserControls
        /\ "None" \in Slots
        /\ "Accepted" \in TaskStates
        /\ {} \in SUBSET SeenKinds
    BY DEF ProbeOrigins, PatchModes, Credentials, UserControls, Slots, TaskStates, LiveStates
  <1> QED BY <1>1, ZeroToken, ZeroPatch, ZeroGeneration, NoBarrierType, Zenon DEF NewTask, Tasks

-----------------------------------------------------------------------------
(* The steps on one task and its active slot.                              *)

\* u and t have the same slot, state and barrier.
Alike(u, t) == u.slot = t.slot /\ u.state = t.state /\ u.barrier = t.barrier

\* A task has a slot, a state and a barrier.
LEMMA TaskFields ==
  ASSUME NEW t \in Tasks
  PROVE  "slot" \in DOMAIN t /\ "state" \in DOMAIN t /\ "barrier" \in DOMAIN t
  BY DEF Tasks

\* cancel_timers and what remove clears leave slot, state and barrier alone.
LEMMA AlikeSteps ==
  ASSUME NEW t \in Tasks
  PROVE  Alike(CancelTimers(t), t) /\ Alike(Discard(t), t)
  <1>1. Alike(CancelTimers(t), t) BY TaskFields DEF CancelTimers, Alike
  <1>2. Alike(Discard(t), CancelTimers(t)) BY TaskFields, CancelTimersType DEF Discard, Alike
  <1> QED BY <1>1, <1>2 DEF Alike

\* release_slot changes the slot only.
LEMMA ReleaseSlotShape ==
  ASSUME NEW t \in Tasks
  PROVE  /\ ReleaseSlot(t).slot = "None"
         /\ ReleaseSlot(t).state = t.state
         /\ ReleaseSlot(t).barrier = t.barrier
  BY TaskFields DEF ReleaseSlot

\* A drain keeps the slot until it ends.
LEMMA BeginCancellationShape ==
  ASSUME NEW t \in Tasks, NEW target, NEW force
  PROVE  /\ BeginCancellation(t, target, force).slot = t.slot
         /\ BeginCancellation(t, target, force).state = t.state
         /\ BeginCancellation(t, target, force).barrier.kind = "CancellationDrain"
  BY TaskFields DEF BeginCancellation, NoBarrier

\* begin_terminal does not release the slot itself.
LEMMA BeginTerminalShape ==
  ASSUME NEW t \in Tasks, NEW status, NEW error
  PROVE  /\ BeginTerminal(t, status, error).slot = t.slot
         /\ BeginTerminal(t, status, error).state = t.state
         /\ BeginTerminal(t, status, error).barrier.kind = "TerminalPersistence"
  BY TaskFields DEF BeginTerminal, NoBarrier

\* An admitted task owns a slot.
LEMMA AdmitShape ==
  ASSUME NEW t \in Tasks
  PROVE  Admit(t).slot = "Reserved" /\ Admit(t).state = "Allocating"
  <1> DEFINE gen == IF t.started THEN t.generation + 1 ELSE t.generation
             n   == IF gen = t.generation THEN t
                    ELSE ClearGenerationEventHistory([t EXCEPT !.generation = gen])
             b   == AckBarrier("GenerationPersistence", gen, 0)
  <1>1. "slot" \in DOMAIN n /\ "state" \in DOMAIN n BY TaskFields DEF ClearGenerationEventHistory
  <1> HIDE DEF n, b
  <1> DEFINE u == [n EXCEPT !.started = TRUE, !.state = "Allocating", !.slot = "Reserved",
                            !.retryReady = FALSE, !.slowReady = FALSE, !.barrier = b]
  <1>2. u.slot = "Reserved" /\ u.state = "Allocating" BY <1>1
  <1> QED BY <1>2 DEF Admit, n, b

\* complete_pending_user_control leaves a task that keeps its slot and drains
\* it, unless the request was a resume.
LEMMA CompleteUserControlShape ==
  ASSUME NEW t \in Tasks, NEW b \in Tasks, b.barrier.kind = "None",
         RecoveryTarget(t.state, DeferredAction(t)) \in TaskStates
  PROVE  /\ CompleteUserControl(t, b) \in Tasks
         /\ CompleteUserControl(t, b).slot = b.slot
         /\ CompleteUserControl(t, b).barrier.kind # "GenerationPersistence"
         /\ OwnsSlot(b) /\ t.userControl # "Resume" =>
              CompleteUserControl(t, b).barrier.kind = "CancellationDrain"
  <1> DEFINE target == RecoveryTarget(t.state, DeferredAction(t))
             force  == t.userControl \in {"ForcePause", "ForceRemove"}
             p      == [b EXCEPT !.userControl = "None", !.state = target, !.desiredPaused = TRUE]
             r      == [b EXCEPT !.userControl = "None", !.state = target,
                                 !.desiredPaused = FALSE, !.slowCount = 0]
             e      == Discard(b)
             d      == [e EXCEPT !.state = target]
             pc     == BeginCancellation(p, "Paused", force)
             rc     == CancelTimers(r)
             dc     == BeginCancellation(d, "Removed", force)
             dt     == BeginTerminal(d, "removed", FALSE)
  <1>1. "None" \in UserControls /\ 0 \in Nat /\ force \in BOOLEAN BY DEF UserControls
  <1>2. p \in Tasks BY <1>1, Zenon DEF Tasks
  <1>3. p.slot = b.slot /\ p.barrier = b.barrier BY TaskFields
  <1>4. r \in Tasks BY <1>1, Zenon DEF Tasks
  <1>5. r.slot = b.slot /\ r.barrier = b.barrier BY TaskFields
  <1>6. e \in Tasks /\ Alike(e, b) BY DiscardType, AlikeSteps
  <1> HIDE DEF e
  <1>7. d \in Tasks BY <1>6, WithStateType
  <1>8. d.slot = b.slot BY <1>6, TaskFields DEF Alike
  <1>c. CompleteUserControl(t, b) =
          IF t.userControl \in {"Pause", "ForcePause"} THEN IF OwnsSlot(p) THEN pc ELSE p
          ELSE IF t.userControl = "Resume" THEN rc
          ELSE IF OwnsSlot(d) THEN dc ELSE dt
    BY Zenon DEF CompleteUserControl, e
  <1> HIDE DEF p, r, d, target, force
  <1>9. pc \in Tasks /\ pc.slot = b.slot /\ pc.barrier.kind = "CancellationDrain"
    BY <1>1, <1>2, <1>3, BeginCancellationType, BeginCancellationShape DEF DrainTargets
  <1>10. rc \in Tasks /\ rc.slot = b.slot /\ rc.barrier.kind = "None"
    BY <1>4, <1>5, CancelTimersType, AlikeSteps DEF Alike
  <1>11. dc \in Tasks /\ dc.slot = b.slot /\ dc.barrier.kind = "CancellationDrain"
    BY <1>1, <1>7, <1>8, BeginCancellationType, BeginCancellationShape DEF DrainTargets
  <1>12. dt \in Tasks /\ dt.slot = b.slot /\ dt.barrier.kind = "TerminalPersistence"
    <2>1. "removed" \in Aria2Terminal BY DEF Aria2Terminal
    <2>2. dt \in Tasks BY <1>7, <2>1, BeginTerminalType, Zenon
    <2>3. dt.slot = d.slot /\ dt.barrier.kind = "TerminalPersistence" BY <1>7, BeginTerminalShape, Zenon
    <2> QED BY <1>8, <2>2, <2>3
  <1> HIDE DEF pc, rc, dc, dt
  <1>13. CASE t.userControl \in {"Pause", "ForcePause"} BY <1>2, <1>3, <1>9, <1>13, <1>c DEF OwnsSlot
  <1>14. CASE t.userControl = "Resume" BY <1>10, <1>14, <1>c
  <1>15. CASE t.userControl \notin {"Pause", "ForcePause", "Resume"}
    BY <1>8, <1>11, <1>12, <1>15, <1>c DEF OwnsSlot
  <1> QED BY <1>13, <1>14, <1>15

-----------------------------------------------------------------------------
(* Queues and snapshots.                                                   *)

\* Removing an element of a queue leaves a queue.
LEMMA RemoveAtType ==
  ASSUME NEW S, NEW s \in Seq(S), NEW i \in 1 .. Len(s)
  PROVE  RemoveAt(s, i) \in Seq(S)
  BY DEF RemoveAt

\* Removing an element shortens a queue by one.
LEMMA RemoveAtLen ==
  ASSUME NEW S, NEW s \in Seq(S), NEW i \in 1 .. Len(s)
  PROVE  Len(RemoveAt(s, i)) = Len(s) - 1
  <1> DEFINE a == SubSeq(s, 1, i - 1)
             b == SubSeq(s, i + 1, Len(s))
  <1>1. a \in Seq(S) /\ Len(a) = i - 1 OBVIOUS
  <1>2. b \in Seq(S) /\ Len(b) = Len(s) - i OBVIOUS
  <1> HIDE DEF a, b
  <1>3. Len(a \o b) = Len(s) - 1 BY <1>1, <1>2
  <1> QED BY <1>3 DEF RemoveAt, a, b

\* Inserting an element in a queue leaves a queue.
LEMMA InsertAtType ==
  ASSUME NEW S, NEW s \in Seq(S), NEW i \in 1 .. (Len(s) + 1), NEW e \in S
  PROVE  InsertAt(s, i, e) \in Seq(S)
  BY DEF InsertAt

\* A member of a queue has a position in it.
LEMMA PositionType ==
  ASSUME StateOK, NEW g \in Gid, NEW class \in QueueClasses, InQueue(g, class)
  PROVE  Position(g, class) \in 1 .. Len(queues[class])
  <1>1. queues[class] \in Seq(Gid) BY DEF StateOK
  <1>2. DOMAIN queues[class] = 1 .. Len(queues[class]) BY <1>1
  <1>3. \E i \in DOMAIN queues[class] : queues[class][i] = g BY DEF InQueue
  <1> QED BY <1>2, <1>3 DEF Position

\* queue_updates leaves every queue a sequence of GIDs.
LEMMA QueuesAfterType ==
  ASSUME StateOK, NEW g \in Gid, NEW from, NEW to, MembershipExact(g, from)
  PROVE  QueuesAfter(g, from, to) \in [QueueClasses -> Seq(Gid)]
  <1> SUFFICES ASSUME NEW class \in QueueClasses
               PROVE  QueuesAfter(g, from, to)[class] \in Seq(Gid)
    BY DEF QueuesAfter
  <1>1. queues[class] \in Seq(Gid) BY DEF StateOK
  <1>2. CASE class = from
    BY <1>2, <1>1, PositionType, RemoveAtType DEF QueueClasses, MembershipExact, QueuesAfter
  <1>3. CASE class # from BY <1>1, <1>3 DEF QueuesAfter
  <1> QED BY <1>2, <1>3

\* Every wire status is one aria2 knows.
LEMMA SnapshotOfType ==
  ASSUME NEW t \in Tasks
  PROVE  SnapshotOf(t) \in Snapshots
  <1>1. /\ t.state \in TaskStates \cup {"Absent"}
        /\ t.generation \in Generations
        /\ t.stoppedStatus \in Aria2Terminal \cup {"None"}
    BY DEF Tasks
  <1>2. WireStatus(t, policy.holdsSlot) \in Aria2Terminal \cup {"active", "waiting", "paused", "None"}
    BY <1>1, Zenon DEF WireStatus
  <1> QED BY <1>1, <1>2 DEF SnapshotOf, Snapshots

-----------------------------------------------------------------------------
(* finish_action.                                                          *)

\* A commit of a well-formed task keeps the state well-formed.
LEMMA CommitType ==
  ASSUME StateOK, NEW g \in Gid, NEW u \in Tasks, NEW target, NEW effs, NEW queueFirst,
         NEW publish, NEW newIds \in [IdKinds -> 1 .. (MaxId + 1)], NEW rest \in [Gid -> Tasks],
         Commit(g, u, target, effs, queueFirst, publish, newIds, rest)
  PROVE  StateOK'
  <1>1. tasks' \in [Gid -> Tasks] BY DEF Commit
  <1>2. queues' \in [QueueClasses -> Seq(Gid)] BY QueuesAfterType DEF Commit, Acceptable
  <1>3. published' \in [Gid -> Snapshots] BY SnapshotOfType DEF Commit, StateOK
  <1>4. /\ highestTaskId' \in TaskIds \cup {0}
        /\ ids' \in [IdKinds -> 1 .. (MaxId + 1)]
        /\ policy' \in Policies
    BY DEF Commit, StateOK
  <1> QED BY <1>1, <1>2, <1>3, <1>4 DEF StateOK

\* A task's slot fits its state: whoever owns a slot works, keeps it for a
\* retry or drains, whoever works owns one, and whoever starts a
\* generation works.
SlotFits(t) ==
  /\ OwnsSlot(t) => \/ t.state \in WorkingStates
                    \/ t.state = "RetryWait" /\ t.slot = "RetryRetained"
                    \/ t.barrier.kind = "CancellationDrain"
  /\ t.state \in WorkingStates => OwnsSlot(t)
  /\ t.barrier.kind = "GenerationPersistence" => t.state \in WorkingStates

\* What the steps of the scheduler preserve together.
SchedulerInv == StateOK /\ SlotBound /\ \A g \in Gid : SlotFits(tasks[g])

\* The task u that a handler commits for g is well-formed, owns a slot only if
\* g owned one or one was free, and its slot fits its state.
Sound(g, u) ==
  /\ u \in Tasks
  /\ u.slot = "None" \/ OwnsSlot(tasks[g]) \/ SlotFree
  /\ SlotFits(u)

\* One more owner than before is within the limit when a slot was free.
LEMMA OwnersBound ==
  ASSUME SchedulerInv, NEW g \in Gid, NEW u, Sound(g, u),
         \A h \in Gid \ {g} : tasks'[h].slot = tasks[h].slot, tasks'[g] = u
  PROVE  SlotBound'
  <1> DEFINE Before == SlotOwners
             After  == SlotOwners'
  <1>1. IsFiniteSet(Before) /\ Cardinality(Before) \in Nat
    BY SchedulerAssumption, FS_Subset, FS_CardinalityType DEF SlotOwners
  <1>2. After \subseteq Before \cup {g} BY DEF SlotOwners, OwnsSlot
  <1>3. CASE u.slot = "None" \/ g \in Before
    BY <1>2, <1>3, <1>1, FS_Subset, FS_CardinalityType, SchedulerAssumption DEF SlotOwners, OwnsSlot, SchedulerInv, SlotBound
  <1>4. CASE SlotFree /\ g \notin Before
    <2>1. IsFiniteSet(Before \cup {g}) /\ Cardinality(Before \cup {g}) = Cardinality(Before) + 1
      BY <1>1, <1>4, FS_AddElement
    <2>2. Cardinality(After) <= Cardinality(Before \cup {g}) /\ Cardinality(After) \in Nat
      BY <1>2, <2>1, FS_Subset, FS_CardinalityType
    <2>3. Cardinality(Before) < MaxActiveTasks BY <1>4 DEF SlotFree
    <2> HIDE DEF Before, After
    <2> QED BY <1>1, <2>1, <2>2, <2>3, SchedulerAssumption DEF SlotBound, After
  <1> QED BY <1>3, <1>4 DEF Sound, SlotOwners

\* A task depends on its slot, state and barrier alone to fit.
LEMMA FitsAlike ==
  ASSUME NEW u, NEW t, Alike(u, t), SlotFits(t)
  PROVE  SlotFits(u)
  BY DEF Alike, SlotFits, OwnsSlot

\* A commit of a sound task preserves the invariant.
LEMMA CommitSound ==
  ASSUME SchedulerInv, NEW g \in Gid, NEW u, Sound(g, u), NEW target, NEW effs, NEW queueFirst,
         NEW publish, NEW newIds \in [IdKinds -> 1 .. (MaxId + 1)], NEW rest \in [Gid -> Tasks],
         \A h \in Gid : Alike(rest[h], tasks[h]),
         Commit(g, u, target, effs, queueFirst, publish, newIds, rest)
  PROVE  SchedulerInv'
  <1>1. StateOK' BY CommitType DEF SchedulerInv, Sound
  <1>2. tasks' = [rest EXCEPT ![g] = u] BY DEF Commit
  <1>3. SlotBound' BY <1>2, OwnersBound DEF Alike
  <1>4. ASSUME NEW h \in Gid
        PROVE  SlotFits(tasks'[h])
    BY <1>2, FitsAlike DEF Sound, SchedulerInv
  <1>5. (\A h \in Gid : SlotFits(tasks[h]))' BY <1>4 DEF SlotFits, OwnsSlot
  <1> QED BY <1>1, <1>3, <1>5 DEF SchedulerInv

\* finish_action of a sound task preserves the invariant.
LEMMA FinishIssuingSound ==
  ASSUME SchedulerInv, NEW g \in Gid, NEW u, Sound(g, u), NEW target, NEW effs, NEW publish,
         NEW newIds \in [IdKinds -> 1 .. (MaxId + 1)],
         FinishIssuing(g, u, target, effs, publish, newIds)
  PROVE  SchedulerInv'
  <1>1. tasks \in [Gid -> Tasks] /\ \A h \in Gid : Alike(tasks[h], tasks[h])
    BY DEF SchedulerInv, StateOK, Alike
  <1> QED BY <1>1, CommitSound DEF FinishIssuing

\* The same when the action issues no identity.
LEMMA FinishSound ==
  ASSUME SchedulerInv, NEW g \in Gid, NEW u, Sound(g, u), NEW target, NEW effs, NEW publish,
         Finish(g, u, target, effs, publish)
  PROVE  SchedulerInv'
  <1>1. ids \in [IdKinds -> 1 .. (MaxId + 1)] BY DEF SchedulerInv, StateOK
  <1> QED BY <1>1, FinishIssuingSound DEF Finish, FinishIssuing

\* finish_action refuses an action the matrix rejects, and leaves the task in
\* the state the matrix names.
LEMMA CommitTarget ==
  ASSUME NEW g, NEW u, NEW target \in RowResults, NEW effs, NEW queueFirst, NEW publish,
         NEW newIds, NEW rest, Commit(g, u, target, effs, queueFirst, publish, newIds, rest)
  PROVE  target \in TaskStates /\ target # Conflict /\ target # Deleted /\ u.state = target
  BY DEF Commit, Acceptable, RowResults

\* The same for an action that issues no identity.
LEMMA FinishTarget ==
  ASSUME NEW g, NEW u, NEW target \in RowResults, NEW effs, NEW publish,
         Finish(g, u, target, effs, publish)
  PROVE  target \in TaskStates /\ target # Conflict /\ target # Deleted /\ u.state = target
  BY CommitTarget DEF Finish

\* The same for an action that issues identities.
LEMMA FinishIssuingTarget ==
  ASSUME NEW g, NEW u, NEW target \in RowResults, NEW effs, NEW publish, NEW newIds,
         FinishIssuing(g, u, target, effs, publish, newIds)
  PROVE  target \in TaskStates /\ target # Conflict /\ target # Deleted /\ u.state = target
  BY CommitTarget DEF FinishIssuing

\* next_id stays within its range.
LEMMA IssueType ==
  ASSUME StateOK, NEW kind \in IdKinds, CanIssue(kind)
  PROVE  Issue(kind) \in [IdKinds -> 1 .. (MaxId + 1)]
  BY BoundsAssumption DEF StateOK, CanIssue, Issue

\* The next identities are tokens.
LEMMA IdsType ==
  ASSUME StateOK, NEW kind \in IdKinds
  PROVE  ids[kind] \in Tokens /\ ids[kind] \in Nat
  BY BoundsAssumption DEF StateOK, Tokens

\* A task of the state is a task whose slot fits its state.
LEMMA TaskOf ==
  ASSUME SchedulerInv, NEW g \in Gid
  PROVE  tasks[g] \in Tasks /\ SlotFits(tasks[g])
  BY DEF SchedulerInv, StateOK

-----------------------------------------------------------------------------
(* The ways in which a handler keeps its task sound.                       *)

\* It keeps slot and state and does not end a drain or start a generation.
LEMMA StaysSound ==
  ASSUME SchedulerInv, NEW g \in Gid, NEW u \in Tasks,
         u.slot = tasks[g].slot, u.state = tasks[g].state,
         \/ u.barrier.kind = tasks[g].barrier.kind
         \/ /\ tasks[g].barrier.kind # "CancellationDrain"
            /\ u.barrier.kind # "GenerationPersistence"
  PROVE  Sound(g, u)
  BY TaskOf DEF Sound, SlotFits, OwnsSlot

\* It keeps the slot of a task that stops working and drains it.
LEMMA DrainSound ==
  ASSUME SchedulerInv, NEW g \in Gid, NEW u \in Tasks,
         u.slot = tasks[g].slot, u.state \notin WorkingStates, u.barrier.kind = "CancellationDrain"
  PROVE  Sound(g, u)
  BY DEF Sound, SlotFits, OwnsSlot

\* It leaves a task without a slot that does not work.
LEMMA SlotlessSound ==
  ASSUME NEW g, NEW u \in Tasks, u.slot = "None", u.state \notin WorkingStates,
         u.barrier.kind # "GenerationPersistence"
  PROVE  Sound(g, u)
  BY DEF Sound, SlotFits, OwnsSlot

\* A task that neither works, nor waits for a retry, nor drains has no slot.
LEMMA Unowned ==
  ASSUME SchedulerInv, NEW g \in Gid, tasks[g].state \notin WorkingStates \cup {"RetryWait"},
         tasks[g].barrier.kind # "CancellationDrain"
  PROVE  tasks[g].slot = "None"
  BY TaskOf DEF SlotFits, OwnsSlot

-----------------------------------------------------------------------------
(* Commands.                                                               *)

\* add_validated_task adds a task without a slot.
LEMMA AddStep ==
  ASSUME SchedulerInv, NEW g \in Gid, NEW id \in TaskIds, NEW a \in AddChoices, NEW position \in Nat,
         AddValidatedTask(g, id, a.paused, a.credential, a.noSpace, position)
  PROVE  SchedulerInv'
  <1> DEFINE new    == NewTask(id, a.paused, a.credential, a.noSpace)
             action == IF a.paused THEN "ValidationSucceededPaused" ELSE "ValidationSucceeded"
             target == ControlTarget(new.state, action)
             u      == [new EXCEPT !.state = target]
             class  == QueueClass(u)
             at     == IF position < Len(queues[class]) THEN position ELSE Len(queues[class])
  <1>1. a.paused \in BOOLEAN /\ a.credential \in Credentials /\ a.noSpace \in NoSpaceValues
    BY SchedulerAssumption
  <1>2. new \in Tasks /\ new.slot = "None" BY <1>1, NewTaskType
  <1>3. new.barrier.kind = "None" BY DEF NewTask, NoBarrier
  <1>4. target \in {"Waiting", "Paused"} BY DEF NewTask, ControlTarget, Move
  <1>5. target \in TaskStates /\ target \notin WorkingStates
    BY <1>4 DEF TaskStates, LiveStates, ParkedStates, WorkingStates
  <1>6. /\ tasks' = [tasks EXCEPT ![g] = u]
        /\ queues' = [queues EXCEPT ![class] = InsertAt(@, at + 1, g)]
        /\ highestTaskId' = id
        /\ published' = [published EXCEPT ![g] = SnapshotOf(u)]
        /\ UNCHANGED <<ids, policy>>
    BY DEF AddValidatedTask
  <1> HIDE DEF new, target
  <1>7. u \in Tasks BY <1>2, <1>5, WithStateType
  <1>8. u.slot = "None" /\ u.state = target /\ u.barrier.kind = "None" BY <1>2, <1>3, TaskFields
  <1> HIDE DEF u
  <1>9. class \in QueueClasses
    BY <1>4, <1>8 DEF QueueClass, ParkedStates, WorkingStates, TerminalPending, QueueClasses
  <1> HIDE DEF class
  <1>10. queues[class] \in Seq(Gid) /\ at + 1 \in 1 .. (Len(queues[class]) + 1)
    BY <1>9 DEF SchedulerInv, StateOK
  <1>11. InsertAt(queues[class], at + 1, g) \in Seq(Gid) BY <1>10, InsertAtType
  <1> HIDE DEF at
  <1>12. StateOK' BY <1>6, <1>7, <1>11, SnapshotOfType DEF SchedulerInv, StateOK
  <1>13. Sound(g, u) BY <1>5, <1>7, <1>8, SlotlessSound
  <1>14. tasks'[g] = u /\ \A h \in Gid \ {g} : tasks'[h] = tasks[h] BY <1>6 DEF SchedulerInv, StateOK
  <1>15. SlotBound' BY <1>13, <1>14, OwnersBound
  <1>16. (\A h \in Gid : SlotFits(tasks[h]))' BY <1>13, <1>14 DEF Sound, SchedulerInv, SlotFits, OwnsSlot
  <1> QED BY <1>12, <1>15, <1>16 DEF SchedulerInv

\* A pause remembered behind a barrier keeps the slot.
LEMMA PauseDeferredStep ==
  ASSUME SchedulerInv, NEW g \in Gid, NEW force \in BOOLEAN, PauseDeferred(g, force)
  PROVE  SchedulerInv'
  <1> DEFINE t       == tasks[g]
             c       == CancelTimers(t)
             control == IF force \/ t.userControl = "ForcePause" THEN "ForcePause" ELSE "Pause"
             v       == IF t.barrier.kind = "HostKeyResolution" THEN c.userControl ELSE control
             u       == [c EXCEPT !.desiredPaused = TRUE, !.userControl = v]
  <1>1. c \in Tasks /\ Alike(c, t) BY TaskOf, CancelTimersType, AlikeSteps
  <1>2. v \in UserControls BY <1>1 DEF UserControls, Tasks
  <1>3. \E target, effs, publish : Finish(g, u, target, effs, publish) BY DEF PauseDeferred
  <1> HIDE DEF c, v
  <1>4. u \in Tasks BY <1>1, <1>2, Zenon DEF Tasks
  <1>5. Alike(u, t) BY <1>1, TaskFields DEF Alike
  <1> HIDE DEF u
  <1>6. Sound(g, u) BY <1>4, <1>5, StaysSound DEF Alike
  <1> QED BY <1>3, <1>6, FinishSound

\* pause keeps the slot of a draining task and releases that of a retry.
LEMMA PauseStep ==
  ASSUME SchedulerInv, NEW g \in Gid, NEW force \in BOOLEAN, Pause(g, force)
  PROVE  SchedulerInv'
  <1> DEFINE t      == tasks[g]
             target == ControlTarget(t.state, "Pause")
             d      == CancelTimers(t)
             c      == [d EXCEPT !.desiredPaused = TRUE]
             b      == BeginCancellation(c, "Paused", force)
             r      == ReleaseSlot(c)
             u      == IF NeedsDrain(t) THEN b ELSE IF t.state = "RetryWait" THEN r ELSE c
             p      == [u EXCEPT !.state = target]
  <1>1. t \in Tasks /\ SlotFits(t) /\ d \in Tasks /\ Alike(d, t) BY TaskOf, CancelTimersType, AlikeSteps
  <1>2. /\ \E effs, publish : Finish(g, p, target, effs, publish)
        /\ ~NeedsDrain(t) /\ t.state # "RetryWait" => t.barrier.kind = "None"
    BY DEF Pause
  <1>3. target \in TaskStates /\ p.state = target BY <1>2, ControlTargetType, FinishTarget
  <1>4. target \notin WorkingStates
    BY DEF ControlTarget, PauseRow, Either, Stay, Move, WorkingStates, ParkedStates, Conflict
  <1> HIDE DEF d, target
  <1>5. c \in Tasks BY <1>1, Zenon DEF Tasks
  <1>6. c.slot = t.slot /\ c.barrier = t.barrier BY <1>1, TaskFields DEF Alike
  <1> HIDE DEF c
  <1>7. b \in Tasks BY <1>5, BeginCancellationType, Zenon DEF DrainTargets
  <1>8. b.slot = t.slot /\ b.barrier.kind = "CancellationDrain" BY <1>5, <1>6, BeginCancellationShape
  <1>9. r \in Tasks /\ r.slot = "None" /\ r.barrier = t.barrier
    BY <1>5, <1>6, ReleaseSlotType, ReleaseSlotShape
  <1> HIDE DEF b, r
  <1>10. u \in Tasks BY <1>5, <1>7, <1>9
  <1>11. \/ u.slot = t.slot /\ u.barrier.kind = "CancellationDrain"
         \/ u.slot = "None" /\ u.barrier.kind # "GenerationPersistence"
    <2>1. CASE NeedsDrain(t) BY <1>8, <2>1
    <2>2. CASE ~NeedsDrain(t) /\ t.state = "RetryWait" BY <1>1, <2>2, <1>9 DEF SlotFits, WorkingStates
    <2>3. CASE ~NeedsDrain(t) /\ t.state # "RetryWait"
      BY <1>1, <1>2, <1>6, <2>3 DEF SlotFits, OwnsSlot, NeedsDrain
    <2> QED BY <2>1, <2>2, <2>3
  <1> HIDE DEF u
  <1>12. p \in Tasks BY <1>3, <1>10, WithStateType
  <1>13. p.slot = u.slot /\ p.barrier = u.barrier BY <1>10, TaskFields
  <1> HIDE DEF p
  <1>14. Sound(g, p) BY <1>3, <1>4, <1>11, <1>12, <1>13, DrainSound, SlotlessSound
  <1> QED BY <1>2, <1>14, FinishSound

\* A remove remembered behind a barrier keeps the slot.
LEMMA RemoveDeferredStep ==
  ASSUME SchedulerInv, NEW g \in Gid, NEW force \in BOOLEAN, RemoveDeferred(g, force)
  PROVE  SchedulerInv'
  <1> DEFINE t == tasks[g]
             c == CancelTimers(t)
             v == IF force \/ c.userControl = "ForceRemove" THEN "ForceRemove" ELSE "Remove"
             u == [c EXCEPT !.probe = 0, !.probeOrigin = "none", !.userControl = v]
  <1>1. c \in Tasks /\ Alike(c, t) BY TaskOf, CancelTimersType, AlikeSteps
  <1>2. v \in UserControls /\ "none" \in ProbeOrigins BY DEF UserControls, ProbeOrigins
  <1>3. \E target, effs, publish : Finish(g, u, target, effs, publish) BY <1>1 DEF RemoveDeferred, Tasks
  <1> HIDE DEF c, v
  <1>4. u \in Tasks BY <1>1, <1>2, ZeroToken, Zenon DEF Tasks
  <1>5. Alike(u, t) BY <1>1, TaskFields DEF Alike
  <1> HIDE DEF u
  <1>6. Sound(g, u) BY <1>4, <1>5, StaysSound DEF Alike
  <1> QED BY <1>3, <1>6, FinishSound

\* remove keeps the slot of a draining task and releases any other.
LEMMA RemoveStep ==
  ASSUME SchedulerInv, NEW g \in Gid, NEW force \in BOOLEAN, RemoveTask(g, force)
  PROVE  SchedulerInv'
  <1> DEFINE t      == tasks[g]
             target == ControlTarget(t.state, "Remove")
             d      == Discard(t)
             c      == [d EXCEPT !.state = target]
             r      == ReleaseSlot(c)
             b      == BeginCancellation(c, "Removed", force)
             e      == BeginTerminal(r, "removed", FALSE)
             u      == IF NeedsDrain(t) THEN b ELSE e
  <1>1. d \in Tasks /\ Alike(d, t) BY TaskOf, DiscardType, AlikeSteps
  <1>2. \E effs, publish : Finish(g, u, target, effs, publish) BY DEF RemoveTask
  <1>t. target \in RowResults /\ target \notin WorkingStates
    BY ControlTargetType DEF ControlTarget, Move, WorkingStates, Conflict
  <1> HIDE DEF d, target, u
  <1>3. target \in TaskStates /\ u.state = target BY <1>2, <1>t, FinishTarget
  <1>5. c \in Tasks BY <1>1, <1>3, WithStateType
  <1>6. c.slot = t.slot BY <1>1, TaskFields DEF Alike
  <1> HIDE DEF c
  <1>7. b \in Tasks BY <1>5, BeginCancellationType, Zenon DEF DrainTargets
  <1>8. b.slot = t.slot /\ b.barrier.kind = "CancellationDrain" BY <1>5, <1>6, BeginCancellationShape
  <1>9. r \in Tasks /\ r.slot = "None" /\ "removed" \in Aria2Terminal
    BY <1>5, ReleaseSlotType, ReleaseSlotShape DEF Aria2Terminal
  <1> HIDE DEF b, r
  <1>10. e \in Tasks BY <1>9, BeginTerminalType, Zenon
  <1>11. e.slot = r.slot /\ e.barrier.kind = "TerminalPersistence" BY <1>9, BeginTerminalShape, Zenon
  <1> HIDE DEF e
  <1>12. CASE NeedsDrain(t) BY <1>3, <1>t, <1>7, <1>8, <1>12, DrainSound, <1>2, FinishSound DEF u
  <1>13. CASE ~NeedsDrain(t) BY <1>3, <1>t, <1>9, <1>10, <1>11, <1>13, SlotlessSound, <1>2, FinishSound DEF u
  <1> QED BY <1>12, <1>13

\* What resume drops leaves slot, state and barrier alone.
LEMMA DropSlowWaitType ==
  ASSUME NEW t \in Tasks
  PROVE  DropSlowWait(t) \in Tasks /\ Alike(DropSlowWait(t), t)
  <1> DEFINE n == IF t.state \in {"WaitingSlow", "PausedSlow"} THEN 0 ELSE t.slowCount
  <1>1. n \in Nat BY DEF Tasks
  <1>2. DropSlowWait(t) = [t EXCEPT !.slowReadmission = 0, !.slowReady = FALSE,
                                    !.slowSlot = FALSE, !.slowCount = n]
    BY DEF DropSlowWait, Tasks
  <1> HIDE DEF n
  <1>3. [t EXCEPT !.slowReadmission = 0, !.slowReady = FALSE, !.slowSlot = FALSE,
                  !.slowCount = n] \in Tasks
    BY <1>1, ZeroToken, Zenon DEF Tasks
  <1>4. Alike(DropSlowWait(t), t) BY TaskFields DEF DropSlowWait, Alike
  <1> QED BY <1>2, <1>3, <1>4

\* A resume remembered behind a barrier keeps the slot.
LEMMA ResumeDeferredStep ==
  ASSUME SchedulerInv, NEW g \in Gid, ResumeDeferred(g)
  PROVE  SchedulerInv'
  <1> DEFINE t == tasks[g]
             d == DropSlowWait(t)
             v == IF t.barrier.kind # "HostKeyResolution" /\ t.state \in {"Paused", "PausedSlow"}
                  THEN "Resume" ELSE "None"
             u == [d EXCEPT !.desiredPaused = FALSE, !.userControl = v]
  <1>1. d \in Tasks /\ Alike(d, t) BY TaskOf, DropSlowWaitType
  <1>2. v \in UserControls BY DEF UserControls
  <1>3. \E target, effs, publish : Finish(g, u, target, effs, publish) BY DEF ResumeDeferred
  <1> HIDE DEF d, v
  <1>4. u \in Tasks BY <1>1, <1>2, Zenon DEF Tasks
  <1>5. Alike(u, t) BY <1>1, TaskFields DEF Alike
  <1> HIDE DEF u
  <1>6. Sound(g, u) BY <1>4, <1>5, StaysSound DEF Alike
  <1> QED BY <1>3, <1>6, FinishSound

\* resume moves a task that has no slot.
LEMMA ResumeStep ==
  ASSUME SchedulerInv, NEW g \in Gid, Resume(g)
  PROVE  SchedulerInv'
  <1> DEFINE t      == tasks[g]
             d      == DropSlowWait(t)
             target == ControlTarget(t.state, "Resume")
             u      == [d EXCEPT !.desiredPaused = FALSE, !.state = target]
  <1>1. d \in Tasks /\ Alike(d, t) BY TaskOf, DropSlowWaitType
  <1>2. t.barrier.kind = "None" /\ \E effs, publish : Finish(g, u, target, effs, publish) BY DEF Resume
  <1>3. target \in TaskStates /\ target # Conflict BY <1>2, ControlTargetType, FinishTarget
  <1>4. target = "Waiting" /\ t.state \in {"WaitingSlow", "Paused", "PausedSlow"}
    BY <1>3 DEF ControlTarget, Move
  <1>5. t.slot = "None" BY <1>2, <1>4, Unowned DEF WorkingStates
  <1> HIDE DEF d, target
  <1>6. u \in Tasks BY <1>1, <1>3, Zenon DEF Tasks
  <1>7. u.slot = "None" /\ u.barrier.kind = "None" /\ u.state = target
    BY <1>1, <1>2, <1>5, TaskFields DEF Alike
  <1> HIDE DEF u
  <1>8. Sound(g, u) BY <1>4, <1>6, <1>7, SlotlessSound DEF WorkingStates
  <1> QED BY <1>2, <1>8, FinishSound

\* A resume that starts a disk-space probe leaves the slot of a retry alone.
LEMMA ResumeProbeStep ==
  ASSUME SchedulerInv, NEW g \in Gid, ResumeProbe(g)
  PROVE  SchedulerInv'
  <1> DEFINE t      == tasks[g]
             d      == DropSlowWait(t)
             target == AdmissionTarget(t.state, "ExplicitNoSpaceProbeRequested")
             slow   == t.state \in {"WaitingSlow", "PausedSlow"}
             e      == [d EXCEPT !.pendingSlow = FALSE]
             s      == IF slow THEN e ELSE t
             r      == [s EXCEPT !.desiredPaused = FALSE, !.state = target]
             f      == [r EXCEPT !.probe = ids.probe, !.probeOrigin = "ExplicitResume"]
             u      == IF t.probe = 0 THEN f ELSE r
             newIds == IF t.probe = 0 THEN Issue("probe") ELSE ids
  <1>1. t \in Tasks /\ SlotFits(t) /\ d \in Tasks /\ Alike(d, t) BY TaskOf, DropSlowWaitType
  <1>2. t.barrier.kind = "None" /\ \E effs : Commit(g, u, target, effs, TRUE, TRUE, newIds, tasks)
    BY DEF ResumeProbe
  <1>t. target \in RowResults BY AdmissionTargetType
  <1> HIDE DEF d, target, newIds, u
  <1>3. target \in TaskStates /\ target # Conflict BY <1>2, <1>t, CommitTarget
  <1>4. \/ t.state \in {"Waiting", "RetryWait", "Paused"} /\ target = t.state
        \/ slow /\ target = "Waiting"
    BY <1>3 DEF target, AdmissionTarget, Either, Stay, Move, Conflict
  <1>5. newIds \in [IdKinds -> 1 .. (MaxId + 1)]
    BY IssueType DEF ResumeProbe, SchedulerInv, StateOK, IdKinds, newIds
  <1>6. ids.probe \in Tokens /\ "ExplicitResume" \in ProbeOrigins
    BY IdsType DEF SchedulerInv, IdKinds, ProbeOrigins
  <1>7. e \in Tasks BY <1>1, Zenon DEF Tasks
  <1>8. Alike(e, t) BY <1>1, TaskFields DEF Alike
  <1> HIDE DEF e
  <1>9. s \in Tasks /\ Alike(s, t) BY <1>1, <1>7, <1>8 DEF Alike
  <1> HIDE DEF s
  <1>10. r \in Tasks BY <1>3, <1>9, Zenon DEF Tasks
  <1>11. r.slot = t.slot /\ r.barrier = t.barrier /\ r.state = target BY <1>9, TaskFields DEF Alike
  <1> HIDE DEF r
  <1>12. f \in Tasks BY <1>6, <1>10, Zenon DEF Tasks
  <1>13. Alike(f, r) BY <1>10, TaskFields DEF Alike
  <1> HIDE DEF f
  <1>14. u \in Tasks /\ u.slot = t.slot /\ u.barrier = t.barrier /\ u.state = target
    BY <1>10, <1>11, <1>12, <1>13 DEF Alike, u
  <1>15. Sound(g, u)
    <2>1. CASE target = t.state BY <1>14, <2>1, StaysSound
    <2>2. CASE target # t.state BY <1>2, <1>4, <2>2, Unowned, <1>14, SlotlessSound DEF WorkingStates
    <2> QED BY <2>1, <2>2
  <1>16. tasks \in [Gid -> Tasks] /\ \A h \in Gid : Alike(tasks[h], tasks[h])
    BY DEF SchedulerInv, StateOK, Alike
  <1> QED BY <1>2, <1>5, <1>15, <1>16, CommitSound

\* A task given another barrier is sound if that ends no drain and starts no
\* generation.
LEMMA BarrierSound ==
  ASSUME SchedulerInv, NEW g \in Gid, NEW b \in Barriers,
         tasks[g].barrier.kind # "CancellationDrain", b.kind # "GenerationPersistence"
  PROVE  Sound(g, [tasks[g] EXCEPT !.barrier = b])
  <1> DEFINE u == [tasks[g] EXCEPT !.barrier = b]
  <1>1. tasks[g] \in Tasks BY TaskOf
  <1>2. u \in Tasks BY <1>1, WithBarrierType
  <1>3. u.slot = tasks[g].slot /\ u.state = tasks[g].state /\ u.barrier = b BY <1>1, TaskFields
  <1> HIDE DEF u
  <1>4. Sound(g, u) BY <1>2, <1>3, StaysSound
  <1> QED BY <1>4 DEF u

\* A barrier that waits for an acknowledgement, with the identity it awaits.
LEMMA TokenBarrierType ==
  ASSUME SchedulerInv, NEW g \in Gid, NEW kind \in BarrierKinds, NEW token \in Nat
  PROVE  /\ AckBarrier(kind, tasks[g].generation, token) \in Barriers
         /\ AckBarrier(kind, tasks[g].generation, token).kind = kind
  <1>1. tasks[g].generation \in Generations BY TaskOf DEF Tasks
  <1>2. AckBarrier(kind, tasks[g].generation, token) \in Barriers BY <1>1, AckBarrierType
  <1> QED BY <1>2 DEF AckBarrier, NoBarrier

\* A barrier that carries the challenge it resolves is a barrier.
LEMMA ResolutionBarrierType ==
  ASSUME SchedulerInv, NEW g \in Gid, NEW challenge \in Nat
  PROVE  LET b == [AckBarrier("HostKeyResolution", tasks[g].generation, ids.resolution)
                     EXCEPT !.challenge = challenge]
         IN b \in Barriers /\ b.kind = "HostKeyResolution"
  <1> DEFINE a == AckBarrier("HostKeyResolution", tasks[g].generation, ids.resolution)
             b == [a EXCEPT !.challenge = challenge]
  <1>1. ids.resolution \in Nat BY IdsType DEF SchedulerInv, IdKinds
  <1>2. a \in Barriers /\ a.kind = "HostKeyResolution" BY <1>1, TokenBarrierType DEF BarrierKinds
  <1> HIDE DEF a
  <1>3. b \in Barriers BY <1>2, Zenon DEF Barriers
  <1>4. b.kind = "HostKeyResolution" BY <1>2 DEF Barriers
  <1> QED BY <1>3, <1>4 DEF a

\* approve_host_key only adds a barrier.
LEMMA ApproveHostKeyStep ==
  ASSUME SchedulerInv, NEW g \in Gid, ApproveHostKey(g, tasks[g].challenge)
  PROVE  SchedulerInv'
  <1> DEFINE b == [AckBarrier("HostKeyResolution", tasks[g].generation, ids.resolution)
                     EXCEPT !.challenge = tasks[g].challenge]
             u == [tasks[g] EXCEPT !.barrier = b]
  <1>1. tasks[g].challenge \in Nat BY TaskOf DEF Tasks
  <1>2. b \in Barriers /\ b.kind = "HostKeyResolution" BY <1>1, ResolutionBarrierType
  <1>3. /\ tasks[g].barrier.kind = "None" /\ CanIssue("resolution")
        /\ \E target, effs, publish : FinishIssuing(g, u, target, effs, publish, Issue("resolution"))
    BY DEF ApproveHostKey
  <1> HIDE DEF b
  <1>4. Sound(g, u) BY <1>2, <1>3, BarrierSound
  <1>5. Issue("resolution") \in [IdKinds -> 1 .. (MaxId + 1)] BY <1>3, IssueType DEF SchedulerInv, IdKinds
  <1> HIDE DEF u
  <1> QED BY <1>3, <1>4, <1>5, FinishIssuingSound

\* begin_source_replacement drains the owner of a slot before it is released.
LEMMA BeginSourceReplacementStep ==
  ASSUME SchedulerInv, NEW g \in Gid, BeginSourceReplacement(g)
  PROVE  SchedulerInv'
  <1> DEFINE t      == tasks[g]
             d      == CancelTimers(t)
             target == WorkTarget(t.state, "SourceReplacementRequested")
             c      == [d EXCEPT !.state = target, !.sourceReplacement = TRUE]
             b      == BeginCancellation(c, "PausedRestarting", FALSE)
             u      == IF OwnsSlot(t) THEN b ELSE c
  <1>1. d \in Tasks /\ Alike(d, t) BY TaskOf, CancelTimersType, AlikeSteps
  <1>2. t.barrier.kind = "None" /\ \E effs, publish : Finish(g, u, target, effs, publish)
    BY DEF BeginSourceReplacement
  <1>t. target \in RowResults /\ target \notin WorkingStates
    BY WorkTargetType DEF WorkTarget, Either, Stay, Move, WorkingStates, Conflict
  <1> HIDE DEF d, target, u
  <1>3. target \in TaskStates /\ u.state = target BY <1>2, <1>t, FinishTarget
  <1>4. c \in Tasks BY <1>1, <1>3, Zenon DEF Tasks
  <1>5. c.slot = t.slot /\ c.barrier = t.barrier BY <1>1, TaskFields DEF Alike
  <1> HIDE DEF c
  <1>6. b \in Tasks BY <1>4, BeginCancellationType, Zenon DEF DrainTargets
  <1>7. b.slot = c.slot /\ b.barrier.kind = "CancellationDrain" BY <1>4, BeginCancellationShape, Zenon
  <1> HIDE DEF b
  <1>8. CASE OwnsSlot(t) BY <1>3, <1>t, <1>5, <1>6, <1>7, <1>8, DrainSound, <1>2, FinishSound DEF u
  <1>9. CASE ~OwnsSlot(t) BY <1>2, <1>3, <1>t, <1>4, <1>5, <1>9, SlotlessSound, FinishSound DEF u, OwnsSlot
  <1> QED BY <1>8, <1>9

\* commit_source_replacement returns a task without a slot to its queue.
LEMMA CommitSourceReplacementStep ==
  ASSUME SchedulerInv, NEW g \in Gid, NEW satisfies \in BOOLEAN,
         CommitSourceReplacement(g, satisfies)
  PROVE  SchedulerInv'
  <1> DEFINE t      == tasks[g]
             target == WorkTarget(t.state, "SourceReplacementCommitted")
             v      == IF satisfies THEN "none" ELSE t.credential
             u      == [t EXCEPT !.state = target, !.sourceReplacement = FALSE, !.credential = v]
  <1>1. t \in Tasks BY TaskOf
  <1>2. /\ t.barrier.kind = "None" /\ ~OwnsSlot(t)
        /\ \E effs, publish : Finish(g, u, target, effs, publish)
    BY <1>1 DEF CommitSourceReplacement, Tasks
  <1>t. target \in RowResults /\ target \notin WorkingStates
    BY WorkTargetType DEF WorkTarget, Either, Stay, Move, WorkingStates, Conflict
  <1>3. v \in Credentials BY <1>1 DEF Tasks, Credentials
  <1> HIDE DEF target, v, u
  <1>4. target \in TaskStates /\ u.state = target BY <1>2, <1>t, FinishTarget
  <1>5. u \in Tasks BY <1>1, <1>3, <1>4, Zenon DEF Tasks, u
  <1>6. u.slot = t.slot /\ u.barrier = t.barrier BY <1>1, TaskFields DEF u
  <1>7. Sound(g, u) BY <1>2, <1>t, <1>4, <1>5, <1>6, SlotlessSound DEF OwnsSlot
  <1> QED BY <1>2, <1>7, FinishSound

\* A patched task that waits behind a barrier is sound.
LEMMA PatchedSound ==
  ASSUME SchedulerInv, NEW g \in Gid, NEW patch \in Patches, NEW mode \in PatchModes,
         NEW credential \in Credentials, NEW b \in Barriers,
         tasks[g].barrier.kind # "CancellationDrain", b.kind # "GenerationPersistence"
  PROVE  Sound(g, [Patched(tasks[g], patch, mode, credential) EXCEPT !.barrier = b])
  <1> DEFINE t == tasks[g]
             d == Patched(t, patch, mode, credential)
             u == [d EXCEPT !.barrier = b]
  <1>1. t \in Tasks BY TaskOf
  <1>2. d \in Tasks BY <1>1, Zenon DEF Patched, Tasks
  <1>3. Alike(d, t) BY <1>1, TaskFields DEF Patched, Alike
  <1> HIDE DEF d
  <1>4. u \in Tasks BY <1>2, WithBarrierType
  <1>5. u.slot = t.slot /\ u.state = t.state /\ u.barrier = b BY <1>2, <1>3, TaskFields DEF Alike
  <1> HIDE DEF u
  <1>6. Sound(g, u) BY <1>4, <1>5, StaysSound
  <1> QED BY <1>6 DEF u, d

\* apply_option_patch does not touch the slot, whatever it has to wait for.
LEMMA ApplyOptionPatchStep ==
  ASSUME SchedulerInv, NEW g \in Gid, NEW patch \in Patches, NEW kind, NEW credential \in Credentials,
         ApplyOptionPatch(g, patch, kind, credential) \/ ApplyRestartPatch(g, patch, credential)
  PROVE  SchedulerInv'
  <1> DEFINE b1 == AckBarrier("OptionPatchApplication", tasks[g].generation, patch)
             b2 == AckBarrier("OptionPatchPersistence", tasks[g].generation, patch)
             u1 == [Patched(tasks[g], patch, "InPlace", credential) EXCEPT !.barrier = b1]
             u2 == [Patched(tasks[g], patch, "ActiveRestart", credential) EXCEPT !.barrier = b2]
  <1>1. "InPlace" \in PatchModes /\ "ActiveRestart" \in PatchModes /\ patch \in Nat
    BY BoundsAssumption DEF PatchModes, Patches
  <1>2. /\ b1 \in Barriers /\ b1.kind = "OptionPatchApplication"
        /\ b2 \in Barriers /\ b2.kind = "OptionPatchPersistence"
    BY <1>1, TokenBarrierType DEF BarrierKinds
  <1>3. /\ tasks[g].barrier.kind = "None"
        /\ \/ \E target, effs, publish : Finish(g, u1, target, effs, publish)
           \/ \E target, effs, publish : Finish(g, u2, target, effs, publish)
    BY DEF ApplyOptionPatch, ApplyRestartPatch, PatchAccepted
  <1> HIDE DEF b1, b2
  <1>4. Sound(g, u1) /\ Sound(g, u2) BY <1>1, <1>2, <1>3, PatchedSound
  <1> HIDE DEF u1, u2
  <1> QED BY <1>3, <1>4, FinishSound

\* The matching-host-key option does not touch the slot either.
LEMMA ApplyHostKeyPatchStep ==
  ASSUME SchedulerInv, NEW g \in Gid, NEW patch \in Patches,
         ApplyHostKeyPatch(g, patch, tasks[g].challenge)
  PROVE  SchedulerInv'
  <1> DEFINE t == tasks[g]
             b == [AckBarrier("HostKeyResolution", t.generation, ids.resolution)
                     EXCEPT !.challenge = t.challenge]
             u == [Patched(t, patch, "MatchingHostKey", t.patchCredential) EXCEPT !.barrier = b]
  <1>1. t.challenge \in Nat /\ t.patchCredential \in Credentials /\ "MatchingHostKey" \in PatchModes
    BY TaskOf DEF Tasks, PatchModes
  <1>2. b \in Barriers /\ b.kind = "HostKeyResolution" BY <1>1, ResolutionBarrierType
  <1>3. /\ t.barrier.kind = "None" /\ CanIssue("resolution")
        /\ \E target, effs, publish : FinishIssuing(g, u, target, effs, publish, Issue("resolution"))
    BY DEF ApplyHostKeyPatch, PatchAccepted
  <1> HIDE DEF b
  <1>4. Sound(g, u) BY <1>1, <1>2, <1>3, PatchedSound
  <1>5. Issue("resolution") \in [IdKinds -> 1 .. (MaxId + 1)] BY <1>3, IssueType DEF SchedulerInv, IdKinds
  <1> HIDE DEF u
  <1> QED BY <1>3, <1>4, <1>5, FinishIssuingSound

\* remove_stopped_result only adds a barrier.
LEMMA RemoveStoppedResultStep ==
  ASSUME SchedulerInv, NEW g \in Gid, RemoveStoppedResult(g)
  PROVE  SchedulerInv'
  <1> DEFINE b == AckBarrier("StoppedResultDeletion", tasks[g].generation, ids.deletion)
             u == [tasks[g] EXCEPT !.barrier = b]
  <1>1. ids.deletion \in Nat BY IdsType DEF SchedulerInv, IdKinds
  <1>2. b \in Barriers /\ b.kind = "StoppedResultDeletion" BY <1>1, TokenBarrierType DEF BarrierKinds
  <1>3. /\ tasks[g].barrier.kind = "None" /\ CanIssue("deletion")
        /\ \E target, effs, publish : FinishIssuing(g, u, target, effs, publish, Issue("deletion"))
    BY DEF RemoveStoppedResult
  <1> HIDE DEF b
  <1>4. Sound(g, u) BY <1>2, <1>3, BarrierSound
  <1>5. Issue("deletion") \in [IdKinds -> 1 .. (MaxId + 1)] BY <1>3, IssueType DEF SchedulerInv, IdKinds
  <1> HIDE DEF u
  <1> QED BY <1>3, <1>4, <1>5, FinishIssuingSound

\* A step that leaves the tasks alone leaves the slots alone.
LEMMA TasksUnchanged ==
  ASSUME SchedulerInv, tasks' = tasks, StateOK'
  PROVE  SchedulerInv'
  BY DEF SchedulerInv, SlotBound, SlotOwners, SlotFits, OwnsSlot

\* change_position reorders one queue.
LEMMA ChangePositionStep ==
  ASSUME SchedulerInv, NEW g \in Gid, NEW position \in Nat, ChangePosition(g, position)
  PROVE  SchedulerInv'
  <1> DEFINE class == QueueClass(tasks[g])
             old   == Position(g, class)
             q     == RemoveAt(queues[class], old)
  <1>1. /\ class # "None"
        /\ InQueue(g, class)
        /\ position < Len(queues[class])
        /\ queues' = [queues EXCEPT ![class] = InsertAt(RemoveAt(@, old), position + 1, g)]
        /\ UNCHANGED <<tasks, highestTaskId, ids, policy, published>>
    BY DEF ChangePosition
  <1>2. class \in QueueClasses BY <1>1 DEF QueueClass, QueueClasses
  <1> HIDE DEF class
  <1>3. queues[class] \in Seq(Gid) /\ old \in 1 .. Len(queues[class])
    BY <1>1, <1>2, PositionType DEF SchedulerInv, StateOK
  <1> HIDE DEF old
  <1>4. q \in Seq(Gid) /\ Len(q) = Len(queues[class]) - 1 BY <1>3, RemoveAtType, RemoveAtLen
  <1> HIDE DEF q
  <1>5. InsertAt(q, position + 1, g) \in Seq(Gid)
    <2>1. position + 1 \in 1 .. (Len(q) + 1) BY <1>1, <1>3, <1>4
    <2> QED BY <1>4, <2>1, InsertAtType
  <1>6. queues' \in [QueueClasses -> Seq(Gid)] BY <1>1, <1>2, <1>5 DEF SchedulerInv, StateOK, q
  <1>7. StateOK' BY <1>1, <1>6 DEF SchedulerInv, StateOK
  <1> QED BY <1>1, <1>7, TasksUnchanged

\* configure_queue_policies selects one of the configured policies.
LEMMA ConfigureStep ==
  ASSUME SchedulerInv, NEW p \in PolicyChoices, ConfigureQueuePolicies(p)
  PROVE  SchedulerInv'
  <1>1. StateOK' BY SchedulerAssumption DEF ConfigureQueuePolicies, SchedulerInv, StateOK
  <1> QED BY <1>1, TasksUnchanged DEF ConfigureQueuePolicies

-----------------------------------------------------------------------------
(* Admission.                                                              *)

\* Advancing the ready demoted tasks changes no slot, state or barrier.
LEMMA AdvanceDemotedType ==
  ASSUME SchedulerInv
  PROVE  /\ AdvanceDemoted \in [Gid -> Tasks]
         /\ \A h \in Gid : Alike(AdvanceDemoted[h], tasks[h])
  <1> SUFFICES ASSUME NEW h \in Gid
               PROVE  AdvanceDemoted[h] \in Tasks /\ Alike(AdvanceDemoted[h], tasks[h])
    BY DEF AdvanceDemoted
  <1> DEFINE t == tasks[h]
             n == t.slowPos - 1
             u == [t EXCEPT !.slowPos = n]
  <1>1. t \in Tasks BY TaskOf
  <1>2. t.slowPos > 0 => n \in Nat BY <1>1 DEF Tasks
  <1>3. Alike(u, t) /\ Alike(t, t) BY <1>1, TaskFields DEF Alike
  <1>4. AdvanceDemoted[h] = IF t.slowReady /\ t.slowPos > 0 THEN u ELSE t BY <1>1 DEF AdvanceDemoted, Tasks
  <1> HIDE DEF n
  <1>5. n \in Nat => u \in Tasks BY <1>1, Zenon DEF Tasks
  <1> QED BY <1>1, <1>2, <1>3, <1>4, <1>5

\* plan_admission of a task r that differs from the stored one in its timers.
LEMMA AdmitSound ==
  ASSUME SchedulerInv, NEW g \in Gid, NEW r \in Tasks, CanAdmit(tasks[g]),
         r.started = tasks[g].started, r.generation = tasks[g].generation
  PROVE  Sound(g, Admit(r))
  <1>1. Admit(r) \in Tasks BY AdmitType DEF CanAdmit
  <1>2. SlotFits(Admit(r)) BY AdmitShape DEF SlotFits, OwnsSlot, WorkingStates
  <1> QED BY <1>1, <1>2 DEF Sound, CanAdmit

\* admit_next takes a free slot or the one the task kept.
LEMMA AdmitNextStep ==
  ASSUME SchedulerInv, NEW g \in Gid, AdmitNext(g)
  PROVE  SchedulerInv'
  <1> DEFINE rest == IF tasks[g].state = "WaitingSlow" THEN tasks ELSE AdvanceDemoted
  <1>1. /\ CanAdmit(tasks[g])
        /\ \E target, effs : Commit(g, Admit(tasks[g]), target, effs, FALSE, TRUE, ids, rest)
    BY DEF AdmitNext
  <1>2. tasks[g] \in Tasks BY TaskOf
  <1>3. Sound(g, Admit(tasks[g])) BY <1>1, <1>2, AdmitSound
  <1>4. tasks \in [Gid -> Tasks] /\ ids \in [IdKinds -> 1 .. (MaxId + 1)] BY DEF SchedulerInv, StateOK
  <1>5. rest \in [Gid -> Tasks] /\ \A h \in Gid : Alike(rest[h], tasks[h])
    BY <1>4, AdvanceDemotedType DEF Alike
  <1> HIDE DEF rest
  <1> QED BY <1>1, <1>3, <1>4, <1>5, CommitSound

\* Whoever admit_next selects waits for no acknowledgement.
LEMMA CandidateFree ==
  ASSUME NEW g \in AdmissionCandidate
  PROVE  tasks[g].barrier.kind = "None"
  <1>1. \A h \in FirstReady("Waiting", RestartPatchReady) : tasks[h].barrier.kind = "None"
    BY DEF FirstReady, RestartPatchReady
  <1>2. \A h \in FirstReady("Active", RetainedRetryReady) : tasks[h].barrier.kind = "None"
    BY DEF FirstReady, RetainedRetryReady, Unblocked
  <1>3. \A h \in FirstReady("Demoted", DemotedReady) : tasks[h].barrier.kind = "None"
    BY DEF FirstReady, DemotedReady, Unblocked
  <1>4. \A h \in FirstReady("Waiting", WaitingReady) : tasks[h].barrier.kind = "None"
    BY DEF FirstReady, WaitingReady, Unblocked
  <1>5. \/ g \in FirstReady("Waiting", RestartPatchReady)
        \/ g \in FirstReady("Active", RetainedRetryReady)
        \/ g \in FirstReady("Demoted", DemotedReady)
        \/ g \in FirstReady("Waiting", WaitingReady)
    BY Zenon DEF AdmissionCandidate, OrElse
  <1> QED BY <1>1, <1>2, <1>3, <1>4, <1>5

\* A staged restart patch is applied without a slot.
LEMMA ScheduleRestartPatchStep ==
  ASSUME SchedulerInv, NEW g \in Gid, ScheduleRestartPatch(g)
  PROVE  SchedulerInv'
  <1> DEFINE b == AckBarrier("OptionPatchApplication", tasks[g].generation, tasks[g].patch)
             u == [tasks[g] EXCEPT !.barrier = b]
  <1>1. tasks[g].patch \in Nat BY TaskOf, BoundsAssumption DEF Tasks, Patches
  <1>2. b \in Barriers /\ b.kind = "OptionPatchApplication" BY <1>1, TokenBarrierType DEF BarrierKinds
  <1>3. /\ g \in AdmissionCandidate
        /\ \E target, effs, publish : Finish(g, u, target, effs, publish)
    BY DEF ScheduleRestartPatch
  <1> HIDE DEF b
  <1>4. Sound(g, u) BY <1>2, <1>3, CandidateFree, BarrierSound
  <1> HIDE DEF u
  <1> QED BY <1>3, <1>4, FinishSound

-----------------------------------------------------------------------------
(* Acknowledgements.  An event names the GID of one task.                  *)

\* mark_non_token_event leaves slot, state and barrier alone.
LEMMA MarkType ==
  ASSUME NEW t \in Tasks, NEW kind \in SeenKinds
  PROVE  Mark(t, kind) \in Tasks /\ Alike(Mark(t, kind), t)
  <1> DEFINE v == t.seen \cup {kind}
  <1>1. v \in SUBSET SeenKinds BY DEF Tasks
  <1>2. Mark(t, kind) = [t EXCEPT !.seen = v] BY DEF Mark, Tasks
  <1>3. Alike(Mark(t, kind), t) BY TaskFields DEF Mark, Alike
  <1> HIDE DEF v
  <1>4. [t EXCEPT !.seen = v] \in Tasks BY <1>1, Zenon DEF Tasks
  <1> QED BY <1>2, <1>3, <1>4

\* GenerationPersisted: the slot the task reserved becomes active.
LEMMA GenerationPersistedStep ==
  ASSUME SchedulerInv, NEW e, e.gid \in Gid, GenerationPersisted(e)
  PROVE  SchedulerInv'
  <1> DEFINE t      == tasks[e.gid]
             m      == Mark(t, "GenerationPersisted")
             u      == [m EXCEPT !.barrier = NoBarrier, !.slot = "Active"]
             target == WorkTarget(t.state, "GenerationPersistenceSucceeded")
  <1>1. t \in Tasks /\ SlotFits(t) /\ "GenerationPersisted" \in SeenKinds /\ "Active" \in Slots
    BY TaskOf DEF SeenKinds, Slots
  <1>2. m \in Tasks /\ Alike(m, t) BY <1>1, MarkType
  <1>3. /\ t.barrier.kind = "GenerationPersistence"
        /\ \E effs, publish : Finish(e.gid, u, target, effs, publish)
    BY DEF GenerationPersisted
  <1> HIDE DEF m
  <1>4. u \in Tasks BY <1>1, <1>2, NoBarrierType, Zenon DEF Tasks
  <1>5. u.slot = "Active" /\ u.state = t.state /\ u.barrier.kind = "None"
    BY <1>2, TaskFields DEF Alike, NoBarrier
  <1> HIDE DEF u, target
  <1>6. Sound(e.gid, u) BY <1>1, <1>3, <1>4, <1>5 DEF Sound, SlotFits, OwnsSlot
  <1> QED BY <1>3, <1>6, FinishSound

\* The end of a patch leaves slot, state and barrier alone.
LEMMA ClearPatchType ==
  ASSUME NEW t \in Tasks
  PROVE  ClearPatch(t) \in Tasks /\ Alike(ClearPatch(t), t)
  <1>1. "None" \in PatchModes /\ "none" \in Credentials BY DEF PatchModes, Credentials
  <1>2. ClearPatch(t) \in Tasks BY <1>1, ZeroPatch, Zenon DEF ClearPatch, Tasks
  <1>3. Alike(ClearPatch(t), t) BY TaskFields DEF ClearPatch, Alike
  <1> QED BY <1>2, <1>3

\* A task whose barrier has been answered.
LEMMA AnsweredType ==
  ASSUME NEW t \in Tasks
  PROVE  LET b == [t EXCEPT !.barrier = NoBarrier]
         IN /\ b \in Tasks
            /\ b.slot = t.slot /\ b.state = t.state /\ b.barrier.kind = "None"
  BY WithBarrierType, NoBarrierType, TaskFields DEF NoBarrier

\* A request deferred behind a barrier is carried out soundly: a pause or a
\* remove drains the slot, and a resumed task has none.
LEMMA DeferredSound ==
  ASSUME SchedulerInv, NEW g \in Gid, NEW b \in Tasks, b.barrier.kind = "None",
         b.slot = tasks[g].slot, tasks[g].barrier.kind # "CancellationDrain",
         NEW effs, NEW publish,
         Finish(g, CompleteUserControl(tasks[g], b),
                RecoveryTarget(tasks[g].state, DeferredAction(tasks[g])), effs, publish)
  PROVE  Sound(g, CompleteUserControl(tasks[g], b))
  <1> DEFINE t      == tasks[g]
             u      == CompleteUserControl(t, b)
             action == DeferredAction(t)
             target == RecoveryTarget(t.state, action)
  <1>1. t \in Tasks BY TaskOf
  <1>2. target \in RowResults BY RecoveryTargetType
  <1>3. target \in TaskStates /\ target # Conflict /\ u.state = target BY <1>2, FinishTarget, Zenon
  <1>4. /\ u \in Tasks /\ u.slot = b.slot /\ u.barrier.kind # "GenerationPersistence"
        /\ OwnsSlot(b) /\ t.userControl # "Resume" => u.barrier.kind = "CancellationDrain"
    BY <1>1, <1>3, CompleteUserControlShape
  <1>5. action \in {"DeferredPauseCompleted", "DeferredResumeCompleted", "DeferredRemoveCompleted"}
        /\ (t.userControl = "Resume" => action = "DeferredResumeCompleted")
    BY Zenon DEF DeferredAction
  <1> HIDE DEF action, u
  <1>6. target \notin WorkingStates
    BY <1>3, <1>5 DEF RecoveryTarget, PauseRow, Either, Stay, Move, WorkingStates, ParkedStates,
                      Conflict
  <1>7. t.userControl = "Resume" => t.state \in {"Paused", "PausedSlow"}
    BY <1>3, <1>5 DEF RecoveryTarget, Move, Conflict
  <1> HIDE DEF target
  <1>8. t.userControl = "Resume" => t.slot = "None" BY <1>7, Unowned DEF WorkingStates
  <1>9. CASE OwnsSlot(b) BY <1>4, <1>8, <1>9, <1>3, <1>6, DrainSound DEF OwnsSlot, u
  <1>10. CASE ~OwnsSlot(b) BY <1>3, <1>4, <1>6, <1>10, SlotlessSound DEF OwnsSlot, u
  <1> QED BY <1>9, <1>10

\* OptionPatchPersistenceCompleted: a staged patch drains the slot it restarts.
LEMMA OptionPatchPersistenceStep ==
  ASSUME SchedulerInv, NEW e, e.gid \in Gid, NEW patch, NEW ok \in BOOLEAN,
         OptionPatchPersistenceCompleted(e, patch, ok)
  PROVE  SchedulerInv'
  <1> DEFINE g      == e.gid
             t      == tasks[g]
             n      == [t EXCEPT !.barrier = NoBarrier]
             b      == IF ok THEN n ELSE ClearPatch(n)
             action == IF ok THEN "ActiveRestartOptionPatchPersisted"
                       ELSE "ActiveRestartOptionPatchPersistenceFailed"
             target == WorkTarget(t.state, action)
             u      == [b EXCEPT !.state = target]
             d      == BeginCancellation(u, "PausedRestarting", FALSE)
             w      == IF ok THEN d ELSE u
             c      == CompleteUserControl(t, b)
  <1>1. t \in Tasks /\ SlotFits(t) BY TaskOf
  <1>2. n \in Tasks /\ n.slot = t.slot /\ n.state = t.state /\ n.barrier.kind = "None" BY <1>1, AnsweredType
  <1>t. target \in RowResults BY WorkTargetType
  <1>3. /\ t.barrier.kind = "OptionPatchPersistence"
        /\ \/ \E effs, publish :
                Finish(g, c, RecoveryTarget(t.state, DeferredAction(t)), effs, publish)
           \/ \E effs, publish : Finish(g, w, target, effs, publish)
    BY DEF OptionPatchPersistenceCompleted, Awaits
  <1> HIDE DEF n
  <1>4. b \in Tasks /\ b.slot = t.slot /\ b.state = t.state /\ b.barrier.kind = "None"
    BY <1>2, ClearPatchType DEF Alike
  <1> HIDE DEF b, w, target
  <1>5. ASSUME NEW effs, NEW publish,
               Finish(g, c, RecoveryTarget(t.state, DeferredAction(t)), effs, publish)
        PROVE  SchedulerInv'
    <2>1. Sound(g, c) BY <1>3, <1>4, <1>5, DeferredSound
    <2> HIDE DEF c
    <2> QED BY <1>5, <2>1, FinishSound
  <1>6. ASSUME NEW effs, NEW publish, Finish(g, w, target, effs, publish)
        PROVE  SchedulerInv'
    <2>1. target \in TaskStates /\ target # Conflict /\ w.state = target BY <1>6, <1>t, FinishTarget
    <2>2. u \in Tasks BY <1>4, <2>1, WithStateType
    <2>3. u.slot = t.slot /\ u.state = target /\ u.barrier.kind = "None" BY <1>4, TaskFields
    <2> HIDE DEF u
    <2>4. d \in Tasks BY <2>2, BeginCancellationType, Zenon DEF DrainTargets
    <2>5. d.slot = u.slot /\ d.barrier.kind = "CancellationDrain" BY <2>2, BeginCancellationShape, Zenon
    <2> HIDE DEF d
    <2>6. CASE ok
      BY <2>1, <2>6, <2>3, <2>4, <2>5, DrainSound, <1>6, FinishSound DEF target, WorkTarget, Move, Conflict, w, WorkingStates
    <2>7. CASE ~ok
      BY <2>1, <2>7, <1>3, <2>2, <2>3, StaysSound, <1>6, FinishSound DEF target, WorkTarget, Stay, Conflict, w
    <2> QED BY <2>6, <2>7
  <1> QED BY <1>3, <1>5, <1>6

\* OptionPatchApplicationCompleted: a patched task stays where it is, and a
\* restarted one has released its slot.
LEMMA OptionPatchApplicationStep ==
  ASSUME SchedulerInv, NEW e, e.gid \in Gid, NEW patch, NEW ok \in BOOLEAN,
         OptionPatchApplicationCompleted(e, patch, ok)
  PROVE  SchedulerInv'
  <1> DEFINE g      == e.gid
             t      == tasks[g]
             n      == [t EXCEPT !.barrier = NoBarrier]
             k      == ClearPatch(n)
             b      == IF ok /\ t.patchCredential # "none" THEN [k EXCEPT !.credential = "none"]
                       ELSE k
             action == ApplicationAction(t, ok)
             fails  == action = "RestartApplicationFailed"
             row1   == RecoveryTarget(t.state, action)
             row2   == AdmissionTarget(t.state, action)
             target == Either(row1, row2)
             u      == [b EXCEPT !.state = target]
             v      == [u EXCEPT !.userControl = "None"]
             f      == BeginTerminal(v, "error", TRUE)
             w      == IF fails THEN f ELSE u
             c      == CompleteUserControl(t, b)
  <1>1. t \in Tasks /\ SlotFits(t) BY TaskOf
  <1>2. n \in Tasks /\ n.slot = t.slot /\ n.state = t.state /\ n.barrier.kind = "None" BY <1>1, AnsweredType
  <1>t. row1 \in RowResults /\ row2 \in RowResults BY RecoveryTargetType, AdmissionTargetType
  <1>a. action \in {"RestartApplicationSucceeded", "RestartApplicationFailed", "CredentialsSatisfied",
                    "CredentialSatisfactionFailed", "InPlaceOptionPatchApplied",
                    "InPlaceOptionPatchApplicationFailed"}
    BY Zenon DEF ApplicationAction
  <1>3. /\ t.barrier.kind = "OptionPatchApplication"
        /\ \/ \E effs, publish :
                Finish(g, c, RecoveryTarget(t.state, DeferredAction(t)), effs, publish)
           \/ \E effs, publish : Finish(g, w, target, effs, publish)
    BY Zenon DEF OptionPatchApplicationCompleted, Awaits
  <1> HIDE DEF n, action
  <1>4. k \in Tasks /\ k.slot = t.slot /\ k.state = t.state /\ k.barrier.kind = "None"
    BY <1>2, ClearPatchType DEF Alike
  <1> HIDE DEF k
  <1>5. [k EXCEPT !.credential = "none"] \in Tasks BY <1>4, Zenon DEF Tasks, Credentials
  <1>6. Alike([k EXCEPT !.credential = "none"], k) BY <1>4, TaskFields DEF Alike
  <1>7. b \in Tasks /\ b.slot = t.slot /\ b.state = t.state /\ b.barrier.kind = "None"
    BY <1>4, <1>5, <1>6 DEF Alike
  <1> HIDE DEF b, w, row1, row2
  <1>8. target \in RowResults BY <1>t DEF Either
  <1> HIDE DEF target
  <1>9. ASSUME NEW effs, NEW publish,
               Finish(g, c, RecoveryTarget(t.state, DeferredAction(t)), effs, publish)
        PROVE  SchedulerInv'
    <2>1. Sound(g, c) BY <1>3, <1>7, <1>9, DeferredSound
    <2> HIDE DEF c
    <2> QED BY <1>9, <2>1, FinishSound
  <1>10. ASSUME NEW effs, NEW publish, Finish(g, w, target, effs, publish)
         PROVE  SchedulerInv'
    <2>1. target \in TaskStates /\ target # Conflict /\ w.state = target BY <1>8, <1>10, FinishTarget
    <2>2. u \in Tasks BY <1>7, <2>1, WithStateType
    <2>3. u.slot = t.slot /\ u.state = target /\ u.barrier.kind = "None" BY <1>7, TaskFields
    <2> HIDE DEF u
    <2>4. v \in Tasks BY <2>2, Zenon DEF Tasks, UserControls
    <2>5. Alike(v, u) BY <2>2, TaskFields DEF Alike
    <2> HIDE DEF v
    <2>6. "error" \in Aria2Terminal BY DEF Aria2Terminal
    <2>7. f \in Tasks BY <2>4, <2>6, BeginTerminalType, Zenon
    <2>8. f.slot = v.slot /\ f.barrier.kind = "TerminalPersistence" BY <2>4, BeginTerminalShape, Zenon
    <2> HIDE DEF f
    <2>9. \/ target = t.state /\ ~fails
          \/ t.state \in {"PausedRestarting", "Waiting"} /\ target \in {"Waiting", "Error"}
      BY <1>a, <2>1 DEF target, row1, row2, Either, RecoveryTarget, AdmissionTarget, Stay, Move,
                        Conflict
    <2>10. Sound(g, w)
      <3>1. CASE target = t.state /\ ~fails BY <1>3, <2>2, <2>3, <3>1, StaysSound DEF w
      <3>2. CASE t.state \in {"PausedRestarting", "Waiting"} /\ target \in {"Waiting", "Error"}
        BY <1>3, <3>2, Unowned, <2>2, <2>3, <2>5, <2>7, <2>8, <2>1, SlotlessSound DEF WorkingStates, w, Alike
      <3> QED BY <2>9, <3>1, <3>2
    <2> QED BY <1>10, <2>10, FinishSound
  <1> QED BY <1>3, <1>9, <1>10

\* HostKeyResolutionCompleted concerns a task without a slot.
LEMMA HostKeyResolutionStep ==
  ASSUME SchedulerInv, NEW e, e.gid \in Gid, NEW resolution, NEW ok \in BOOLEAN,
         HostKeyResolutionCompleted(e, resolution, ok)
  PROVE  SchedulerInv'
  <1> DEFINE g      == e.gid
             t      == tasks[g]
             k      == [t EXCEPT !.barrier = NoBarrier, !.patch = 0, !.patchMode = "None"]
             b      == IF ok THEN [k EXCEPT !.challenge = 0] ELSE k
             action == IF ~ok THEN "HostKeyResolutionFailed"
                       ELSE IF t.desiredPaused THEN "HostKeyResolutionSucceededPreservingPause"
                       ELSE "HostKeyResolutionSucceeded"
             target == RecoveryTarget(t.state, action)
             u      == [b EXCEPT !.state = target]
             c      == CompleteUserControl(t, b)
  <1>1. t \in Tasks /\ SlotFits(t) BY TaskOf
  <1>t. target \in RowResults BY RecoveryTargetType
  <1>2. /\ t.barrier.kind = "HostKeyResolution"
        /\ \/ \E effs, publish :
                Finish(g, c, RecoveryTarget(t.state, DeferredAction(t)), effs, publish)
           \/ \E effs, publish : Finish(g, u, target, effs, publish)
    BY Zenon DEF HostKeyResolutionCompleted, Awaits
  <1>3. "None" \in PatchModes /\ 0 \in Nat BY DEF PatchModes
  <1>4. k \in Tasks BY <1>1, <1>3, ZeroPatch, NoBarrierType, Zenon DEF Tasks
  <1>5. k.slot = t.slot /\ k.state = t.state /\ k.barrier.kind = "None" BY <1>1, TaskFields DEF NoBarrier
  <1> HIDE DEF k
  <1>6. [k EXCEPT !.challenge = 0] \in Tasks BY <1>3, <1>4, Zenon DEF Tasks
  <1>7. Alike([k EXCEPT !.challenge = 0], k) BY <1>4, TaskFields DEF Alike
  <1>8. b \in Tasks /\ b.slot = t.slot /\ b.state = t.state /\ b.barrier.kind = "None"
    BY <1>4, <1>5, <1>6, <1>7 DEF Alike
  <1> HIDE DEF b, u, target
  <1>9. ASSUME NEW effs, NEW publish,
               Finish(g, c, RecoveryTarget(t.state, DeferredAction(t)), effs, publish)
        PROVE  SchedulerInv'
    <2>1. Sound(g, c) BY <1>2, <1>8, <1>9, DeferredSound
    <2> HIDE DEF c
    <2> QED BY <1>9, <2>1, FinishSound
  <1>10. ASSUME NEW effs, NEW publish, Finish(g, u, target, effs, publish)
         PROVE  SchedulerInv'
    <2>1. target \in TaskStates /\ target # Conflict /\ u.state = target BY <1>10, <1>t, FinishTarget
    <2>2. t.state = "PausedHostKey" /\ target \in {"PausedHostKey", "Waiting", "Paused"}
      BY <2>1 DEF target, RecoveryTarget, Stay, Move, Conflict
    <2>3. u \in Tasks BY <1>8, <2>1, WithStateType DEF u
    <2>4. u.slot = t.slot /\ u.barrier.kind = "None" BY <1>8, TaskFields DEF u
    <2>5. t.slot = "None" BY <1>2, <2>2, Unowned DEF WorkingStates
    <2>6. Sound(g, u) BY <2>1, <2>2, <2>3, <2>4, <2>5, SlotlessSound DEF WorkingStates
    <2> QED BY <1>10, <2>6, FinishSound
  <1> QED BY <1>2, <1>9, <1>10

\* TerminalPersisted concerns a task that has released its slot.
LEMMA TerminalPersistedStep ==
  ASSUME SchedulerInv, NEW e, e.gid \in Gid, TerminalPersisted(e, tasks[e.gid].barrier.status)
  PROVE  SchedulerInv'
  <1> DEFINE g      == e.gid
             t      == tasks[g]
             s      == t.barrier.status
             m      == Mark(t, "TerminalPersisted")
             target == OutcomeTarget(t.state, "TerminalPersistenceSucceeded")
             u      == [m EXCEPT !.barrier = NoBarrier, !.state = target,
                                 !.stoppedStatus = s, !.terminalPersisted = TRUE]
  <1>1. t \in Tasks /\ s \in Aria2Terminal \cup {"None"} BY TaskOf DEF Tasks, Barriers
  <1>2. m \in Tasks /\ Alike(m, t) BY <1>1, MarkType DEF SeenKinds
  <1>t. target \in RowResults BY OutcomeTargetType
  <1>3. /\ t.barrier.kind = "TerminalPersistence"
        /\ \E effs, publish : Finish(g, u, target, effs, publish)
    BY DEF TerminalPersisted
  <1> HIDE DEF m, u, target
  <1>4. target \in TaskStates /\ target # Conflict /\ u.state = target BY <1>3, <1>t, FinishTarget
  <1>5. t.state \in TerminalPending /\ target = "StoppedResult" BY <1>4 DEF target, OutcomeTarget, Move
  <1>6. t.slot = "None" BY <1>3, <1>5, Unowned DEF WorkingStates, TerminalPending
  <1> HIDE DEF s
  <1>7. u \in Tasks BY <1>1, <1>2, <1>4, NoBarrierType, Zenon DEF Tasks, u
  <1>8. u.slot = t.slot /\ u.barrier.kind = "None" BY <1>2, TaskFields DEF u, Alike, NoBarrier
  <1>9. Sound(g, u) BY <1>4, <1>5, <1>6, <1>7, <1>8, SlotlessSound DEF WorkingStates
  <1> QED BY <1>3, <1>9, FinishSound

\* A deletion that failed only ends its barrier.
LEMMA DeletionFailedStep ==
  ASSUME SchedulerInv, NEW e, e.gid \in Gid, NEW deletion, StoppedResultDeletionFailed(e, deletion)
  PROVE  SchedulerInv'
  <1> DEFINE u == [tasks[e.gid] EXCEPT !.barrier = NoBarrier]
  <1>1. /\ tasks[e.gid].barrier.kind = "StoppedResultDeletion"
        /\ \E target, effs, publish : Finish(e.gid, u, target, effs, publish)
    BY DEF StoppedResultDeletionFailed, Awaits
  <1>2. NoBarrier.kind = "None" BY DEF NoBarrier
  <1>3. Sound(e.gid, u) BY <1>1, <1>2, NoBarrierType, BarrierSound
  <1> HIDE DEF u
  <1> QED BY <1>1, <1>3, FinishSound

\* The place of an unknown GID.
LEMMA AbsentTaskType ==
  /\ AbsentTask \in Tasks
  /\ AbsentTask.slot = "None"
  /\ AbsentTask.state = "Absent"
  /\ AbsentTask.barrier.kind = "None"
  <1> DEFINE n == NewTask(0, FALSE, "none", "none")
  <1>1. n \in Tasks BY NewTaskType DEF Credentials, NoSpaceValues
  <1>2. n.slot = "None" /\ n.barrier.kind = "None" BY DEF NewTask, NoBarrier
  <1> HIDE DEF n
  <1>3. AbsentTask \in Tasks BY <1>1, Zenon DEF AbsentTask, Tasks, n
  <1>4. AbsentTask.slot = "None" /\ AbsentTask.barrier.kind = "None" /\ AbsentTask.state = "Absent"
    BY <1>1, <1>2, TaskFields DEF AbsentTask, n
  <1> QED BY <1>3, <1>4

\* A deleted result leaves the place of a task that was never added.
LEMMA DeletedStep ==
  ASSUME SchedulerInv, NEW e, e.gid \in Gid, NEW deletion, StoppedResultDeleted(e, deletion)
  PROVE  SchedulerInv'
  <1> DEFINE g == e.gid
             u == AbsentTask
  <1>1. /\ MembershipExact(g, QueueClass(tasks[g]))
        /\ tasks' = [tasks EXCEPT ![g] = u]
        /\ queues' = QueuesAfter(g, QueueClass(tasks[g]), "None")
        /\ published' = [published EXCEPT ![g] = NoSnapshot]
        /\ UNCHANGED <<highestTaskId, ids, policy>>
    BY DEF StoppedResultDeleted
  <1>4. u \in Tasks BY AbsentTaskType
  <1>5. u.slot = "None" /\ u.barrier.kind = "None" /\ u.state = "Absent" BY AbsentTaskType
  <1> HIDE DEF u
  <1>6. queues' \in [QueueClasses -> Seq(Gid)] BY <1>1, QueuesAfterType DEF SchedulerInv
  <1>7. NoSnapshot \in Snapshots BY ZeroGeneration DEF NoSnapshot, Snapshots
  <1>8. StateOK' BY <1>1, <1>4, <1>6, <1>7 DEF SchedulerInv, StateOK
  <1>9. Sound(g, u) BY <1>4, <1>5, SlotlessSound DEF WorkingStates
  <1>10. tasks'[g] = u /\ \A h \in Gid \ {g} : tasks'[h] = tasks[h] BY <1>1 DEF SchedulerInv, StateOK
  <1>11. SlotBound' BY <1>9, <1>10, OwnersBound
  <1>12. (\A h \in Gid : SlotFits(tasks[h]))' BY <1>9, <1>10 DEF Sound, SchedulerInv, SlotFits, OwnsSlot
  <1> QED BY <1>8, <1>11, <1>12 DEF SchedulerInv

-----------------------------------------------------------------------------
(* Worker results.                                                         *)

\* A worker that goes on working keeps its slot.
LEMMA WorksOnStep ==
  ASSUME SchedulerInv, NEW g \in Gid, NEW kind \in SeenKinds, NEW target \in RowResults,
         target \in WorkingStates => tasks[g].state \in WorkingStates,
         target = Conflict \/ target \in WorkingStates,
         tasks[g].barrier.kind # "GenerationPersistence", NEW effs, NEW publish,
         Finish(g, Mark([tasks[g] EXCEPT !.state = target], kind), target, effs, publish)
  PROVE  SchedulerInv'
  <1> DEFINE t == tasks[g]
             s == [t EXCEPT !.state = target]
             u == Mark(s, kind)
  <1>1. t \in Tasks /\ SlotFits(t) BY TaskOf
  <1> HIDE DEF u
  <1>2. target \in TaskStates /\ target # Conflict /\ u.state = target BY FinishTarget DEF u
  <1>3. s \in Tasks BY <1>1, <1>2, WithStateType
  <1>4. s.slot = t.slot /\ s.barrier = t.barrier BY <1>1, TaskFields
  <1> HIDE DEF s
  <1>5. u \in Tasks /\ u.slot = t.slot /\ u.barrier = t.barrier BY <1>3, <1>4, MarkType DEF u, Alike
  <1>6. Sound(g, u) BY <1>1, <1>2, <1>5 DEF Sound, SlotFits, OwnsSlot
  <1> QED BY <1>6, FinishSound DEF u, s

\* AllocationSucceeded: the task becomes active.
LEMMA AllocationSucceededStep ==
  ASSUME SchedulerInv, NEW e, e.gid \in Gid, AllocationSucceeded(e)
  PROVE  SchedulerInv'
  <1> DEFINE target == WorkTarget(tasks[e.gid].state, "AllocationSucceeded")
  <1>1. /\ tasks[e.gid].barrier.kind # "GenerationPersistence"
        /\ Finish(e.gid, Mark([tasks[e.gid] EXCEPT !.state = target], "AllocationSucceeded"),
                  target, << >>, TRUE)
    BY DEF AllocationSucceeded, WorkerMoves, Fresh, BarrierAccepts
  <1>2. /\ target \in RowResults
        /\ target \in WorkingStates => tasks[e.gid].state \in WorkingStates
        /\ target = Conflict \/ target \in WorkingStates
    BY WorkTargetType DEF WorkTarget, Move, WorkingStates, Conflict
  <1>3. "AllocationSucceeded" \in SeenKinds BY DEF SeenKinds
  <1> HIDE DEF target
  <1> QED BY <1>1, <1>2, <1>3, WorksOnStep

\* data_complete: the task is verified or seeded under the same slot.
LEMMA DataCompleteStep ==
  ASSUME SchedulerInv, NEW e, e.gid \in Gid, NEW seed \in BOOLEAN, DataComplete(e, seed)
  PROVE  SchedulerInv'
  <1> DEFINE kind   == IF seed THEN "BitTorrentPayloadComplete" ELSE "DataComplete"
             action == IF seed THEN "BitTorrentPayloadComplete" ELSE "AllRequiredDataReceived"
             target == WorkTarget(tasks[e.gid].state, action)
  <1>1. /\ tasks[e.gid].barrier.kind # "GenerationPersistence"
        /\ Finish(e.gid, Mark([tasks[e.gid] EXCEPT !.state = target], kind), target, << >>, TRUE)
    BY DEF DataComplete, WorkerMoves, Fresh, BarrierAccepts
  <1>2. /\ target \in RowResults
        /\ target \in WorkingStates => tasks[e.gid].state \in WorkingStates
        /\ target = Conflict \/ target \in WorkingStates
    BY WorkTargetType DEF WorkTarget, Move, WorkingStates, Conflict
  <1>3. kind \in SeenKinds BY DEF SeenKinds
  <1> HIDE DEF target, kind
  <1> QED BY <1>1, <1>2, <1>3, WorksOnStep

\* A worker that waits for a retry keeps the slot it had or releases it.
LEMMA WaitForRetryStep ==
  ASSUME SchedulerInv, NEW e, e.gid \in Gid, NEW kind \in SeenKinds, NEW target,
         target = Conflict \/ (target = "RetryWait" /\ tasks[e.gid].state \in WorkingStates),
         kind # "GenerationPersisted",
         WaitForRetry(e, kind, target)
  PROVE  SchedulerInv'
  <1> DEFINE g == e.gid
             t == tasks[g]
             m == Mark(t, kind)
             s == IF policy.holdsSlot THEN "RetryRetained" ELSE "None"
             u == [m EXCEPT !.state = target, !.retryTimer = ids.retry, !.retryReady = FALSE,
                            !.slot = s]
  <1>1. t \in Tasks /\ SlotFits(t) BY TaskOf
  <1>2. m \in Tasks /\ Alike(m, t) BY <1>1, MarkType
  <1>3. /\ CanIssue("retry") /\ t.barrier.kind # "GenerationPersistence"
        /\ \E effs, publish : FinishIssuing(g, u, target, effs, publish, Issue("retry"))
    BY DEF WaitForRetry, Fresh, BarrierAccepts
  <1>4. Issue("retry") \in [IdKinds -> 1 .. (MaxId + 1)] /\ ids.retry \in Tokens
    BY <1>3, IssueType, IdsType DEF SchedulerInv, IdKinds
  <1>5. target \in RowResults /\ s \in Slots BY DEF RowResults, TaskStates, LiveStates, Slots
  <1> HIDE DEF m, s, u
  <1>6. target \in TaskStates /\ target # Conflict /\ u.state = target BY <1>3, <1>5, FinishIssuingTarget
  <1>7. target = "RetryWait" /\ OwnsSlot(t) BY <1>1, <1>6 DEF SlotFits
  <1>8. u \in Tasks BY <1>2, <1>4, <1>5, <1>6, Zenon DEF Tasks, u
  <1>9. u.slot = s /\ u.barrier = t.barrier BY <1>2, TaskFields DEF Alike, u
  <1>10. Sound(g, u) BY <1>3, <1>6, <1>7, <1>8, <1>9 DEF Sound, SlotFits, OwnsSlot, WorkingStates, s
  <1> QED BY <1>3, <1>4, <1>10, FinishIssuingSound

\* AllocationRetryable and ActiveRetryIdle come from a task that works.
LEMMA RetryStep ==
  ASSUME SchedulerInv, NEW e, e.gid \in Gid, AllocationRetryable(e) \/ ActiveRetryIdle(e)
  PROVE  SchedulerInv'
  <1> DEFINE a == WorkTarget(tasks[e.gid].state, "AllocationRetryableFailure")
             b == WorkTarget(tasks[e.gid].state, "LeaseRetryableWithoutRunnableWork")
  <1>1. a = Conflict \/ (a = "RetryWait" /\ tasks[e.gid].state \in WorkingStates)
    BY DEF WorkTarget, Move, WorkingStates
  <1>2. b = Conflict \/ (b = "RetryWait" /\ tasks[e.gid].state \in WorkingStates)
    BY DEF WorkTarget, Move, WorkingStates
  <1>3. "AllocationRetryable" \in SeenKinds /\ "ActiveRetryIdle" \in SeenKinds BY DEF SeenKinds
  <1>4. WaitForRetry(e, "AllocationRetryable", a) \/ WaitForRetry(e, "ActiveRetryIdle", b)
    BY DEF AllocationRetryable, ActiveRetryIdle
  <1> HIDE DEF a, b
  <1>5. CASE WaitForRetry(e, "AllocationRetryable", a) BY <1>1, <1>3, <1>5, WaitForRetryStep
  <1>6. CASE WaitForRetry(e, "ActiveRetryIdle", b) BY <1>2, <1>3, <1>6, WaitForRetryStep
  <1> QED BY <1>4, <1>5, <1>6

\* A host-key challenge parks its task without the slot.
LEMMA HostKeyChallengeStep ==
  ASSUME SchedulerInv, NEW e, e.gid \in Gid, NEW active \in BOOLEAN, HostKeyChallenge(e, active)
  PROVE  SchedulerInv'
  <1> DEFINE g      == e.gid
             t      == tasks[g]
             kind   == IF active THEN "ActiveHostKeyChallenge" ELSE "AllocationHostKeyChallenge"
             action == IF active THEN "ActiveHostKeyChallengeRequired" ELSE "HostKeyChallengeRequired"
             target == WorkTarget(t.state, action)
             r      == ReleaseSlot(t)
             m      == Mark(r, kind)
             n      == t.generation + 1
             u      == [m EXCEPT !.state = target, !.challenge = n]
  <1>1. t \in Tasks BY TaskOf
  <1>2. /\ t.barrier.kind # "GenerationPersistence"
        /\ \E effs : Commit(g, u, target, effs, TRUE, TRUE, ids, tasks)
    BY DEF HostKeyChallenge, Fresh, BarrierAccepts
  <1>3. target \in RowResults /\ (target = Conflict \/ target = "PausedHostKey")
    BY WorkTargetType DEF WorkTarget, Move
  <1>4. kind \in SeenKinds BY DEF SeenKinds
  <1>5. n \in Nat BY <1>1, BoundsAssumption DEF Tasks, Generations
  <1>6. r \in Tasks /\ r.slot = "None" /\ r.barrier = t.barrier BY <1>1, ReleaseSlotType, ReleaseSlotShape
  <1> HIDE DEF target, kind, r, n, u
  <1>7. m \in Tasks /\ m.slot = "None" /\ m.barrier = t.barrier BY <1>4, <1>6, MarkType DEF Alike
  <1> HIDE DEF m
  <1>8. target \in TaskStates /\ target # Conflict /\ u.state = target BY <1>2, <1>3, CommitTarget
  <1>9. u \in Tasks BY <1>5, <1>7, <1>8, Zenon DEF Tasks, u
  <1>10. u.slot = "None" /\ u.barrier = t.barrier BY <1>7, TaskFields DEF u
  <1>11. Sound(g, u) BY <1>2, <1>3, <1>8, <1>9, <1>10, SlotlessSound DEF WorkingStates
  <1>12. /\ tasks \in [Gid -> Tasks] /\ \A h \in Gid : Alike(tasks[h], tasks[h])
         /\ ids \in [IdKinds -> 1 .. (MaxId + 1)]
    BY DEF SchedulerInv, StateOK, Alike
  <1> QED BY <1>2, <1>11, <1>12, CommitSound

\* A worker that ends for good releases its slot.
LEMMA WorkerStopsStep ==
  ASSUME SchedulerInv, NEW e, e.gid \in Gid, NEW kind \in SeenKinds, NEW target \in RowResults,
         target \notin WorkingStates, NEW status \in Aria2Terminal,
         WorkerStops(e, kind, target, status)
  PROVE  SchedulerInv'
  <1> DEFINE g == e.gid
             t == tasks[g]
             s == [t EXCEPT !.state = target]
             r == ReleaseSlot(s)
             f == status = "error"
             b == BeginTerminal(r, status, f)
             u == Mark(b, kind)
  <1>1. t \in Tasks BY TaskOf
  <1>2. \E effs, publish : Finish(g, u, target, effs, publish) BY DEF WorkerStops, WorkerMoves
  <1> HIDE DEF u
  <1>3. target \in TaskStates /\ u.state = target BY <1>2, FinishTarget
  <1>4. s \in Tasks BY <1>1, <1>3, WithStateType
  <1> HIDE DEF s
  <1>5. r \in Tasks /\ r.slot = "None" BY <1>4, ReleaseSlotType, ReleaseSlotShape
  <1>6. f \in BOOLEAN BY Zenon
  <1> HIDE DEF r, f
  <1>7. b \in Tasks /\ b.slot = "None" /\ b.barrier.kind = "TerminalPersistence"
    BY <1>5, <1>6, BeginTerminalType, BeginTerminalShape
  <1> HIDE DEF b
  <1>8. u \in Tasks /\ u.slot = "None" /\ u.barrier.kind = "TerminalPersistence"
    BY <1>7, MarkType DEF u, Alike
  <1>9. Sound(g, u) BY <1>3, <1>8, SlotlessSound
  <1> QED BY <1>2, <1>9, FinishSound

\* The results that end a task: failures, a verified file, the end of seeding.
LEMMA FinalResultStep ==
  ASSUME SchedulerInv, NEW e, e.gid \in Gid,
         \/ AllocationFailed(e) \/ VerificationSucceeded(e) \/ VerificationFailed(e)
         \/ SeedingComplete(e) \/ SeedingFailed(e)
  PROVE  SchedulerInv'
  <1> DEFINE s == tasks[e.gid].state
  <1>1. /\ "complete" \in Aria2Terminal /\ "error" \in Aria2Terminal
        /\ "AllocationFailed" \in SeenKinds /\ "VerificationSucceeded" \in SeenKinds
        /\ "VerificationFailed" \in SeenKinds /\ "SeedingComplete" \in SeenKinds
        /\ "SeedingFailed" \in SeenKinds
    BY DEF Aria2Terminal, SeenKinds
  <1>2. /\ WorkTarget(s, "AllocationTerminalFailure") \in RowResults
        /\ WorkTarget(s, "AllocationTerminalFailure") \notin WorkingStates
    BY WorkTargetType DEF WorkTarget, Move, WorkingStates, Conflict
  <1>3. ASSUME NEW a \in {"VerificationSucceeded", "VerificationTerminalFailure", "SeedingStopped",
                          "BitTorrentFailure"}
        PROVE  OutcomeTarget(s, a) \in RowResults /\ OutcomeTarget(s, a) \notin WorkingStates
    BY OutcomeTargetType DEF OutcomeTarget, Move, WorkingStates, Conflict
  <1>4. CASE AllocationFailed(e) BY <1>1, <1>2, <1>4, WorkerStopsStep DEF AllocationFailed
  <1>5. CASE VerificationSucceeded(e) BY <1>1, <1>3, <1>5, WorkerStopsStep DEF VerificationSucceeded
  <1>6. CASE VerificationFailed(e) BY <1>1, <1>3, <1>6, WorkerStopsStep DEF VerificationFailed
  <1>7. CASE SeedingComplete(e) BY <1>1, <1>3, <1>7, WorkerStopsStep DEF SeedingComplete
  <1>8. CASE SeedingFailed(e) BY <1>1, <1>3, <1>8, WorkerStopsStep DEF SeedingFailed
  <1> QED BY <1>4, <1>5, <1>6, <1>7, <1>8

\* VerificationRecoverable: back to the waiting queue without the slot.
LEMMA VerificationRecoverableStep ==
  ASSUME SchedulerInv, NEW e, e.gid \in Gid, VerificationRecoverable(e)
  PROVE  SchedulerInv'
  <1> DEFINE g      == e.gid
             t      == tasks[g]
             kind   == "VerificationRecoverable"
             target == OutcomeTarget(t.state, "VerificationRecoverableFailure")
             s      == [t EXCEPT !.state = target]
             r      == ReleaseSlot(s)
             u      == Mark(r, kind)
  <1>1. t \in Tasks BY TaskOf
  <1>2. /\ t.barrier.kind # "GenerationPersistence"
        /\ \E effs, publish : Finish(g, u, target, effs, publish)
    BY DEF VerificationRecoverable, WorkerMoves, Fresh, BarrierAccepts
  <1>3. target \in RowResults /\ target \notin WorkingStates /\ kind \in SeenKinds
    BY OutcomeTargetType DEF OutcomeTarget, Move, WorkingStates, Conflict, SeenKinds
  <1> HIDE DEF u, target, kind
  <1>4. target \in TaskStates /\ u.state = target BY <1>2, <1>3, FinishTarget
  <1>5. s \in Tasks BY <1>1, <1>4, WithStateType
  <1>6. s.barrier = t.barrier BY <1>1, TaskFields
  <1> HIDE DEF s
  <1>7. r \in Tasks /\ r.slot = "None" /\ r.barrier = t.barrier
    BY <1>5, <1>6, ReleaseSlotType, ReleaseSlotShape
  <1> HIDE DEF r
  <1>8. u \in Tasks /\ u.slot = "None" /\ u.barrier = t.barrier BY <1>3, <1>7, MarkType DEF u, Alike
  <1>9. Sound(g, u) BY <1>2, <1>3, <1>4, <1>8, SlotlessSound
  <1> QED BY <1>2, <1>9, FinishSound

\* A changed representation is fetched again under the slot the task owns.
LEMMA RepresentationRestartStep ==
  ASSUME SchedulerInv, NEW e, e.gid \in Gid, ActiveRepresentationRestart(e)
  PROVE  SchedulerInv'
  <1> DEFINE g == e.gid
             a == Admit(tasks[g])
             u == Mark(a, "ActiveRepresentationRestart")
  <1>1. CanAdmit(tasks[g]) /\ \E target, effs, publish : Finish(g, u, target, effs, publish)
    BY DEF ActiveRepresentationRestart
  <1>2. Sound(g, a) BY <1>1, TaskOf, AdmitSound
  <1>3. "ActiveRepresentationRestart" \in SeenKinds BY DEF SeenKinds
  <1> HIDE DEF a
  <1>4. u \in Tasks /\ Alike(u, a) BY <1>2, <1>3, MarkType DEF Sound
  <1> HIDE DEF u
  <1>5. Sound(g, u) BY <1>2, <1>4, FitsAlike DEF Sound, Alike
  <1> QED BY <1>1, <1>5, FinishSound

\* A result that stops the work starts a drain under the same slot.
LEMMA WorkerDrainsStep ==
  ASSUME SchedulerInv, NEW g \in Gid, NEW kind \in SeenKinds, NEW v \in Tasks,
         v.slot = tasks[g].slot, NEW target \in DrainTargets, target \notin WorkingStates,
         target \in TaskStates, v.state = target, NEW effs, NEW publish,
         Finish(g, Mark(BeginCancellation(v, target, FALSE), kind), target, effs, publish)
  PROVE  SchedulerInv'
  <1> DEFINE b == BeginCancellation(v, target, FALSE)
             u == Mark(b, kind)
  <1>1. b \in Tasks BY BeginCancellationType, Zenon
  <1>2. b.slot = v.slot /\ b.state = v.state /\ b.barrier.kind = "CancellationDrain"
    BY TaskFields DEF BeginCancellation, NoBarrier
  <1> HIDE DEF b
  <1>3. u \in Tasks /\ Alike(u, b) BY <1>1, MarkType
  <1> HIDE DEF u
  <1>4. Sound(g, u) BY <1>2, <1>3, DrainSound DEF Alike
  <1> QED BY <1>4, FinishSound DEF u, b

\* NoSpace drains the transfer that ran out of disk.
LEMMA NoSpaceStep ==
  ASSUME SchedulerInv, NEW e, e.gid \in Gid, NEW condition \in NoSpaceValues, NoSpace(e, condition)
  PROVE  SchedulerInv'
  <1> DEFINE g      == e.gid
             t      == tasks[g]
             target == WorkTarget(t.state, "MidTransferNoSpace")
             s      == [t EXCEPT !.state = target]
             v      == [s EXCEPT !.noSpace = condition]
             u      == Mark(BeginCancellation(v, target, FALSE), "NoSpace")
  <1>1. t \in Tasks BY TaskOf
  <1>2. \E effs, publish : Finish(g, u, target, effs, publish) BY DEF NoSpace, WorkerDrains
  <1>3. target \in RowResults /\ (target = Conflict \/ target = "Waiting")
    BY WorkTargetType DEF WorkTarget, Move
  <1> HIDE DEF target, u
  <1>4. target \in TaskStates /\ target # Conflict BY <1>2, <1>3, FinishTarget
  <1>5. s \in Tasks BY <1>1, <1>4, WithStateType
  <1>6. s.slot = t.slot /\ s.state = target BY <1>1, TaskFields
  <1> HIDE DEF s
  <1>7. v \in Tasks BY <1>5, Zenon DEF Tasks
  <1>8. v.slot = t.slot /\ v.state = target BY <1>5, <1>6, TaskFields
  <1> HIDE DEF v
  <1>9. "NoSpace" \in SeenKinds /\ target \in DrainTargets /\ target \notin WorkingStates
    BY <1>3, <1>4 DEF SeenKinds, DrainTargets, WorkingStates
  <1> QED BY <1>2, <1>4, <1>7, <1>8, <1>9, WorkerDrainsStep DEF u

\* TerminalFailure drains the transfer that failed.
LEMMA TerminalFailureStep ==
  ASSUME SchedulerInv, NEW e, e.gid \in Gid, TerminalFailure(e)
  PROVE  SchedulerInv'
  <1> DEFINE g      == e.gid
             t      == tasks[g]
             target == WorkTarget(t.state, "TerminalWorkFailure")
             s      == [t EXCEPT !.state = target]
             v      == [s EXCEPT !.error = TRUE]
             u      == Mark(BeginCancellation(v, target, FALSE), "TerminalFailure")
  <1>1. t \in Tasks BY TaskOf
  <1>2. \E effs, publish : Finish(g, u, target, effs, publish) BY DEF TerminalFailure, WorkerDrains
  <1>3. target \in RowResults /\ (target = Conflict \/ target = "Error")
    BY WorkTargetType DEF WorkTarget, Move
  <1> HIDE DEF target, u
  <1>4. target \in TaskStates /\ target # Conflict BY <1>2, <1>3, FinishTarget
  <1>5. s \in Tasks BY <1>1, <1>4, WithStateType
  <1>6. s.slot = t.slot /\ s.state = target BY <1>1, TaskFields
  <1> HIDE DEF s
  <1>7. v \in Tasks BY <1>5, Zenon DEF Tasks
  <1>8. v.slot = t.slot /\ v.state = target BY <1>5, <1>6, TaskFields
  <1> HIDE DEF v
  <1>9. "TerminalFailure" \in SeenKinds /\ target \in DrainTargets /\ target \notin WorkingStates
    BY <1>3, <1>4 DEF SeenKinds, DrainTargets, WorkingStates
  <1> QED BY <1>2, <1>4, <1>7, <1>8, <1>9, WorkerDrainsStep DEF u

\* SlowPaused drains the transfer that was too slow.
LEMMA SlowPausedStep ==
  ASSUME SchedulerInv, NEW e, e.gid \in Gid, SlowPaused(e)
  PROVE  SchedulerInv'
  <1> DEFINE g      == e.gid
             t      == tasks[g]
             target == WorkTarget(t.state, "SlowSlotPause")
             s      == [t EXCEPT !.state = target]
             v      == [s EXCEPT !.desiredPaused = TRUE]
             u      == Mark(BeginCancellation(v, target, FALSE), "SlowPaused")
  <1>1. t \in Tasks BY TaskOf
  <1>2. \E effs, publish : Finish(g, u, target, effs, publish) BY DEF SlowPaused, WorkerDrains
  <1>3. target \in RowResults /\ (target = Conflict \/ target = "PausedSlow")
    BY WorkTargetType DEF WorkTarget, Move
  <1> HIDE DEF target, u
  <1>4. target \in TaskStates /\ target # Conflict BY <1>2, <1>3, FinishTarget
  <1>5. s \in Tasks BY <1>1, <1>4, WithStateType
  <1>6. s.slot = t.slot /\ s.state = target BY <1>1, TaskFields
  <1> HIDE DEF s
  <1>7. v \in Tasks BY <1>5, Zenon DEF Tasks
  <1>8. v.slot = t.slot /\ v.state = target BY <1>5, <1>6, TaskFields
  <1> HIDE DEF v
  <1>9. "SlowPaused" \in SeenKinds /\ target \in DrainTargets /\ target \notin WorkingStates
    BY <1>3, <1>4 DEF SeenKinds, DrainTargets, WorkingStates
  <1> QED BY <1>2, <1>4, <1>7, <1>8, <1>9, WorkerDrainsStep DEF u

\* SlowDemoted drains it too and remembers its place in the active queue.
LEMMA SlowDemotedStep ==
  ASSUME SchedulerInv, NEW e, e.gid \in Gid, SlowDemoted(e)
  PROVE  SchedulerInv'
  <1> DEFINE g      == e.gid
             t      == tasks[g]
             target == WorkTarget(t.state, "SlowSlotDemote")
             s      == [t EXCEPT !.state = target]
             n      == s.slowCount + 1
             k      == Position(g, "Active") - 1
             v      == [s EXCEPT !.pendingSlow = TRUE, !.slowCount = n, !.slowSlot = TRUE,
                                 !.slowPos = k]
             u      == Mark(BeginCancellation(v, target, FALSE), "SlowDemoted")
  <1>1. t \in Tasks BY TaskOf
  <1>2. /\ InQueue(g, "Active")
        /\ \E effs, publish : Finish(g, u, target, effs, publish)
    BY <1>1, TaskFields DEF SlowDemoted, WorkerDrains, Tasks
  <1>3. target \in RowResults /\ (target = Conflict \/ target = "WaitingSlow")
    BY WorkTargetType DEF WorkTarget, Move
  <1>4. k \in Nat BY <1>2, PositionType DEF SchedulerInv, QueueClasses, StateOK
  <1> HIDE DEF target, u, k
  <1>5. target \in TaskStates /\ target # Conflict BY <1>2, <1>3, FinishTarget
  <1>6. s \in Tasks BY <1>1, <1>5, WithStateType
  <1>7. s.slot = t.slot /\ s.state = target BY <1>1, TaskFields
  <1> HIDE DEF s
  <1>8. n \in Nat BY <1>6 DEF Tasks
  <1> HIDE DEF n
  <1>9. v \in Tasks BY <1>4, <1>6, <1>8, Zenon DEF Tasks
  <1>10. v.slot = t.slot /\ v.state = target BY <1>6, <1>7, TaskFields
  <1> HIDE DEF v
  <1>11. "SlowDemoted" \in SeenKinds /\ target \in DrainTargets /\ target \notin WorkingStates
    BY <1>3, <1>5 DEF SeenKinds, DrainTargets, WorkingStates
  <1> QED BY <1>2, <1>5, <1>9, <1>10, <1>11, WorkerDrainsStep DEF u

-----------------------------------------------------------------------------
(* Drains, timers and probes.                                              *)

\* What a drained task becomes: it has no slot and starts no generation.
LEMMA DrainedShape ==
  ASSUME SchedulerInv, NEW t \in Tasks
  PROVE  /\ Drained(t) \in Tasks
         /\ Drained(t).slot = "None"
         /\ Drained(t).state = t.state
         /\ Drained(t).barrier.kind # "GenerationPersistence"
  <1> DEFINE q  == ReleaseSlot(t)
             r  == [q EXCEPT !.barrier = NoBarrier]
             a  == AckBarrier("OptionPatchApplication", t.generation, t.patch)
             ra == [r EXCEPT !.barrier = a]
             n  == ids.slow
             rs == [r EXCEPT !.pendingSlow = FALSE, !.slowReadmission = n]
             re == BeginTerminal(r, "error", TRUE)
             rr == BeginTerminal(r, "removed", FALSE)
  <1>1. q \in Tasks /\ q.slot = "None" /\ q.state = t.state BY ReleaseSlotType, ReleaseSlotShape
  <1>d. Drained(t) \in {r, ra, rs, re, rr} BY Zenon DEF Drained
  <1> HIDE DEF q
  <1>2. r \in Tasks /\ r.slot = "None" /\ r.state = t.state /\ r.barrier.kind = "None" BY <1>1, AnsweredType
  <1> HIDE DEF r
  <1>3. ra \in Tasks /\ ra.slot = "None" /\ ra.state = t.state
        /\ ra.barrier.kind = "OptionPatchApplication"
    <2>1. t.generation \in Generations /\ t.patch \in Nat BY BoundsAssumption DEF Tasks, Patches
    <2>2. a \in Barriers BY <2>1, AckBarrierType DEF BarrierKinds
    <2>3. a.kind = "OptionPatchApplication" BY DEF AckBarrier, NoBarrier
    <2> HIDE DEF a
    <2>4. ra \in Tasks BY <1>2, <2>2, WithBarrierType
    <2>5. ra.slot = r.slot /\ ra.state = r.state /\ ra.barrier = a BY <1>2, TaskFields
    <2> QED BY <1>2, <2>3, <2>4, <2>5
  <1>4. rs \in Tasks /\ Alike(rs, r)
    <2>1. n \in Tokens BY IdsType DEF SchedulerInv, IdKinds
    <2>2. Alike(rs, r) BY <1>2, TaskFields DEF Alike
    <2> HIDE DEF n
    <2>3. rs \in Tasks BY <1>2, <2>1, Zenon DEF Tasks
    <2> QED BY <2>2, <2>3
  <1>5. "error" \in Aria2Terminal /\ "removed" \in Aria2Terminal BY DEF Aria2Terminal
  <1>6. re \in Tasks /\ rr \in Tasks BY <1>2, <1>5, BeginTerminalType, Zenon
  <1>7. re.slot = r.slot /\ re.state = r.state /\ re.barrier.kind = "TerminalPersistence"
    BY <1>2, TaskFields DEF BeginTerminal, NoBarrier
  <1>8. rr.slot = r.slot /\ rr.state = r.state /\ rr.barrier.kind = "TerminalPersistence"
    BY <1>2, TaskFields DEF BeginTerminal, NoBarrier
  <1> HIDE DEF ra, rs, re, rr
  <1> QED BY <1>d, <1>2, <1>3, <1>4, <1>6, <1>7, <1>8 DEF Alike

\* A task given a probe keeps slot, state and barrier.
LEMMA WithProbeType ==
  ASSUME SchedulerInv, NEW t \in Tasks
  PROVE  WithProbe(t) \in Tasks /\ Alike(WithProbe(t), t)
  <1> DEFINE n == ids.probe
  <1>1. n \in Tokens /\ "AutomaticRetry" \in ProbeOrigins BY IdsType DEF SchedulerInv, IdKinds, ProbeOrigins
  <1>2. Alike(WithProbe(t), t) BY TaskFields DEF WithProbe, Alike
  <1> HIDE DEF n
  <1>3. [t EXCEPT !.probe = n, !.probeOrigin = "AutomaticRetry"] \in Tasks BY <1>1, Zenon DEF Tasks
  <1> QED BY <1>2, <1>3 DEF WithProbe, n

\* CancellationDrained: the drained task gives its slot back.
LEMMA CancellationDrainedStep ==
  ASSUME SchedulerInv, NEW e, e.gid \in Gid, CancellationDrained(e)
  PROVE  SchedulerInv'
  <1> DEFINE g          == e.gid
             t          == tasks[g]
             restarting == t.barrier.target = "PausedRestarting"
             readmits   == t.barrier.target = "WaitingSlow" /\ t.pendingSlow
             action     == IF restarting THEN "RestartQuiesced" ELSE "CancellationDrainSucceeded"
             target     == RecoveryTarget(t.state, action)
             d          == Drained(t)
             probes     == ProbeDue(d)
             p          == IF probes THEN WithProbe(d) ELSE d
             u          == Mark(p, "CancellationDrained")
             slowIds    == IF readmits THEN Issue("slow") ELSE ids
             newIds     == IF probes THEN [slowIds EXCEPT !.probe = @ + 1] ELSE slowIds
  <1>1. t \in Tasks BY TaskOf
  <1>2. /\ readmits => CanIssue("slow")
        /\ probes => CanIssue("probe")
        /\ \E effs, publish : FinishIssuing(g, u, target, effs, publish, newIds)
    BY Zenon DEF CancellationDrained
  <1>3. target \in RowResults /\ target \notin WorkingStates
    BY RecoveryTargetType DEF RecoveryTarget, Stay, WorkingStates, Conflict
  <1>4. d \in Tasks /\ d.slot = "None" /\ d.barrier.kind # "GenerationPersistence" BY <1>1, DrainedShape
  <1>5. newIds \in [IdKinds -> 1 .. (MaxId + 1)]
    <2> HIDE DEF probes, readmits
    <2>1. slowIds \in [IdKinds -> 1 .. (MaxId + 1)] /\ slowIds.probe = ids.probe
      BY <1>2, BoundsAssumption DEF SchedulerInv, StateOK, IdKinds, CanIssue, Issue
    <2> HIDE DEF slowIds
    <2>2. probes => slowIds.probe \in 1 .. MaxId BY <1>2, <2>1 DEF CanIssue
    <2> QED BY <2>1, <2>2, BoundsAssumption DEF IdKinds
  <1> HIDE DEF d, newIds, target, u
  <1>6. p \in Tasks /\ p.slot = "None" /\ p.barrier.kind # "GenerationPersistence"
    BY <1>4, WithProbeType DEF Alike
  <1> HIDE DEF p
  <1>7. u \in Tasks /\ u.slot = "None" /\ u.barrier.kind # "GenerationPersistence"
    BY <1>6, MarkType DEF u, Alike, SeenKinds
  <1>8. u.state = target BY <1>2, <1>3, FinishIssuingTarget
  <1>9. Sound(g, u) BY <1>3, <1>7, <1>8, SlotlessSound
  <1> QED BY <1>2, <1>5, <1>9, FinishIssuingSound

\* A deadline admits its task or leaves it ready where it is.
LEMMA ReadyStep ==
  ASSUME SchedulerInv, NEW g \in Gid, NEW r \in Tasks, Alike(r, tasks[g]),
         r.started = tasks[g].started, r.generation = tasks[g].generation,
         NEW target, NEW effs, NEW publish,
         \/ CanAdmit(tasks[g]) /\ Finish(g, Admit(r), target, effs, publish)
         \/ Finish(g, r, target, effs, publish)
  PROVE  SchedulerInv'
  <1>1. CASE CanAdmit(tasks[g]) /\ Finish(g, Admit(r), target, effs, publish) BY <1>1, AdmitSound, FinishSound
  <1>2. CASE Finish(g, r, target, effs, publish) BY StaysSound, <1>2, FinishSound DEF Alike
  <1> QED BY <1>1, <1>2

\* RetryReady
LEMMA RetryReadyStep ==
  ASSUME SchedulerInv, NEW e, e.gid \in Gid, NEW timer, RetryReady(e, timer)
  PROVE  SchedulerInv'
  <1> DEFINE t == tasks[e.gid]
             r == [t EXCEPT !.retryTimer = 0, !.retryReady = TRUE]
  <1>1. t \in Tasks BY TaskOf
  <1>2. r \in Tasks BY <1>1, ZeroToken, Zenon DEF Tasks
  <1>3. Alike(r, t) /\ r.started = t.started /\ r.generation = t.generation BY <1>1 DEF Alike, Tasks
  <1>4. \E target, effs, publish : \/ CanAdmit(t) /\ Finish(e.gid, Admit(r), target, effs, publish)
                                   \/ Finish(e.gid, r, target, effs, publish)
    BY Zenon DEF RetryReady
  <1> HIDE DEF r
  <1> QED BY <1>2, <1>3, <1>4, ReadyStep

\* SlowReadmit
LEMMA SlowReadmitStep ==
  ASSUME SchedulerInv, NEW e, e.gid \in Gid, NEW readmission, SlowReadmit(e, readmission)
  PROVE  SchedulerInv'
  <1> DEFINE t == tasks[e.gid]
             r == [t EXCEPT !.slowReadmission = 0, !.slowReady = TRUE]
  <1>1. t \in Tasks BY TaskOf
  <1>2. r \in Tasks BY <1>1, ZeroToken, Zenon DEF Tasks
  <1>3. Alike(r, t) /\ r.started = t.started /\ r.generation = t.generation BY <1>1 DEF Alike, Tasks
  <1>4. \E target, effs, publish : \/ CanAdmit(t) /\ Finish(e.gid, Admit(r), target, effs, publish)
                                   \/ Finish(e.gid, r, target, effs, publish)
    BY Zenon DEF SlowReadmit
  <1> HIDE DEF r
  <1> QED BY <1>2, <1>3, <1>4, ReadyStep

\* NoSpaceProbeCompleted moves a task that has no slot, or keeps it in place.
LEMMA ProbeStep ==
  ASSUME SchedulerInv, NEW e, e.gid \in Gid, NEW probe, NEW origin, NEW ready \in BOOLEAN,
         NEW next \in NoSpaceValues, NoSpaceProbeCompleted(e, probe, origin, ready, next)
  PROVE  SchedulerInv'
  <1> DEFINE g      == e.gid
             t      == tasks[g]
             action == ProbeAction(t, ready)
             target == AdmissionTarget(t.state, action)
             again  == ~ready /\ next = "timed"
             v      == IF ready THEN "none" ELSE next
             c      == [t EXCEPT !.probe = 0, !.probeOrigin = "none", !.state = target,
                                 !.noSpace = v]
             u      == IF again THEN WithProbe(c) ELSE c
             newIds == IF again THEN Issue("probe") ELSE ids
  <1>1. t \in Tasks BY TaskOf
  <1>2. /\ again => CanIssue("probe")
        /\ t.barrier.kind # "GenerationPersistence"
        /\ \E effs, publish : FinishIssuing(g, u, target, effs, publish, newIds)
    BY DEF NoSpaceProbeCompleted, Fresh, BarrierAccepts
  <1>3. newIds \in [IdKinds -> 1 .. (MaxId + 1)] BY <1>2, IssueType DEF SchedulerInv, StateOK, IdKinds
  <1>4. target \in RowResults BY AdmissionTargetType
  <1>a. action \in {"WaitingNoSpaceProbeSucceeded", "WaitingNoSpaceProbeFailed",
                    "PausedNoSpaceResumeProbeSucceeded", "PausedNoSpaceResumeProbeFailed",
                    "PausedNoSpacePausePreservingProbeSucceeded",
                    "PausedNoSpacePausePreservingProbeFailed", Conflict}
    BY Zenon DEF ProbeAction
  <1>5. v \in NoSpaceValues /\ "none" \in ProbeOrigins BY DEF NoSpaceValues, ProbeOrigins
  <1> HIDE DEF u, newIds, v, action
  <1>6. target = t.state \/ target = Conflict \/ (target = "Waiting" /\ t.state = "Paused")
    BY <1>a DEF AdmissionTarget, Stay, Move, Conflict
  <1> HIDE DEF target
  <1>7. target \in TaskStates /\ target # Conflict /\ u.state = target BY <1>2, <1>4, FinishIssuingTarget
  <1>8. c \in Tasks BY <1>1, <1>5, <1>7, ZeroToken, Zenon DEF Tasks
  <1>9. c.slot = t.slot /\ c.barrier = t.barrier BY <1>1, TaskFields
  <1> HIDE DEF c
  <1>10. u \in Tasks /\ u.slot = t.slot /\ u.barrier = t.barrier BY <1>8, <1>9, WithProbeType DEF u, Alike
  <1>11. Sound(g, u)
    <2>1. CASE target = t.state BY <1>7, <1>10, <2>1, StaysSound
    <2>2. CASE target = "Waiting" /\ t.state = "Paused"
      <3>1. CASE t.barrier.kind = "CancellationDrain" BY <1>7, <1>10, <2>2, <3>1, DrainSound DEF WorkingStates
      <3>2. CASE t.barrier.kind # "CancellationDrain"
        BY <2>2, <3>2, Unowned, <1>2, <1>7, <1>10, SlotlessSound DEF WorkingStates
      <3> QED BY <3>1, <3>2
    <2> QED BY <1>6, <1>7, <2>1, <2>2
  <1> QED BY <1>2, <1>3, <1>11, FinishIssuingSound

-----------------------------------------------------------------------------
(* The recovered state.                                                    *)

\* No task of a batch needs an identity beyond those the whole batch needs.
LEMMA IssuedBound ==
  ASSUME NEW n \in Nat, NEW A \in SUBSET (1 .. n), NEW B \in SUBSET A, Cardinality(A) <= MaxId
  PROVE  /\ Cardinality(B) \in Tokens
         /\ Cardinality(A) + 1 \in 1 .. (MaxId + 1)
  <1>1. IsFiniteSet(1 .. n) BY FS_Interval
  <1>2. IsFiniteSet(A) /\ IsFiniteSet(B) /\ Cardinality(B) <= Cardinality(A) BY <1>1, FS_Subset
  <1>3. Cardinality(A) \in Nat /\ Cardinality(B) \in Nat BY <1>2, FS_CardinalityType
  <1> QED BY <1>2, <1>3, BoundsAssumption DEF Tokens

\* The identities a recovered task is given, and the counters after restore.
LEMMA IssuedType ==
  ASSUME NEW b \in Batches, ValidBatch(b)
  PROVE  /\ \A i \in DOMAIN b.tasks : /\ IssuedFor(b, i, NeedsRetry) \in Tokens
                                      /\ IssuedFor(b, i, NeedsSlow) \in Tokens
                                      /\ IssuedFor(b, i, NeedsProbe) \in Tokens
         /\ IssuedUpTo(b, Len(b.tasks), NeedsRetry) + 1 \in 1 .. (MaxId + 1)
         /\ IssuedUpTo(b, Len(b.tasks), NeedsSlow) + 1 \in 1 .. (MaxId + 1)
         /\ IssuedUpTo(b, Len(b.tasks), NeedsProbe) + 1 \in 1 .. (MaxId + 1)
  <1> DEFINE n    == Len(b.tasks)
             R(i) == {j \in 1 .. i : NeedsRetry(b.tasks[j])}
             S(i) == {j \in 1 .. i : NeedsSlow(b.tasks[j])}
             P(i) == {j \in 1 .. i : NeedsProbe(b.tasks[j])}
  <1>1. n \in Nat /\ DOMAIN b.tasks = 1 .. n BY DEF Batches
  <1>2. Cardinality(R(n)) <= MaxId /\ Cardinality(S(n)) <= MaxId /\ Cardinality(P(n)) <= MaxId
    BY DEF ValidBatch, IssuedUpTo
  <1>3. \A i \in 1 .. n : R(i) \in SUBSET R(n) /\ S(i) \in SUBSET S(n) /\ P(i) \in SUBSET P(n) BY <1>1
  <1>4. R(n) \in SUBSET (1 .. n) /\ S(n) \in SUBSET (1 .. n) /\ P(n) \in SUBSET (1 .. n) OBVIOUS
  <1>5. \A i \in 1 .. n : /\ IssuedFor(b, i, NeedsRetry) \in {Cardinality(R(i)), 0}
                          /\ IssuedFor(b, i, NeedsSlow) \in {Cardinality(S(i)), 0}
                          /\ IssuedFor(b, i, NeedsProbe) \in {Cardinality(P(i)), 0}
    BY DEF IssuedFor, IssuedUpTo
  <1>6. /\ IssuedUpTo(b, n, NeedsRetry) = Cardinality(R(n))
        /\ IssuedUpTo(b, n, NeedsSlow) = Cardinality(S(n))
        /\ IssuedUpTo(b, n, NeedsProbe) = Cardinality(P(n))
    BY DEF IssuedUpTo
  <1> HIDE DEF n, R, S, P
  <1>7. \A i \in 1 .. n : /\ Cardinality(R(i)) \in Tokens
                          /\ Cardinality(S(i)) \in Tokens
                          /\ Cardinality(P(i)) \in Tokens
    BY <1>1, <1>2, <1>3, <1>4, IssuedBound
  <1>8. /\ Cardinality(R(n)) + 1 \in 1 .. (MaxId + 1)
        /\ Cardinality(S(n)) + 1 \in 1 .. (MaxId + 1)
        /\ Cardinality(P(n)) + 1 \in 1 .. (MaxId + 1)
    BY <1>1, <1>2, <1>4, IssuedBound
  <1> QED BY <1>1, <1>5, <1>6, <1>7, <1>8, ZeroToken DEF n

\* A recovered task is a task without a slot that does not work.
LEMMA RestoredTaskType ==
  ASSUME NEW b \in Batches, ValidBatch(b), NEW i \in DOMAIN b.tasks
  PROVE  /\ RestoredTask(b, i) \in Tasks
         /\ RestoredTask(b, i).slot = "None"
         /\ RestoredTask(b, i).state \notin WorkingStates
         /\ RestoredTask(b, i).barrier.kind = "None"
  <1> DEFINE r  == b.tasks[i]
             t  == NewTask(r.id, r.desiredPaused, r.credential, r.noSpace)
             x  == IF r.slowSlot THEN r.slowPos ELSE 0
             y  == IssuedFor(b, i, NeedsRetry)
             z  == IssuedFor(b, i, NeedsSlow)
             w  == IssuedFor(b, i, NeedsProbe)
             o  == IF NeedsProbe(r) THEN "AutomaticRetry" ELSE "none"
             tp == (r.state = "StoppedResult")
             u  == [t EXCEPT !.state = r.state, !.generation = r.generation, !.started = r.started,
                             !.slowCount = r.slowCount, !.slowSlot = r.slowSlot, !.slowPos = x,
                             !.challenge = r.challenge, !.error = r.error,
                             !.stoppedStatus = r.stoppedStatus, !.terminalPersisted = tp,
                             !.retryTimer = y, !.slowReadmission = z, !.probe = w,
                             !.probeOrigin = o]
  <1>1. r \in Recovered /\ i \in 1 .. Len(b.tasks) BY DEF Batches
  <1>2. r.state \in RecoverableStates BY <1>1 DEF ValidBatch, ValidRecovered
  <1>3. /\ r.id \in TaskIds \cup {0} /\ r.state \in TaskStates \cup {"Absent"}
        /\ r.generation \in Generations /\ r.credential \in Credentials
        /\ r.noSpace \in NoSpaceValues /\ r.slowCount \in Nat /\ x \in Nat /\ r.challenge \in Nat
        /\ r.stoppedStatus \in Aria2Terminal \cup {"None"} /\ o \in ProbeOrigins
    BY <1>1 DEF Recovered, ProbeOrigins
  <1>4. /\ r.started \in BOOLEAN /\ r.desiredPaused \in BOOLEAN /\ r.slowSlot \in BOOLEAN
        /\ r.error \in BOOLEAN
    BY <1>1 DEF Recovered
  <1>5. tp \in BOOLEAN BY Zenon
  <1>6. y \in Tokens /\ z \in Tokens /\ w \in Tokens BY IssuedType
  <1>7. t \in Tasks /\ t.slot = "None" BY <1>3, <1>4, NewTaskType
  <1>8. t.barrier.kind = "None" BY DEF NewTask, NoBarrier
  <1>9. RestoredTask(b, i) = u BY DEF RestoredTask
  <1> HIDE DEF r, t, x, y, z, w, o, tp
  <1>10. u \in Tasks BY <1>3, <1>4, <1>5, <1>6, <1>7, Zenon DEF Tasks
  <1>11. u.slot = t.slot /\ u.barrier = t.barrier /\ u.state = r.state BY <1>7, TaskFields
  <1> HIDE DEF u
  <1> QED
    BY <1>2, <1>7, <1>8, <1>9, <1>10, <1>11
       DEF RecoverableStates, ParkedStates, WorkingStates

\* restore yields a state in which nothing owns a slot.
LEMMA InitInv ==
  ASSUME Init
  PROVE  SchedulerInv
  <1>1. PICK b \in RestoreBatches : InitRestored(b) BY DEF Init
  <1>2. b \in Batches /\ ValidBatch(b) BY <1>1, SchedulerAssumption DEF InitRestored
  <1>3. \A g \in Gid : /\ tasks[g] \in Tasks
                       /\ tasks[g].slot = "None"
                       /\ tasks[g].state \notin WorkingStates
                       /\ tasks[g].barrier.kind = "None"
    <2> SUFFICES ASSUME NEW g \in Gid
                 PROVE  /\ tasks[g] \in Tasks
                        /\ tasks[g].slot = "None"
                        /\ tasks[g].state \notin WorkingStates
                        /\ tasks[g].barrier.kind = "None"
      OBVIOUS
    <2>1. CASE \E i \in DOMAIN b.tasks : b.tasks[i].gid = g
      BY <2>1, <1>1, <1>2, RestoredTaskType DEF IndexOf, InitRestored, RestoredTasks
    <2>2. CASE ~ \E i \in DOMAIN b.tasks : b.tasks[i].gid = g
      BY <1>1, <2>2, AbsentTaskType DEF InitRestored, RestoredTasks, WorkingStates
    <2> QED BY <2>1, <2>2
  <1>4. tasks \in [Gid -> Tasks] BY <1>1, <1>3 DEF InitRestored, RestoredTasks
  <1>5. queues \in [QueueClasses -> Seq(Gid)] BY <1>1, <1>2 DEF InitRestored, Batches
  <1>6. highestTaskId \in TaskIds \cup {0}
    <2>1. \A i \in DOMAIN b.tasks : b.tasks[i].id \in TaskIds
      <3>1. b.tasks \in Seq(Recovered) BY <1>2 DEF Batches
      <3>2. \A i \in DOMAIN b.tasks : b.tasks[i] \in Recovered BY <3>1
      <3>3. \A r \in Recovered : r.id \in TaskIds BY DEF Recovered
      <3> QED BY <3>2, <3>3
    <2> QED BY <1>1, <2>1 DEF InitRestored
  <1>7. ids \in [IdKinds -> 1 .. (MaxId + 1)] BY BoundsAssumption, <1>1, <1>2, IssuedType DEF InitRestored
  <1>8. policy \in Policies BY SchedulerAssumption DEF Init
  <1>9. published \in [Gid -> Snapshots]
    BY ZeroGeneration, <1>3, SnapshotOfType, <1>1 DEF NoSnapshot, Snapshots, InitRestored
  <1>10. StateOK BY <1>4, <1>5, <1>6, <1>7, <1>8, <1>9 DEF StateOK
  <1>11. SlotOwners = {} BY <1>3 DEF SlotOwners, OwnsSlot
  <1>12. SlotBound BY <1>11, FS_EmptySet, SchedulerAssumption DEF SlotBound
  <1>13. \A g \in Gid : SlotFits(tasks[g]) BY <1>3 DEF SlotFits, OwnsSlot
  <1> QED BY <1>10, <1>12, <1>13 DEF SchedulerInv

-----------------------------------------------------------------------------
(* The theorems.                                                           *)

\* Every step of the scheduler preserves the invariant.
LEMMA NextInv ==
  ASSUME SchedulerInv, [Next]_vars
  PROVE  SchedulerInv'
  <1>1. CASE UNCHANGED vars BY <1>1, TasksUnchanged DEF vars, SchedulerInv, StateOK
  <1>2. ASSUME NEW g \in Gid, UserCommand(g)
        PROVE  SchedulerInv'
    BY SchedulerAssumption, AddStep, PauseStep, PauseDeferredStep, ResumeStep, ResumeDeferredStep, ResumeProbeStep, RemoveStep, RemoveDeferredStep,
       RemoveStoppedResultStep, ChangePositionStep, <1>2 DEF UserCommand
  <1>3. ASSUME NEW g \in Gid, OptionCommand(g)
        PROVE  SchedulerInv'
    BY BeginSourceReplacementStep, CommitSourceReplacementStep, ApplyOptionPatchStep, ApproveHostKeyStep, ApplyHostKeyPatchStep, <1>3 DEF
       OptionCommand
  <1>4. ASSUME NEW g \in Gid, Admission(g)
        PROVE  SchedulerInv'
    BY <1>4, AdmitNextStep, ScheduleRestartPatchStep DEF Admission
  <1>5. ASSUME NEW g \in Gid, Acknowledgement(g)
        PROVE  SchedulerInv'
    <2> DEFINE e     == Current(g)
               token == tasks[g].barrier.token
    <2>1. e.gid = g BY DEF Current
    <2>2. \/ GenerationPersisted(e)
          \/ \E ok \in BOOLEAN : \/ OptionPatchPersistenceCompleted(e, token, ok)
                                 \/ OptionPatchApplicationCompleted(e, token, ok)
                                 \/ HostKeyResolutionCompleted(e, token, ok)
          \/ TerminalPersisted(e, tasks[e.gid].barrier.status)
          \/ StoppedResultDeletionFailed(e, token)
          \/ StoppedResultDeleted(e, token)
      BY <1>5, <2>1, Zenon DEF Acknowledgement
    <2> HIDE DEF e, token
    <2> QED
      BY <2>1, <2>2, GenerationPersistedStep, OptionPatchPersistenceStep,
         OptionPatchApplicationStep, HostKeyResolutionStep, TerminalPersistedStep,
         DeletionFailedStep, DeletedStep
  <1>6. ASSUME NEW g \in Gid, WorkerResult(g)
        PROVE  SchedulerInv'
    <2> DEFINE e == Current(g)
    <2>1. e.gid = g /\ {"manual", "timed"} \subseteq NoSpaceValues BY DEF Current, NoSpaceValues
    <2>2. \/ AllocationSucceeded(e) \/ AllocationRetryable(e) \/ ActiveRetryIdle(e)
          \/ \E active \in BOOLEAN : HostKeyChallenge(e, active)
          \/ ActiveRepresentationRestart(e) \/ AllocationFailed(e) \/ TerminalFailure(e)
          \/ \E c \in {"manual", "timed"} : NoSpace(e, c)
          \/ SlowDemoted(e) \/ SlowPaused(e)
          \/ \E seed \in BOOLEAN : DataComplete(e, seed)
          \/ VerificationSucceeded(e) \/ VerificationRecoverable(e) \/ VerificationFailed(e)
          \/ SeedingComplete(e) \/ SeedingFailed(e) \/ CancellationDrained(e)
      BY <1>6, Zenon DEF WorkerResult
    <2> HIDE DEF e
    <2> QED
      BY <2>1, <2>2, AllocationSucceededStep, RetryStep, HostKeyChallengeStep,
         RepresentationRestartStep, FinalResultStep, TerminalFailureStep, NoSpaceStep,
         SlowDemotedStep, SlowPausedStep, DataCompleteStep, VerificationRecoverableStep,
         CancellationDrainedStep
  <1>7. ASSUME NEW g \in Gid, Timer(g)
        PROVE  SchedulerInv'
    <2> DEFINE e == Current(g)
    <2>1. e.gid = g /\ {"manual", "timed"} \subseteq NoSpaceValues BY DEF Current, NoSpaceValues
    <2>2. \/ \E timer : RetryReady(e, timer)
          \/ \E readmission : SlowReadmit(e, readmission)
          \/ \E probe, origin : \E ready \in BOOLEAN, next \in {"manual", "timed"} :
               NoSpaceProbeCompleted(e, probe, origin, ready, next)
      BY <1>7, Zenon DEF Timer
    <2> HIDE DEF e
    <2> QED BY <2>1, <2>2, RetryReadyStep, SlowReadmitStep, ProbeStep
  <1>8. ASSUME NEW p \in PolicyChoices, ConfigureQueuePolicies(p)
        PROVE  SchedulerInv'
    BY <1>8, ConfigureStep
  <1> QED BY <1>1, <1>2, <1>3, <1>4, <1>5, <1>6, <1>7, <1>8 DEF Next

\* The inductive invariant holds in every reachable state.
THEOREM Invariance == Spec => []SchedulerInv
  <1>1. Init => SchedulerInv BY InitInv
  <1>2. SchedulerInv /\ [Next]_vars => SchedulerInv' BY NextInv
  <1> QED BY <1>1, <1>2, PTL DEF Spec

\* Whatever the commands, results, timers and acknowledgements and their order,
\* the tasks, queues, identity counters and published snapshots keep their
\* types: no counter and no generation runs past its bound.
THEOREM TypeCorrect == Spec => []StateOK
  <1>1. SchedulerInv => StateOK BY DEF SchedulerInv
  <1> QED BY <1>1, Invariance, PTL

\* For every set of GIDs and every max_active_tasks, no interleaving lets more
\* tasks own an active slot than the configuration allows.
THEOREM SlotLimit == Spec => []SlotBound
  <1>1. SchedulerInv => SlotBound BY DEF SchedulerInv
  <1> QED BY <1>1, Invariance, PTL

\* No slot is leaked and nothing works without one: the owner of a slot works,
\* keeps it for a retry, or drains the generation that used it.
THEOREM SlotsJustified == Spec => []SlotJustified
  <1>1. SchedulerInv => SlotJustified BY DEF SchedulerInv, SlotFits, SlotJustified
  <1> QED BY <1>1, Invariance, PTL

=============================================================================
