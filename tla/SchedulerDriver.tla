----------------------------- MODULE SchedulerDriver -----------------------------
(***************************************************************************)
(* The single owner of the scheduler:                                      *)
(* crates/ariax-runtime/src/scheduler_driver.rs.  One accepted input       *)
(* starts a chain: its effects are dispatched one after the other, then    *)
(* the acknowledgements they brought are applied, each with effects of its *)
(* own, until nothing is left and the view that status readers see is      *)
(* replaced at once.  Until then no further input is accepted.             *)
(*                                                                         *)
(* Dispatch and completion of an effect are one step: while an effect is   *)
(* in flight the driver does nothing else.  The scheduler's variable       *)
(* effects is the driver's pending outcome.  Persistence is external: it   *)
(* succeeds, or the driver faults (the one failure that is acknowledged,   *)
(* of StageOptionPatch, belongs to option patches, which the composition   *)
(* does not offer).                                                        *)
(***************************************************************************)
EXTENDS RequestScheduler, RuntimeMailbox

VARIABLES
  chain,   \* an accepted input is being worked off (draft is some)
  acks,    \* Seq(Acknowledgements): acknowledgements not yet applied
  draft,   \* [Gid -> Snapshots]: the view under construction
  view,    \* [Gid -> Snapshots]: the view that status readers see
  fault    \* the driver refuses everything from now on

driverVars == <<chain, acks, draft, view, fault>>

schedulerVars == vars

Acknowledgements == Effects

\* begin_restore dispatches what restore returned; a new session has nothing.
DriverInit ==
  /\ chain = (effects # << >>) /\ acks = << >> /\ fault = FALSE
  /\ draft = published /\ view = [g \in Gid |-> NoSnapshot]

\* is_idle
Idle == ~chain /\ ~fault

\* Mutant: the completion of a terminal record is not passed on.
AcknowledgedKindsButTerminal ==
  {"PersistGenerationStarted", "PersistHostKeyPin", "DeleteStoppedTaskMetadata"}

\* acknowledgement_kinds
AcknowledgedKinds == {"PersistGenerationStarted", "PersistHostKeyPin", "PersistTerminal",
                      "DeleteStoppedTaskMetadata"}

PersistenceKinds ==
  {"PersistGenerationStarted", "PersistHostKeyPin", "PersistTerminal",
   "DeleteStoppedTaskMetadata", "PersistTask", "PersistQueueTransition", "PersistConditions",
   "PersistHostKeyChallenge", "PersistHostKeyChallengeRejected"}

\* TransitionEffect::generation: the effects that name a generation.
GenerationKinds == {"PersistGenerationStarted", "StartAllocation", "CancelGeneration",
                    "ScheduleRetry", "CancelRetry", "ScheduleSlowReadmission",
                    "CancelSlowReadmission", "PersistTerminal", "PublishSnapshot"}

\* validate_effect_owner
OwnerValid(e) ==
  LET t == tasks[e.gid]
  IN /\ t.state # "Absent"
     /\ t.id = e.id
     /\ e.kind \in GenerationKinds => e.generation = t.generation

-----------------------------------------------------------------------------

\* Mutant: a chain starts from an empty draft.
BeginChainEmpty ==
  /\ chain' = TRUE
  /\ draft' = [g \in Gid |-> NoSnapshot]
  /\ UNCHANGED <<acks, view, fault>>

\* begin_chain, beside the scheduler's step for the input.
BeginChain ==
  /\ chain' = TRUE
  /\ draft' = view
  /\ UNCHANGED <<acks, view, fault>>

\* poll_pending, poll_offered, poll_in_flight: the next effect of the outcome.
DispatchEffect ==
  LET e == Head(effects)
      t == tasks[e.gid]
  IN /\ chain /\ ~fault
     /\ effects # << >> /\ OwnerValid(e)
     /\ effects' = Tail(effects)
     /\ \/ /\ e.kind = "PublishSnapshot"
           /\ draft' = [draft EXCEPT ![e.gid] = published[e.gid]]
           /\ UNCHANGED <<mailboxVars, acks>>
        \/ /\ e.kind \in RuntimeKinds
           /\ PollDispatch(e)
           /\ UNCHANGED <<acks, draft>>
        \/ /\ e.kind \in PersistenceKinds
           /\ acks' = IF e.kind \in AcknowledgedKinds
                      THEN Append(acks, [e EXCEPT !.generation = t.generation]) ELSE acks
           /\ UNCHANGED <<mailboxVars, draft>>
     /\ UNCHANGED <<tasks, queues, highestTaskId, ids, policy, published, chain, view, fault>>

\* The scheduler's step for an acknowledgement.
Acknowledge(a) ==
  \/ a.kind = "PersistGenerationStarted" /\ GenerationPersisted(a)
  \/ a.kind = "PersistHostKeyPin" /\ HostKeyResolutionCompleted(a, a.token, TRUE)
  \/ a.kind = "PersistTerminal" /\ TerminalPersisted(a, a.status)
  \/ a.kind = "DeleteStoppedTaskMetadata" /\ StoppedResultDeleted(a, a.token)

\* Mutant: an acknowledgement is applied and left in the queue.
ApplyAcknowledgementAgain ==
  /\ chain /\ ~fault
  /\ effects = << >> /\ acks # << >>
  /\ Acknowledge(Head(acks))
  /\ UNCHANGED <<mailboxVars, driverVars>>

\* apply_acknowledgement; a deleted task leaves the draft in
\* finish_pending_outcome, which follows at once.
ApplyAcknowledgement ==
  LET a == Head(acks)
  IN /\ chain /\ ~fault
     /\ effects = << >> /\ acks # << >>
     /\ Acknowledge(a)
     /\ acks' = Tail(acks)
     /\ draft' = IF a.kind = "DeleteStoppedTaskMetadata"
                 THEN [draft EXCEPT ![a.gid] = NoSnapshot] ELSE draft
     /\ UNCHANGED <<mailboxVars, chain, view, fault>>

\* fail: an effect without its owner, an acknowledgement that the scheduler
\* refuses, or a persistence failure.
DriverFaults ==
  /\ chain /\ ~fault
  /\ \/ effects # << >> /\ ~OwnerValid(Head(effects))
     \/ effects = << >> /\ acks # << >> /\ ~ENABLED Acknowledge(Head(acks))
     \/ On("StoreFails") /\ effects # << >> /\ Head(effects).kind \in PersistenceKinds
  /\ fault' = TRUE
  /\ UNCHANGED <<schedulerVars, mailboxVars, chain, acks, draft, view>>

ChainDone == chain /\ ~fault /\ effects = << >> /\ acks = << >>

\* Mutant: the draft of a chain is given up instead of becoming the view.
CompleteChainUnpublished ==
  /\ ChainDone
  /\ chain' = FALSE
  /\ UNCHANGED <<acks, draft, view, fault>>

\* poll_at, last case: the draft becomes the view.
CompleteChain ==
  /\ ChainDone
  /\ chain' = FALSE
  /\ view' = draft
  /\ UNCHANGED <<acks, draft, fault>>

=============================================================================
