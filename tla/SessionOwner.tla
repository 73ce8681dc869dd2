------------------------------ MODULE SessionOwner ------------------------------
(***************************************************************************)
(* The thread that owns the session database and the open control journals *)
(* (ariax-storage/src/session_owner.rs): clients submit commands to a      *)
(* bounded queue under the admission lock and wait for the completion; the *)
(* owner takes commands one by one, and looks at the admission state only  *)
(* when the queue was empty.                                               *)
(***************************************************************************)
EXTENDS Maps, FiniteSets, FiniteSetsExt

CONSTANTS OwnerCommands,      \* each submitted at most once: its kind is Kind[c]
          Kind,          \* "store", "install", "append", "flush_all", "close", "close_all"
          Of,            \* the task whose journal a command is about
          OwnerTasks,
          Capacity

VARIABLES ownerState,    \* admission: "Running", "ShuttingDown", "Closed"
          requests,      \* the bounded queue of accepted commands
          ownerThread,   \* the thread: "starting", "taking", "deciding", "gone"
          reply,         \* command -> "none", "waiting", "done", "failed", "lost", "refused"
          journals,      \* task -> the journal the owner holds: appended, flushed, open, faulted
          join           \* the handle: "held", "taken", "joined", "detached"

ownerVars == <<ownerState, requests, ownerThread, reply, journals, join>>

OwnerInit ==
  /\ ownerState = "Running" /\ requests = << >> /\ ownerThread = "starting"
  /\ reply = [c \in OwnerCommands |-> "none"]
  /\ journals = [g \in OwnerTasks |-> [open |-> FALSE, appended |-> 0, flushed |-> 0, faulted |-> FALSE]]
  /\ join = "held"

\* try_submit_owned, under the admission lock.
try_submit(c) ==
  /\ reply[c] = "none"
  /\ IF ownerState = "Running" /\ Len(requests) < Capacity
     THEN requests' = Append(requests, c) /\ reply' = [reply EXCEPT ![c] = "waiting"]
     ELSE requests' = requests /\ reply' = [reply EXCEPT ![c] = "refused"]
  /\ UNCHANGED <<ownerState, ownerThread, journals, join>>
\* owner_begin_shutdown and the wait of shutdown_with_timeout.
owner_begin_shutdown ==
  /\ ownerState = "Running"
  /\ ownerState' = "ShuttingDown"
  /\ join' = IF join = "held" THEN "taken" ELSE join
  /\ UNCHANGED <<requests, ownerThread, reply, journals>>
JoinOwner ==
  /\ join = "taken"
  /\ \/ ownerThread = "gone" /\ join' = "joined" /\ ownerState' = "Closed"
     \/ ownerThread # "gone" /\ join' = "detached" /\ UNCHANGED ownerState
  /\ UNCHANGED <<requests, ownerThread, reply, journals>>

\* The results of a command: the journals it leaves and whether it succeeded.
OwnerResult(js, ok) == [journals |-> js, ok |-> ok]
OpenJournals(js) == {g \in DOMAIN js : js[g].open}
FullyFlushed(j) == ~j.faulted /\ j.appended = j.flushed
Closed(js, S) == [g \in DOMAIN js |-> IF g \in S THEN [js[g] EXCEPT !.open = FALSE] ELSE js[g]]
\* Mutant: each journal is closed in its turn, without a look at the others first.
CloseInTurn(js) == OwnerResult(Closed(js, {g \in OpenJournals(js) : FullyFlushed(js[g])}), \A g \in OpenJournals(js) : FullyFlushed(js[g]))
close_all_flushed_journals(js) ==
  IF \A g \in OpenJournals(js) : FullyFlushed(js[g]) THEN OwnerResult(Closed(js, OpenJournals(js)), TRUE) ELSE OwnerResult(js, FALSE)
\* Every journal is tried; one that fails is faulted.
Flushed(js, bad) == [g \in DOMAIN js |-> IF g \notin OpenJournals(js) THEN js[g]
                                        ELSE IF g \in bad \/ js[g].faulted THEN [js[g] EXCEPT !.faulted = TRUE]
                                        ELSE [js[g] EXCEPT !.flushed = js[g].appended]]
flush_all_journals(js) ==
  {OwnerResult(Flushed(js, bad), \A g \in OpenJournals(js) : g \notin bad /\ ~js[g].faulted) : bad \in SUBSET OpenJournals(js)}
\* One journal: installed, appended to (a failed append faults it), closed once everything is flushed.
WithJournal(js, g, j) == [js EXCEPT ![g] = j]
install_journal(js, g) ==
  {IF js[g].open THEN OwnerResult(js, FALSE) ELSE OwnerResult(WithJournal(js, g, [js[g] EXCEPT !.open = TRUE, !.faulted = FALSE]), TRUE)}
append_record(js, g) ==
  IF js[g].open /\ ~js[g].faulted
  THEN {OwnerResult(WithJournal(js, g, [js[g] EXCEPT !.appended = @ + 1]), TRUE),
        OwnerResult(WithJournal(js, g, [js[g] EXCEPT !.faulted = TRUE]), FALSE)}
  ELSE {OwnerResult(js, FALSE)}
close_flushed(js, g) ==
  {IF js[g].open /\ FullyFlushed(js[g]) THEN OwnerResult(Closed(js, {g}), TRUE) ELSE OwnerResult(js, FALSE)}
\* What the commands on journals do (execute_command).
execute_command(js, c) ==
  CASE Kind[c] = "install"   -> install_journal(js, Of[c])
    [] Kind[c] = "append"    -> append_record(js, Of[c])
    [] Kind[c] = "flush_all" -> flush_all_journals(js)
    [] Kind[c] = "close"     -> close_flushed(js, Of[c])
    [] Kind[c] = "close_all" -> {close_all_flushed_journals(js)}
    [] OTHER                 -> {OwnerResult(js, TRUE)}

\* owner_main: SessionStore::open and the startup snapshot, or the end.
OpenStore ==
  /\ ownerThread = "starting"
  /\ \/ ownerThread' = "taking" /\ UNCHANGED <<ownerState, reply>>
     \/ /\ ownerThread' = "gone" /\ ownerState' = "Closed"
        /\ reply' = [c \in OwnerCommands |-> IF reply[c] = "waiting" THEN "lost" ELSE reply[c]]
  /\ UNCHANGED <<requests, journals, join>>
\* try_recv: a command is run to its end before the next look at the queue.
TakeRequest ==
  /\ ownerThread = "taking" /\ requests # << >>
  /\ \E r \in execute_command(journals, Head(requests)) :
       /\ journals' = r.journals
       /\ reply' = [reply EXCEPT ![Head(requests)] = IF r.ok THEN "done" ELSE "failed"]
  /\ requests' = Tail(requests)
  /\ UNCHANGED <<ownerState, ownerThread, join>>
FoundEmpty ==
  /\ ownerThread = "taking" /\ requests = << >>
  /\ ownerThread' = "deciding"
  /\ UNCHANGED <<ownerState, requests, reply, journals, join>>
\* The admission state is read after the queue was found empty.
Decide ==
  /\ ownerThread = "deciding"
  /\ IF ownerState = "Running"
     THEN ownerThread' = "taking" /\ UNCHANGED <<ownerState, reply>>
     ELSE /\ ownerThread' = "gone" /\ ownerState' = "Closed"
          /\ reply' = [c \in OwnerCommands |-> IF reply[c] = "waiting" THEN "lost" ELSE reply[c]]
  /\ UNCHANGED <<requests, journals, join>>

OwnerNext ==
  \/ \E c \in OwnerCommands : try_submit(c)
  \/ owner_begin_shutdown \/ JoinOwner \/ OpenStore \/ TakeRequest \/ FoundEmpty \/ Decide
OwnerFairness == /\ WF_ownerVars(OpenStore \/ TakeRequest \/ FoundEmpty)
                 /\ WF_ownerVars(Decide)
OwnerSpec == OwnerInit /\ [][OwnerNext]_ownerVars /\ OwnerFairness

---------------------------------------------------------------------------------
\* Nobody waits for ever: every accepted command is answered, or its
\* completion is disconnected when the owner ends.
CompletionsResolve == \A c \in OwnerCommands : reply[c] = "waiting" ~> reply[c] \in {"done", "failed", "lost"}
\* "Closes admission, drains accepted commands, and waits only to the
\* deadline" (session_owner.rs:693): after a start that succeeded, no
\* accepted command is dropped by a shutdown.
AcceptedAreDrained ==
  [][ownerThread = "deciding" => \A c \in OwnerCommands : reply[c] = "waiting" => reply'[c] # "lost"]_ownerVars
\* Nothing is submitted into a queue nobody reads: once the owner has gone
\* no command is accepted any more.
ClosedAcceptsNothing == ownerThread = "gone" => ownerState = "Closed" /\ \A c \in OwnerCommands : reply[c] # "waiting"
\* Closing is all or nothing, over however many journals and whatever failed on
\* the way to it: a client told that everything is closed can rely on every
\* record of every task being on the disk, and one told that it failed still
\* has every journal it had.
CloseAnswersHold ==
  [][\A c \in OwnerCommands : Kind[c] = "close_all" /\ reply[c] = "waiting" =>
       /\ reply'[c] = "done" => \A g \in OwnerTasks : ~journals'[g].open /\ (journals[g].open => FullyFlushed(journals'[g]))
       /\ reply'[c] = "failed" => journals' = journals]_ownerVars
---------------------------------------------------------------------------------
(* PersistenceSchedulerEffectSink (ariax-engine/src/effect_sink.rs): the     *)
(* scheduler driver dispatches one effect at a time; the sink finds the plan *)
(* prepared for exactly this effect and submits its commands to the owner,   *)
(* one after the other.  An append is followed by the flush of what it       *)
(* appended.                                                                 *)

CONSTANTS PlanOf,       \* the effects, each with the steps of its plan, "unit" or "append"
          Stages,       \* the effects that stage an option patch
          PlanCapacity, MaxDispatches

\* PersistencePlan::new refuses a plan without steps, validate_plan any plan of
\* a staged patch but the append of its snapshot and the row of its options.
ASSUME SinkAssumption ==
  /\ \A e \in DOMAIN PlanOf : PlanOf[e] \in Seq({"unit", "append"}) /\ PlanOf[e] # << >>
  /\ \A e \in DOMAIN PlanOf \cap Stages : PlanOf[e] = <<"append", "unit">>

VARIABLES plans,        \* prepared plans, oldest first
          offered, active, immediate,
          dispatched,   \* what the driver waits for: [id, effect]
          executed,     \* the owner's commands of this dispatch, in the order they took effect
          outcomes      \* what the sink answered, dispatch by dispatch
sinkVars == <<plans, offered, active, immediate, dispatched, executed, outcomes>>

PlanEffects == DOMAIN PlanOf
StepCommands(s) == IF s = "append" THEN <<"append", "flush">> ELSE <<s>>
CommandsUpTo(steps) ==
  LET done[i \in 0..Len(steps)] == IF i = 0 THEN << >> ELSE done[i - 1] \o StepCommands(steps[i])
  IN done
PlanCommands(effect) == CommandsUpTo(PlanOf[effect])[Len(PlanOf[effect])]

SinkInit ==
  /\ plans = << >> /\ offered = None /\ active = None /\ immediate = None
  /\ dispatched = None /\ executed = << >> /\ outcomes = << >>

\* prepare: plans are registered before the input that produces their effects.
register(effect) ==
  /\ ~Is(dispatched) /\ Len(plans) < PlanCapacity
  /\ plans' = Append(plans, effect)
  /\ UNCHANGED <<offered, active, immediate, dispatched, executed, outcomes>>
DiscardPrepared ==
  /\ ~Is(dispatched) /\ plans # << >> /\ plans' = << >>
  /\ UNCHANGED <<offered, active, immediate, dispatched, executed, outcomes>>
DriverStopped == outcomes # << >> /\ outcomes[Len(outcomes)].answer \in {"unrepresentable", "closed"}
\* The driver emits an effect; the sink may ask to be polled again.
DriverEmits(effect) ==
  /\ ~Is(dispatched) /\ ~DriverStopped /\ Len(outcomes) < MaxDispatches
  /\ dispatched' = Some([id |-> Len(outcomes) + 1, effect |-> effect, accepted |-> FALSE]) /\ executed' = << >>
  /\ UNCHANGED <<plans, offered, active, immediate, outcomes>>

DispatchedEffect == The(dispatched).effect
SinkAccepts == dispatched' = Some([The(dispatched) EXCEPT !.accepted = TRUE])
exact_plan(effect) == \E i \in DOMAIN plans : plans[i] = effect
consume_exact(effect) ==
  LET first == CHOOSE i \in DOMAIN plans : plans[i] = effect /\ \A k \in 1..(i - 1) : plans[k] # effect
  IN [i \in 1..(Len(plans) - 1) |-> plans[IF i < first THEN i ELSE i + 1]]
SinkAnswers(answer) ==
  /\ outcomes' = Append(outcomes, [effect |-> DispatchedEffect, answer |-> answer, executed |-> executed])
  /\ dispatched' = None

\* offer_persistence: no plan, queue full, accepted, or closed.
Offering == Is(dispatched) /\ ~The(dispatched).accepted
OfferUnknown ==
  /\ Offering /\ ~Is(offered) /\ ~exact_plan(DispatchedEffect)
  /\ immediate' = Some("unrepresentable") /\ SinkAccepts
  /\ UNCHANGED <<plans, offered, active, executed, outcomes>>
\* A plan that does not fit the dispatch (validate_dispatched_plan) is used up by it.
OfferRefused ==
  /\ Offering /\ ~Is(offered) /\ exact_plan(DispatchedEffect)
  /\ plans' = consume_exact(DispatchedEffect) /\ immediate' = Some("unrepresentable") /\ SinkAccepts
  /\ UNCHANGED <<offered, active, executed, outcomes>>
OfferFull ==
  /\ Offering /\ (Is(offered) \/ exact_plan(DispatchedEffect))
  /\ offered' = Some(The(dispatched).id)
  /\ UNCHANGED <<plans, active, immediate, dispatched, executed, outcomes>>
OfferSubmit ==
  /\ Offering /\ (Is(offered) \/ exact_plan(DispatchedEffect))
  /\ offered' = None /\ plans' = consume_exact(DispatchedEffect)
  /\ active' = Some([step |-> 1, pending |-> None, inFlight |-> Some(PlanCommands(DispatchedEffect)[1])])
  /\ SinkAccepts /\ UNCHANGED <<immediate, executed, outcomes>>
OfferClosed ==
  /\ Offering /\ (Is(offered) \/ exact_plan(DispatchedEffect))
  /\ offered' = None /\ SinkAnswers("closed")
  /\ UNCHANGED <<plans, active, immediate, executed>>

\* The owner executes the command in flight, or fails it: before anything was
\* appended, or not known whether before or after.
OwnerHas == Is(active) /\ Is(The(active).inFlight)
OwnerExecutes ==
  /\ OwnerHas /\ The(active).inFlight # Some("done")
  /\ executed' = Append(executed, The(The(active).inFlight))
  /\ active' = Some([The(active) EXCEPT !.inFlight = Some("done")])
  /\ UNCHANGED <<plans, offered, immediate, dispatched, outcomes>>
owner_command_failure(definite) ==
  /\ OwnerHas /\ The(active).inFlight # Some("done")
  /\ \E partial \in (IF definite THEN {FALSE} ELSE BOOLEAN) :
       LET e == IF partial THEN Append(executed, The(The(active).inFlight)) ELSE executed
           represented == DispatchedEffect \in Stages /\ The(active).inFlight = Some("append") /\ definite
       IN /\ executed' = e /\ dispatched' = None
          /\ outcomes' = Append(outcomes, [effect |-> DispatchedEffect, executed |-> e,
                                           answer |-> IF represented THEN "stage_failed" ELSE "unrepresentable"])
  /\ active' = None /\ UNCHANGED <<plans, offered, immediate>>

\* Mutant: the first result completes the plan.
AnswersEarly ==
  /\ OwnerHas /\ The(active).inFlight = Some("done")
  /\ active' = None /\ SinkAnswers("completed") /\ UNCHANGED <<plans, offered, immediate, executed>>
\* poll_active_completion: the result advances the step, then the next command
\* is submitted; a full queue keeps the command.
apply_result ==
  /\ OwnerHas /\ The(active).inFlight = Some("done")
  /\ LET next == The(active).step + 1
     IN IF next > Len(PlanCommands(DispatchedEffect))
        THEN active' = None /\ SinkAnswers("completed")
        ELSE active' = Some([step |-> next, pending |-> Some(PlanCommands(DispatchedEffect)[next]), inFlight |-> None]) /\ UNCHANGED <<dispatched, outcomes>>
  /\ UNCHANGED <<plans, offered, immediate, executed>>
SubmitNext ==
  /\ Is(active) /\ Is(The(active).pending)
  /\ active' = Some([The(active) EXCEPT !.pending = None, !.inFlight = The(active).pending])
  /\ UNCHANGED <<plans, offered, immediate, dispatched, executed, outcomes>>
post_acceptance_admission_failure ==
  /\ Is(active) /\ Is(The(active).pending)
  /\ active' = None /\ SinkAnswers("unrepresentable")
  /\ UNCHANGED <<plans, offered, immediate, executed>>
poll_completion ==
  /\ Is(immediate) /\ SinkAnswers(The(immediate)) /\ immediate' = None
  /\ UNCHANGED <<plans, offered, active, executed>>

SinkNext ==
  \/ \E e \in PlanEffects : register(e) \/ DriverEmits(e)
  \/ DiscardPrepared \/ OfferUnknown \/ OfferRefused \/ OfferFull \/ OfferSubmit \/ OfferClosed
  \/ OwnerExecutes \/ owner_command_failure(TRUE) \/ owner_command_failure(FALSE)
  \/ apply_result \/ SubmitNext \/ post_acceptance_admission_failure \/ poll_completion

---------------------------------------------------------------------------------
\* What the scheduler is told is what the owner did: "completed" when every
\* command of the plan took effect, once and in order, "stage_failed" only when
\* none did.  Anything in between stops the driver.
AnswersAreTrue ==
  \A i \in DOMAIN outcomes :
    LET o == outcomes[i]
    IN /\ o.answer = "completed" => o.executed = PlanCommands(o.effect)
       /\ o.answer = "stage_failed" => o.executed = << >> /\ o.effect \in Stages
       /\ o.answer # "completed" /\ i < Len(outcomes) => o.answer = "stage_failed"

\* A plan serves one effect: the commands under way are a prefix of the plan of
\* the effect dispatched, never of one prepared for another or served before.
OnePlanPerEffect ==
  /\ Is(dispatched) => \E n \in 0..Len(PlanCommands(DispatchedEffect)) : executed = SubSeq(PlanCommands(DispatchedEffect), 1, n)
  /\ Is(active) => Is(dispatched) /\ The(dispatched).accepted /\ ~Is(offered) /\ ~Is(immediate)
  /\ Is(offered) => Is(dispatched) /\ The(offered) = The(dispatched).id /\ exact_plan(DispatchedEffect)

=================================================================================
