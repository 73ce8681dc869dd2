------------------------------ MODULE ControlPlane ------------------------------
(***************************************************************************)
(* The mutable owner behind every client call (http_control.rs with        *)
(* control_runtime.rs, control_ops.rs, admission.rs, configuration.rs and  *)
(* control_io.rs).  A client admits a command to one of two mailboxes; the *)
(* owner dispatches one at a time into the engine, which works on one      *)
(* input at a time, and what outlives a turn waits in a continuation: the  *)
(* pending mutation, a bulk control, a source replacement, an admission, a *)
(* configuration, an export.  Every continuation holds the reply of its    *)
(* callers.  A turn may end after any of its steps, so each is an action.  *)
(* The scheduler is reduced to where a task is; of a task's specification  *)
(* only which source and which option changes went into it is kept.        *)
(***************************************************************************)
EXTENDS Maps, Integers, FiniteSets, SequencesExt

CONSTANTS Calls,          \* [Calls -> [method, gid]] the calls clients may make
          Scripts,        \* which of them the clients of one behaviour make, in any order
          Known,          \* the tasks there are at the start
          New,            \* the task an addUri creates
          UrgentCapacity, BulkCapacity, UrgentBurst

\* The methods of a client call; there are finitely many tasks.
Methods == {"pause", "unpause", "remove", "approveHostKey", "changePosition", "pauseAll", "unpauseAll",
            "purgeDownloadResult", "changeOption", "changeUri", "addUri", "importSession", "changeGlobalOption",
            "saveSession", "shutdown"}
ASSUME CallsAssumption == \A c \in DOMAIN Calls : Calls[c] \in [method : Methods, gid : Nat]
ASSUME TasksAssumption == IsFiniteSet(Known) /\ Known \cup {New} \subseteq Nat

VARIABLES todo,       \* calls not made yet
          mailbox,    \* Mailbox: the urgent and the bulk lane
          order,      \* ControlOrdering: the sequence and the cell of each captured task
          owner,      \* HttpControlPlane: the input in the engine and the continuations
          waiting,    \* PendingReplies of dispatched commands
          answers,    \* what each caller was told; "open" while its call is accepted and unanswered
          tasks,      \* where each task is
          catalog,    \* its specification in the task catalogue
          store,      \* and in the session database
          acted       \* the last sequence that acted on a task, and whether it was a bulk member

controlVars == <<todo, mailbox, order, owner, waiting, answers, tasks, catalog, store, acted>>

Gids == Known \cup {New}
BulkMember == 0        \* the token of the one bulk member under way; calls are 1, 2, ...
\* No call has the token of a bulk member, and the clients make calls there are.
ASSUME TokensAssumption == BulkMember \notin DOMAIN Calls /\ Scripts \subseteq SUBSET DOMAIN Calls
Spec0 == [srcs |-> {}, opts |-> {}]
is_task_control(m) == m \in {"pause", "unpause", "remove", "approveHostKey", "changePosition"}
\* The controls that decide where their task goes; a change of position has no identity to mark.
marks(m) == is_task_control(m) /\ m # "changePosition"
is_bulk_control(m) == m \in {"pauseAll", "unpauseAll", "purgeDownloadResult"}

\* bulk_definition: the queues a bulk control captures and what it does to a member.
bulk_classes(m) == CASE m = "pauseAll" -> {"waiting", "active"}
                     [] m = "unpauseAll" -> {"paused"}
                     [] m = "purgeDownloadResult" -> {"stopped"}
bulk_member(m) == CASE m = "pauseAll" -> "pause" [] m = "unpauseAll" -> "unpause"
                    [] m = "purgeDownloadResult" -> "removeDownloadResult"

\* coalesced_method: what a queued pause or remove becomes, if the two can be one.
coalesced_method(queued, incoming) ==
  CASE queued = "pause" /\ incoming \in {"pause", "remove"} -> Some(incoming)
    [] queued = "remove" /\ incoming = "remove" -> Some("remove")
    [] OTHER -> None

NewOwner == [input |-> None, mutation |-> None, bulk |-> None, sources |-> EmptyMap, restarts |-> {},
             admission |-> None, configuration |-> None, generation |-> 0, export |-> None,
             streak |-> 0, closing |-> FALSE, shutdown |-> FALSE, phase |-> "running"]
ControlInit ==
  /\ todo \in Scripts
  /\ mailbox = [urgent |-> << >>, bulk |-> << >>]
  /\ order = [sequence |-> 0, cells |-> EmptyMap]
  /\ owner = NewOwner /\ waiting = << >>
  /\ answers = [c \in DOMAIN Calls |-> None]
  /\ tasks \in [Gids -> {"waiting", "active", "paused", "stopped", "absent"}]
  /\ \A g \in Gids : tasks[g] = "absent" <=> g = New
  /\ \A g, h \in Known : g < h => tasks[g] # "stopped"
  /\ catalog = [g \in Gids |-> Spec0] /\ store = catalog
  /\ acted = [g \in Gids |-> [seq |-> 0, bulk |-> FALSE]]

----------------------------------------------------------------------------
\* Continuations and guards of the owner.
engine_idle(o) == ~Is(o.input)
fenced(o) == \/ Is(o.admission) /\ The(o.admission).stage \notin {"Preparing", "Ready"}
             \/ Is(o.mutation) /\ The(o.mutation).kind = "Import"
Free(o) == engine_idle(o) /\ ~Is(o.mutation) /\ ~fenced(o)

Resolve(ws, token, result) ==
  [i \in DOMAIN ws |-> IF ws[i].token = token THEN [ws[i] EXCEPT !.result = Some(result)] ELSE ws[i]]

\* The targets some capture still holds; a cell lives as long as one of them.
Captures(m, o) ==
  (UNION {ToSet(m.bulk[i].captured) : i \in DOMAIN m.bulk})
  \cup (IF Is(o.bulk) THEN ToSet(The(o.bulk).targets) ELSE {})
prune(ord, m, o) == [ord EXCEPT !.cells = Without(@, DOMAIN @ \ Captures(m, o))]
\* mark: only a task that a capture holds remembers its latest explicit control.
mark(ord, g, seq) ==
  IF g \in DOMAIN ord.cells /\ ord.cells[g] < seq THEN [ord EXCEPT !.cells[g] = seq] ELSE ord
\* capture, of the tasks in the order their queues hold them: a task that an
\* earlier capture still holds keeps its cell.
Bulked(m) == SetToSeqs({g \in Gids : tasks[g] \in bulk_classes(m)})
capture(ord, held) ==
  LET live == prune(ord, mailbox, owner)
  IN [live EXCEPT !.cells = [g \in DOMAIN @ \cup ToSet(held) |-> IF g \in DOMAIN @ THEN @[g] ELSE 0]]

\* The scheduler's verdict on a command (prepare_and_begin_command simulates it).
\* resume refuses a task whose sources are being replaced, and a task that
\* waits for a host key cannot have them replaced (transition.rs).
Accepts(what, g) ==
  CASE what = "pause" -> tasks[g] \in {"waiting", "active"}
    [] what \in {"unpause", "approveHostKey"} -> tasks[g] = "paused" /\ g \notin DOMAIN owner.sources
    [] what = "remove" -> tasks[g] \in {"waiting", "active", "paused"}
    [] what = "removeDownloadResult" -> tasks[g] = "stopped"
    [] OTHER -> tasks[g] \in {"waiting", "active", "paused"}
Result(what, g) ==
  CASE what \in {"pause"} -> "paused" [] what \in {"unpause", "approveHostKey"} -> "waiting"
    [] what = "remove" -> "stopped" [] what = "removeDownloadResult" -> "absent" [] OTHER -> tasks[g]

Begin(o, what, g, spec) == [o EXCEPT !.input = Some([what |-> what, gid |-> g, spec |-> spec])]

----------------------------------------------------------------------------
\* ControlRuntime::admit.  Shutdown is out of band: it closes admission and is answered at once.
Answer(c, r) == answers' = [answers EXCEPT ![c] = Some(r)]
LastFor(q, g) == LET at == {i \in DOMAIN q : q[i].target \in {None, Some(g)}} IN IF at = {} THEN 0 ELSE Max(at)

\* Credits of a lane: a command keeps its slot from its admission to its last reply.
slots(urgent) == Len(IF urgent THEN mailbox.urgent ELSE mailbox.bulk)
                 + Cardinality({i \in DOMAIN waiting : waiting[i].urgent = urgent})

\* A queued control takes in a later one of the same task, with its caller and its sequence.
Merged(e, method, seq, c) ==
  [e EXCEPT !.method = The(coalesced_method(e.method, method)), !.seq = seq, !.callers = Append(@, c)]

admit(c) ==
  \E held \in IF is_bulk_control(Calls[c].method) THEN Bulked(Calls[c].method) ELSE {<< >>} :
  LET call == Calls[c]
      seq == order.sequence + 1
      urgent == is_task_control(call.method)
      target == IF urgent /\ call.gid \in Gids THEN Some(call.gid) ELSE None
      env == [method |-> call.method, gid |-> call.gid, seq |-> seq, callers |-> <<c>>,
              target |-> target, captured |-> held]
      last == LastFor(mailbox.urgent, call.gid)
      merges == /\ call.method \in {"pause", "remove"} /\ last # 0
                /\ mailbox.urgent[last].target = target
                /\ Is(coalesced_method(mailbox.urgent[last].method, call.method))
      full == IF urgent THEN slots(TRUE) >= UrgentCapacity ELSE slots(FALSE) >= BulkCapacity
  IN /\ c \in todo /\ todo' = todo \ {c} /\ owner.phase # "dropped"
     /\ IF call.method = "shutdown"
        THEN /\ owner' = [owner EXCEPT !.closing = TRUE] /\ Answer(c, "ok") /\ UNCHANGED <<mailbox, order>>
        ELSE IF owner.closing THEN Answer(c, "Busy") /\ UNCHANGED <<mailbox, order, owner>>
        ELSE /\ UNCHANGED owner
             /\ order' = [(IF is_bulk_control(call.method) THEN capture(order, held) ELSE order) EXCEPT !.sequence = seq]
             /\ IF merges
                THEN /\ mailbox' = [mailbox EXCEPT !.urgent[last] = Merged(mailbox.urgent[last], call.method, seq, c)]
                     /\ Answer(c, "open")
                ELSE IF full THEN Answer(c, "Busy") /\ UNCHANGED mailbox
                ELSE /\ mailbox' = IF urgent THEN [mailbox EXCEPT !.urgent = Append(@, env)]
                                   ELSE [mailbox EXCEPT !.bulk = Append(@, env)]
                     /\ Answer(c, "open")
     /\ UNCHANGED <<waiting, tasks, catalog, store, acted>>

----------------------------------------------------------------------------
\* begin_task_control_ordered: the command goes to the engine and its
\* publication waits; an explicit one marks its task, if it decides where it goes.
begin_task_control(o, ord, token, what, g, seq, explicit) ==
  IF ~Free(o) \/ ~Accepts(what, g) THEN [owner |-> o, order |-> ord, err |-> TRUE]
  ELSE LET pinned == [catalog[g] EXCEPT !.opts = @ \cup {token}]
       IN [owner |-> [Begin(o, what, g, IF what = "approveHostKey" THEN pinned ELSE catalog[g]) EXCEPT
                        !.mutation = Some([kind |-> "Control", token |-> token, gid |-> g,
                                           readmit |-> what \in {"unpause", "approveHostKey"},
                                           replacement |-> IF what = "approveHostKey" THEN Some(pinned) ELSE None])],
           order |-> IF explicit /\ marks(what) THEN mark(ord, g, seq) ELSE ord, err |-> FALSE]

\* begin_change_option and prepare_source_replacement: refused while another
\* change of the same task is under way.
\* Mutant: a change of options under way is not noticed.
OnlySourcesBlock(o, g) == g \notin o.restarts
Unchanged(o, g) == g \notin DOMAIN o.sources /\ g \notin o.restarts
begin_change_option(o, token, g) ==
  LET spec == [catalog[g] EXCEPT !.opts = @ \cup {token}]
      restart == tasks[g] = "active"
  IN [Begin(o, IF restart THEN "restart" ELSE "patch", g, spec) EXCEPT
        !.restarts = IF restart THEN @ \cup {g} ELSE @,
        !.mutation = Some([kind |-> "Options", token |-> token, gid |-> g, readmit |-> FALSE,
                           replacement |-> Some(spec)])]
begin_source_plan(o, token, g) ==
  [Begin(o, "begin_sources", g, catalog[g]) EXCEPT
     !.sources = Put(@, g, [token |-> token, committing |-> FALSE,
                            replacement |-> [catalog[g] EXCEPT !.srcs = {token}]])]

\* One command of the owner: what a dispatched envelope starts, or why not.
Refused(o, why) == [owner |-> o, order |-> order, ready |-> Some(why)]
Started(o) == [owner |-> o, order |-> order, ready |-> None]
begin_call(o, env) ==
  LET m == env.method g == env.gid token == env.callers[1]
  IN CASE is_bulk_control(m) ->
            IF Is(o.bulk) THEN Refused(o, "Busy")
            ELSE Started([o EXCEPT !.bulk = Some([token |-> token, what |-> bulk_member(m), seq |-> env.seq,
                                                  targets |-> env.captured, member |-> None])])
       [] is_task_control(m) ->
            LET r == begin_task_control(o, order, token, m, g, env.seq, TRUE)
            IN [owner |-> r.owner, order |-> r.order, ready |-> IF r.err THEN Some("err") ELSE None]
       [] m = "changeOption" ->
            IF ~Unchanged(o, g) THEN Refused(o, "Busy")
            ELSE IF ~Accepts(m, g) THEN Refused(o, "err") ELSE Started(begin_change_option(o, token, g))
       [] m = "changeUri" ->
            IF ~Unchanged(o, g) THEN Refused(o, "Busy")
            ELSE IF ~Accepts(m, g) THEN Refused(o, "err") ELSE Started(begin_source_plan(o, token, g))
       [] m \in {"addUri", "importSession"} ->
            IF Is(o.admission) \/ Is(o.configuration) \/ (m = "importSession" /\ o.sources # EmptyMap)
            THEN Refused(o, "Busy")
            ELSE Started([o EXCEPT !.admission = Some([stage |-> "Preparing", token |-> token,
                                                       import |-> m = "importSession"])])
       [] m = "changeGlobalOption" ->
            IF Is(o.admission) \/ Is(o.configuration) THEN Refused(o, "Busy")
            ELSE Started([o EXCEPT !.configuration = Some([token |-> token, previous |-> o.generation])])
       [] m = "saveSession" ->
            IF Is(o.export) \/ o.sources # EmptyMap THEN Refused(o, "Busy")
            ELSE Started([o EXCEPT !.export = Some([token |-> token, captured |-> catalog, stored |-> store])])

\* complete_source_replacements: the first whose task has let its slot go.
ReadySources(o) == {g \in DOMAIN o.sources : tasks[g] # "active" /\ ~o.sources[g].committing}

\* progress: which mailbox is served, after the steps of the turn that come first.
Preparing(o) == Is(o.admission) \/ Is(o.configuration)
bulk_ready == Is(owner.bulk) \/ (~Preparing(owner) /\ mailbox.bulk # << >>)
TakesUrgent == mailbox.urgent # << >> /\ (owner.streak < UrgentBurst \/ ~bulk_ready)
TakesBulk == ~TakesUrgent /\ ~Is(owner.bulk) /\ ~Preparing(owner) /\ mailbox.bulk # << >>
Turn == owner.phase = "running" /\ Free(owner)

dispatch ==
  /\ Turn /\ (TakesUrgent \/ TakesBulk)
  /\ LET env == IF TakesUrgent THEN Head(mailbox.urgent) ELSE Head(mailbox.bulk)
         rest == IF TakesUrgent THEN [mailbox EXCEPT !.urgent = Tail(@)] ELSE [mailbox EXCEPT !.bulk = Tail(@)]
         r == begin_call(owner, env)
     IN /\ mailbox' = rest
        /\ owner' = [r.owner EXCEPT !.streak = IF TakesUrgent THEN (IF @ < UrgentBurst THEN @ + 1 ELSE @) ELSE 0]
        /\ order' = prune(r.order, rest, r.owner)
        /\ waiting' = Append(waiting, [token |-> env.callers[1], result |-> r.ready, callers |-> env.callers,
                                     urgent |-> is_task_control(env.method)])
        /\ acted' = IF marks(env.method) /\ ~Is(r.ready)
                    THEN [acted EXCEPT ![env.gid] = [seq |-> env.seq, bulk |-> FALSE]] ELSE acted
  /\ UNCHANGED <<todo, answers, tasks, catalog, store>>

\* PendingReplies::poll: one caller of a finished command.
deliver ==
  /\ owner.phase = "running"
  /\ \E i \in DOMAIN waiting :
       /\ Is(waiting[i].result)
       /\ Answer(Head(waiting[i].callers), The(waiting[i].result))
       /\ waiting' = IF Len(waiting[i].callers) = 1 THEN RemoveAt(waiting, i)
                     ELSE [waiting EXCEPT ![i].callers = Tail(@)]
  /\ UNCHANGED <<todo, mailbox, order, owner, tasks, catalog, store, acted>>

\* poll_bulk_control: the answer of the last member, or the next member.
\* Mutant: every captured member is acted on, whatever was asked for since.
BulkNeverSkips(b) == FALSE
Superseded(b) == LET g == Head(b.targets) IN tasks[g] = "absent" \/ order.cells[g] > b.seq
poll_bulk_control ==
  /\ Turn /\ Is(owner.bulk) /\ ~TakesUrgent
  /\ LET b == The(owner.bulk)
         r == begin_task_control(owner, order, BulkMember, b.what, Head(b.targets), b.seq, FALSE)
         Ended(result) == /\ waiting' = Resolve(waiting, b.token, result)
                          /\ owner' = [owner EXCEPT !.bulk = None, !.streak = 0] /\ UNCHANGED acted
         Advanced(o, member) == [o EXCEPT !.bulk = Some([b EXCEPT !.targets = Tail(@), !.member = member]), !.streak = 0]
     IN CASE b.member = Some("ok") -> /\ owner' = [owner EXCEPT !.bulk = Some([b EXCEPT !.member = None])]
                                      /\ UNCHANGED <<waiting, acted>>
          [] b.member = Some("err") -> Ended("err")
          [] OTHER ->
               IF b.targets = << >> THEN Ended("ok")
               ELSE IF Superseded(b) THEN owner' = Advanced(owner, None) /\ UNCHANGED <<waiting, acted>>
               ELSE IF r.err THEN Ended("err")
               ELSE /\ owner' = Advanced(r.owner, Some("waiting")) /\ UNCHANGED waiting
                    /\ acted' = [acted EXCEPT ![Head(b.targets)] = [seq |-> b.seq, bulk |-> TRUE]]
  /\ order' = prune(order, mailbox, owner')
  /\ UNCHANGED <<todo, mailbox, answers, tasks, catalog, store>>

\* Mutant: the caller of a replacement whose task is gone is not told.
SourcesForgotten ==
  /\ Turn /\ \E g \in ReadySources(owner) :
       owner' = IF tasks[g] \in {"stopped", "absent"} THEN [owner EXCEPT !.sources = Without(@, {g})]
                ELSE [Begin(owner, "commit_sources", g, owner.sources[g].replacement) EXCEPT !.sources[g].committing = TRUE]
  /\ UNCHANGED <<todo, mailbox, order, waiting, answers, tasks, catalog, store, acted>>
complete_source_replacements ==
  /\ Turn /\ \E g \in ReadySources(owner) :
       IF tasks[g] \in {"stopped", "absent"}
       THEN /\ waiting' = Resolve(waiting, owner.sources[g].token, "err")
            /\ owner' = [owner EXCEPT !.sources = Without(@, {g})]
       ELSE /\ owner' = [Begin(owner, "commit_sources", g, owner.sources[g].replacement) EXCEPT
                           !.sources[g].committing = TRUE]
            /\ UNCHANGED waiting
  /\ UNCHANGED <<todo, mailbox, order, answers, tasks, catalog, store, acted>>

\* try_admit_one, and an event of a worker: inputs nobody waits for.
AdmitInput(o) == \E g \in Gids : /\ tasks[g] = "waiting" /\ g \notin DOMAIN o.sources
                                 /\ ~o.shutdown /\ ~Is(o.configuration)
                                 /\ owner' = Begin(o, "admit", g, catalog[g])
try_admit_one == /\ Turn /\ ReadySources(owner) = {} /\ AdmitInput(owner)
                 /\ UNCHANGED <<todo, mailbox, order, waiting, answers, tasks, catalog, store, acted>>
\* A worker ends by itself, or has let go of a slot that a change of its task asked for.
poll_event == /\ Turn /\ \E g \in Gids : tasks[g] = "active"
                         /\ owner' = Begin(owner, IF g \in DOMAIN owner.sources \cup owner.restarts THEN "drained" ELSE "finished", g, catalog[g])
              /\ UNCHANGED <<todo, mailbox, order, waiting, answers, tasks, catalog, store, acted>>

----------------------------------------------------------------------------
\* poll_engine_step when the input has been carried out: the database has it,
\* the scheduler has it, and the pending mutation is published.
Moved(in) == CASE in.what \in {"admit"} -> "active" [] in.what = "drained" -> "waiting"
               [] in.what = "finished" -> "stopped" [] in.what = "add" -> "waiting" [] OTHER -> Result(in.what, in.gid)
Stored(in) == CASE in.what \in {"patch", "restart", "approveHostKey"} -> [store[in.gid] EXCEPT !.opts = in.spec.opts]
                [] in.what = "commit_sources" -> [store[in.gid] EXCEPT !.srcs = in.spec.srcs]
                [] OTHER -> store[in.gid]

\* finish_pending_mutation: the catalogue, then a readmission that the caller
\* waits for, then the reply.
Published(cat, m) == IF Is(m.replacement) THEN [cat EXCEPT ![m.gid] = The(m.replacement)] ELSE cat
Replied(o, ws, m) ==
  IF m.token \in DOMAIN Calls THEN [owner |-> [o EXCEPT !.mutation = None], waiting |-> Resolve(ws, m.token, "ok")]
  ELSE [owner |-> [o EXCEPT !.mutation = None, !.bulk = Some([The(@) EXCEPT !.member = Some("ok")])], waiting |-> ws]

\* publish_committed_sources: the whole replacement becomes the task's specification.
Committed(o) == {g \in DOMAIN o.sources : o.sources[g].committing}
publish_committed_sources(o, cat, ws) ==
  LET g == CHOOSE x \in Committed(o) : TRUE
  IN IF Committed(o) = {} THEN [owner |-> o, catalog |-> cat, waiting |-> ws]
     ELSE [owner |-> [o EXCEPT !.sources = Without(@, {g})],
           catalog |-> [cat EXCEPT ![g] = o.sources[g].replacement],
           waiting |-> Resolve(ws, o.sources[g].token, "ok")]

finish_input ==
  /\ owner.phase = "running" /\ Is(owner.input)
  /\ LET in == The(owner.input)
         retired == IF in.what \in {"admit", "finished"} \/ Moved(in) \in {"stopped", "absent"} THEN {in.gid} ELSE {}
         done == [owner EXCEPT !.input = None, !.restarts = @ \ retired]
         m == The(owner.mutation)
         cat == IF Is(owner.mutation) THEN Published(catalog, m) ELSE catalog
         r == IF Is(owner.mutation) THEN Replied(done, waiting, m) ELSE [owner |-> done, waiting |-> waiting]
         p == publish_committed_sources(r.owner, cat, r.waiting)
     IN /\ tasks' = [tasks EXCEPT ![in.gid] = Moved(in)]
        /\ store' = [store EXCEPT ![in.gid] = Stored(in)]
        /\ IF /\ Is(owner.mutation) /\ m.readmit /\ tasks'[m.gid] = "waiting"
              /\ m.gid \notin DOMAIN done.sources /\ ~done.shutdown /\ ~Is(done.configuration)
           THEN /\ owner' = Begin([done EXCEPT !.mutation = Some([m EXCEPT !.readmit = FALSE, !.replacement = None])],
                                  "admit", m.gid, cat[m.gid])
                /\ catalog' = cat /\ UNCHANGED waiting
           ELSE owner' = p.owner /\ catalog' = p.catalog /\ waiting' = p.waiting
  /\ UNCHANGED <<todo, mailbox, order, answers, acted>>

\* An accepted write whose outcome is uncertain, or a faulted engine: the
\* mutation is answered, and the runtime closes.
engine_fails ==
  /\ owner.phase = "running" /\ Is(owner.input)
  /\ owner' = [owner EXCEPT !.phase = "failed", !.closing = TRUE, !.mutation = None]
  /\ waiting' = IF Is(owner.mutation) /\ The(owner.mutation).token \in DOMAIN Calls
                THEN Resolve(waiting, The(owner.mutation).token, "err") ELSE waiting
  /\ UNCHANGED <<todo, mailbox, order, answers, tasks, catalog, store, acted>>

\* reject_queued: every command dispatched or queued is answered with the failure.
reject_queued ==
  /\ owner.phase = "failed"
  /\ IF waiting # << >>
     THEN /\ answers' = [c \in DOMAIN Calls |-> IF c \in ToSet(Head(waiting).callers) THEN Some("err") ELSE answers[c]]
          /\ waiting' = Tail(waiting) /\ UNCHANGED <<mailbox, owner>>
     ELSE LET q == mailbox.urgent \o mailbox.bulk
          IN IF q = << >> THEN owner' = [owner EXCEPT !.phase = "stopped"] /\ UNCHANGED <<answers, waiting, mailbox>>
             ELSE /\ waiting' = <<[token |-> Head(q).callers[1], result |-> Some("err"), callers |-> Head(q).callers,
                                  urgent |-> FALSE]>>
                  /\ mailbox' = IF mailbox.urgent # << >> THEN [mailbox EXCEPT !.urgent = Tail(@)]
                                ELSE [mailbox EXCEPT !.bulk = Tail(@)]
                  /\ UNCHANGED <<answers, owner>>
  /\ UNCHANGED <<todo, order, tasks, catalog, store, acted>>

----------------------------------------------------------------------------
\* poll_admission_stage: preparation and finalization run on the CPU pool;
\* from the revalidation on nothing else may change the queues.
NextStage == [Preparing |-> "Ready", Ready |-> "Revalidating", Revalidating |-> "Finalizing", Finalizing |-> "Installing"]
poll_admission ==
  /\ owner.phase = "running" /\ Is(owner.admission) /\ engine_idle(owner)
  /\ LET a == The(owner.admission)
     IN /\ a.stage = "Ready" => ~Is(owner.mutation) /\ owner.sources = EmptyMap
        /\ IF a.stage = "Installing"
           THEN owner' = [Begin(owner, "add", New, catalog[New]) EXCEPT !.admission = None,
                            !.mutation = Some([kind |-> IF a.import THEN "Import" ELSE "Admission", token |-> a.token,
                                               gid |-> New, readmit |-> ~a.import, replacement |-> None])]
                /\ UNCHANGED waiting
           ELSE IF a.stage = "Ready" /\ tasks[New] # "absent"      \* the identity is taken, or there is no room
           THEN owner' = [owner EXCEPT !.admission = None] /\ waiting' = Resolve(waiting, a.token, "err")
           ELSE owner' = [owner EXCEPT !.admission = Some([a EXCEPT !.stage = NextStage[a.stage]])] /\ UNCHANGED waiting
  /\ UNCHANGED <<todo, mailbox, order, answers, tasks, catalog, store, acted>>

\* A preparation that fails answers its caller; once a journal is being
\* installed it takes the owner with it.
admission_fails ==
  /\ owner.phase = "running" /\ Is(owner.admission)
  /\ LET a == The(owner.admission)
     IN /\ owner' = [owner EXCEPT !.admission = None, !.phase = IF a.stage = "Installing" THEN "failed" ELSE @,
                                  !.closing = @ \/ a.stage = "Installing"]
        /\ waiting' = Resolve(waiting, a.token, "err")
  /\ UNCHANGED <<todo, mailbox, order, answers, tasks, catalog, store, acted>>

poll_configuration ==
  /\ Turn /\ Is(owner.configuration)
  /\ \E valid \in BOOLEAN :
       LET stale == owner.generation # The(owner.configuration).previous
       IN /\ waiting' = Resolve(waiting, The(owner.configuration).token, IF valid /\ ~stale THEN "ok" ELSE "err")
          /\ owner' = [owner EXCEPT !.configuration = None,
                                    !.generation = IF valid /\ ~stale THEN The(owner.configuration).previous + 1 ELSE @]
  /\ UNCHANGED <<todo, mailbox, order, answers, tasks, catalog, store, acted>>

poll_session_export ==
  /\ owner.phase = "running" /\ Is(owner.export)
  /\ \E ok \in BOOLEAN : waiting' = Resolve(waiting, The(owner.export).token, IF ok THEN "ok" ELSE "err")
  /\ owner' = [owner EXCEPT !.export = None]
  /\ UNCHANGED <<todo, mailbox, order, answers, tasks, catalog, store, acted>>

\* run: the owner learns of the shutdown; drain: once no slot is taken, or at
\* the deadline, the task of the runtime ends and drops the replies it holds.
observe_closing ==
  /\ owner.phase = "running" /\ owner.closing /\ ~owner.shutdown /\ owner' = [owner EXCEPT !.shutdown = TRUE]
  /\ UNCHANGED <<todo, mailbox, order, waiting, answers, tasks, catalog, store, acted>>
drain ==
  /\ owner.closing /\ owner.phase \in {"running", "stopped"}
  /\ answers' = [c \in DOMAIN Calls |->
       IF c \in (UNION {ToSet(waiting[i].callers) : i \in DOMAIN waiting})
             \cup (UNION {ToSet((mailbox.urgent \o mailbox.bulk)[i].callers) : i \in DOMAIN (mailbox.urgent \o mailbox.bulk)})
       THEN Some("err") ELSE answers[c]]
  /\ owner' = [owner EXCEPT !.phase = "dropped"] /\ waiting' = << >>
  /\ mailbox' = [urgent |-> << >>, bulk |-> << >>]
  /\ UNCHANGED <<todo, order, tasks, catalog, store, acted>>

OwnerSteps == \/ dispatch \/ deliver \/ poll_bulk_control \/ complete_source_replacements
              \/ try_admit_one \/ poll_event \/ finish_input
              \/ poll_admission \/ poll_configuration \/ poll_session_export \/ observe_closing
ControlNext == \/ \E c \in DOMAIN Calls : admit(c)
               \/ OwnerSteps \/ engine_fails \/ reject_queued \/ admission_fails \/ drain
ControlSpec == ControlInit /\ [][ControlNext]_controlVars
----------------------------------------------------------------------------
\* Every call that was accepted is answered once, whatever it was merged with:
\* it is queued, dispatched or answered, and while the result of a dispatched
\* command is open exactly one continuation of the owner carries its token, to
\* the end, a refusal, a failure of the owner or a shutdown (control_runtime.rs
\* run, reject_queued, drain; the Pending* structures of http_control.rs).
Carriers(t) ==
  Cardinality({k \in {"mutation", "bulk", "admission", "configuration", "export"} : Is(owner[k]) /\ The(owner[k]).token = t}
              \cup {g \in DOMAIN owner.sources : owner.sources[g].token = t})
Places(c) ==
  LET Holding(q) == {i \in DOMAIN q : c \in ToSet(q[i].callers)}
  IN Cardinality(Holding(waiting)) + Cardinality(Holding(mailbox.urgent)) + Cardinality(Holding(mailbox.bulk))
RepliesHeld ==
  /\ \A c \in DOMAIN Calls : Places(c) = (IF answers[c] = Some("open") THEN 1 ELSE 0)
  /\ owner.phase = "running" => \A i \in DOMAIN waiting :
       Carriers(waiting[i].token) = (IF Is(waiting[i].result) THEN 0 ELSE 1)
\* Between two inputs the catalogue the workers start from says what the
\* database says: of two changes of one task, neither is built on a
\* specification from before the other.  What an export captures is such a state.
CatalogMatchesStore ==
  /\ engine_idle(owner) /\ owner.phase = "running" => catalog = store
  /\ Is(owner.export) => The(owner.export).captured = The(owner.export).stored

\* A member of a bulk control is acted on only if no pause, unpause, removal or
\* approval of the same task that was accepted later has been carried out
\* before it (control_ops.rs mark, poll_bulk_control).  A later changePosition
\* does not hold it back: it says nothing of whether the task runs.
LaterControlsWin ==
  [][\A g \in Gids : acted'[g] # acted[g] /\ acted'[g].bulk => acted[g].seq < acted'[g].seq]_controlVars
=================================================================================
