------------------------------ MODULE RangeTransfer ------------------------------
(***************************************************************************)
(* run_ranges (http_multi.rs): one owner assigns ranges of a file to       *)
(* attempts, each its own task, which answer through a bounded FIFO        *)
(* channel and end in a join set.  The owner polls the coordinator until   *)
(* it is saturated, then takes one event or, when it saw no event, one     *)
(* join.  Every unit of the file is written with the number of the lease   *)
(* that wrote it.  A run that ends waiting is readmitted in the next       *)
(* generation with the retries its journal kept.                           *)
(***************************************************************************)
EXTENDS StorageEngine, HttpRange

CONSTANTS Policies,        \* the retry policies a task may have
          HeadCauses,      \* how an attempt at a source may fail before its body, see is_retriable
          BodyCauses,      \* and how while its body arrives
          EventCapacity,   \* event_capacity
          MaxRuns

VARIABLES policy,   \* the task's retry policy
          w,        \* what the owner keeps: see NewWorker
          tasks,    \* lease -> the attempt, until it is joined: see Spawn
          events,   \* the channel
          now,      \* elapsed_ms, in retry waits
          phase,    \* "poll", "select", "joins" or "ended"
          runs,     \* runs of this task so far
          raced     \* a join was taken while an event of its attempt was queued

transferVars == <<policy, w, tasks, events, now, phase, runs, raced>>

TransferOptions == [manifest |-> None, pin |-> None]
NewWorker(store, range, budgets) ==
  [range |-> range, store |-> store, budgets |-> budgets, active |-> EmptyMap,
   pending |-> EmptyMap, losers |-> EmptyMap, cancelled |-> {}, handles |-> {},
   abort |-> {}, reply |-> EmptyMap, out |-> "", refresh |-> FALSE]

\* The first error leaves the loop.
Goes(x) == IF x.out = "" THEN "poll" ELSE "leaving"
Leave(x, why) == IF x.out = "" THEN [x EXCEPT !.out = why] ELSE x
Stored(x, e) == IF e.err = OK THEN [x EXCEPT !.store = FinishCommit(e)] ELSE Leave(x, "Storage")
Ranged(x, c) == IF c.err THEN Leave(x, "Coordinator") ELSE [x EXCEPT !.range = c]
Rolled(e) == {a \in e.acks : a[1] = "SpanRolledBack"} # {}
MadeDurable(e) == {a \in e.acks : a[1] = "PieceDurable"} # {}

PieceSpan(p) == piece_span(Layout, p)
Budget(x, p) == IF p \in DOMAIN x.budgets THEN x.budgets[p] ELSE NewBudget(policy)

----------------------------------------------------------------------------
\* Retries across runs.
PieceKey(p) == <<"Piece", p + 1>>
SpanKey(p, s) == <<"Span", (p + 1) * 10 + s>>

\* recover_range_retries_at: a piece with its attempts by source.
RetriedPieces(m) == {p \in RangePieces : \/ PieceKey(p) \in DOMAIN m.retries
                                         \/ \E s \in DOMAIN Sources : SpanKey(p, s) \in DOMAIN m.retries}
RecoveredBy(m, p) == [s \in {t \in DOMAIN Sources : SpanKey(p, t) \in DOMAIN m.retries} |-> m.retries[SpanKey(p, s)]]
RecoveredAttempts(m, p) == IF PieceKey(p) \in DOMAIN m.retries THEN m.retries[PieceKey(p)] ELSE 0
recover_range_retries(m) ==
  \A p \in RetriedPieces(m) : ValidAttempts(policy, RecoveredAttempts(m, p), RecoveredBy(m, p))

\* Durable pieces need no budget any more.
restore_range_retry_budgets(m, wait) ==
  LET ps == RetriedPieces(m) \ DOMAIN m.durable
      Sourced(c, p) == FoldSet(LAMBDA s, x : restore_source_piece_retry(x, p, s, RecoveredBy(m, p)[s], wait),
                               restore_piece_attempts(c, p, RecoveredAttempts(m, p)), DOMAIN RecoveredBy(m, p))
  IN [range |-> FoldSet(LAMBDA p, c : Sourced(c, p), restore_durable(NewRange, DOMAIN m.durable), ps),
      budgets |-> [p \in ps |-> restore_attempts(NewBudget(policy), RecoveredAttempts(m, p), RecoveredBy(m, p))]]

persist_range_retry_state(e, a, budget, delay) ==
  IF delay = 0 THEN e
  ELSE record_retry_state(record_retry_state(e, PieceKey(a.piece), budget.attempts),
                          SpanKey(a.piece, a.source), attempts_for_mirror(budget, a.source))

----------------------------------------------------------------------------
\* The loser of a race is still listened to.
GoneButLosers(x, l) == l \in x.cancelled \/ l \notin DOMAIN x.active
\* The owner's handling of what an attempt sends (process_attempt_event).
Gone(x, l) == l \in DOMAIN x.losers \/ l \in x.cancelled \/ l \notin DOMAIN x.active
Reply(x, l, answer) == [x EXCEPT !.reply = Put(@, l, answer)]

PeersOf(x, l) == {k \in DOMAIN x.active \ {l} : Is(x.active[l].group) /\ x.active[k].group = x.active[l].group}
DigestRefused(x, l, digest) ==
  \E k \in PeersOf(x, l) : /\ x.active[k].source # x.active[l].source
                           /\ (~Is(digest) \/ x.active[k].digest # digest)

OpenedWith(x, l, digest, e) ==
  IF e.err # OK THEN Leave(x, "Storage")
  ELSE Reply([x EXCEPT !.store = e, !.active[l].opened = TRUE, !.active[l].digest = digest], l, <<"ok">>)
OnHead(x, l, digest) ==
  LET a == x.active[l]
  IN IF Gone(x, l) THEN Reply(x, l, <<"final", "cancelled">>)
     ELSE IF a.opened \/ (Is(a.group) /\ PeersOf(x, l) = {}) THEN Leave(x, "Protocol")
     ELSE IF DigestRefused(x, l, digest) THEN Reply(x, l, <<"final", "checksum">>)
     ELSE OpenedWith(x, l, digest,
            begin_lease(x.store, [lease |-> l, span |-> PieceSpan(a.piece), validator |-> "v", group |-> a.group]))

OnChunk(x, l) ==
  LET a == x.active[l]
      e == write_block(x.store, l, l, TRUE)
  IN IF Gone(x, l) THEN x
     ELSE IF ~a.opened \/ a.received >= PieceSpan(a.piece).len THEN Leave(x, "Protocol")
     ELSE Stored([x EXCEPT !.active[l].received = @ + 1], e)

\* The first of two racing leases to finish: its commit waits until the
\* other one is stopped and settled.
Fence(x, l, a) ==
  LET c == begin_overlap_commit(x.range, l)
      competitor == Competitor(x.range.pieces[a.piece], l)
  IN IF c.err THEN Leave(x, "Coordinator")
     ELSE IF competitor \in DOMAIN x.losers \/ The(a.group) \in DOMAIN x.pending THEN Leave(x, "Protocol")
     ELSE [x EXCEPT !.range = c, !.losers = Put(@, competitor, The(a.group)),
                    !.pending = Put(@, The(a.group), [lease |-> l, competitor |-> competitor]),
                    !.abort = {competitor}]

FinishedWith(done, l, a) ==
  IF done.out # "" THEN done
  ELSE IF <<"LeaseCommitPending", l>> \in done.store.acks THEN Fence(done, l, a)
  ELSE IF ~MadeDurable(done.store) THEN Leave(done, "Protocol")
  ELSE Ranged(done, complete(done.range, l))
OnFinished(x, l) ==
  LET a == x.active[l]
      taken == [x EXCEPT !.active = Without(@, {l})]
  IN IF ~a.opened \/ a.received # PieceSpan(a.piece).len THEN Leave(taken, "Protocol")
     ELSE FinishedWith(Stored(taken, commit_lease(x.store, l, "v")), l, a)

record_coordinator_failure(x, l, a, failure, released) ==
  Ranged(x, IF released THEN record_released_failure(x.range, a.piece, a.source, failure)
            ELSE fail(x.range, l, failure))

StaleOutcome == [fail |-> "Stale", restart |-> "RepresentationRestart", revalidate |-> ""]
apply_attempt_failure(x, l, a, cause, released) ==
  LET budget == Budget(x, a.piece)
      decision == decide_after_failure(budget, a.source, cause, now, None, 0)
      Failed(y, failure) == record_coordinator_failure(y, l, a, failure, released)
  IN CASE cause = <<"final", "cancelled">> -> Leave(x, "Cancelled")
       [] cause[1] = "protocol" /\ ~cause[3] -> Leave(x, "Transfer")
       [] cause = <<"final", "stale">> ->
            [Leave(Failed(x, RetryAt(now)), StaleOutcome[policy.stale]) EXCEPT !.refresh = policy.stale = "revalidate"]
       [] decision.stop = "" ->
            Failed([x EXCEPT !.store = persist_range_retry_state(@, a, budget, decision.delay)], RetryAt(now + decision.delay))
       [] decision.stop = "NonRetriable" -> Failed(x, DisableSource)
       [] decision.stop = "MirrorAttemptCap" -> Failed(x, RetryAt(now))
       [] OTHER -> Leave(Failed(x, RetryAt(now)), "Exhausted")

\* The lease's bytes are given up; when a racing lease had written too,
\* the span of both is.
ReleaseLease(e, l, a) ==
  IF a.opened THEN abort_lease(e, l)
  ELSE IF Is(a.group) THEN settle_unopened_overlap_member(e, The(a.group), l) ELSE Fresh(e)
\* The peer of a rolled back span is stopped with it.
Freed(stored, l, a, released) ==
  LET peer == Competitor(stored.range.pieces[a.piece], l)
  IN IF ~released THEN stored
     ELSE Ranged([stored EXCEPT !.active = Without(@, {peer}), !.cancelled = @ \cup {peer}, !.abort = {peer}],
                 range_rollback_overlap(stored.range, The(a.group)))
Ungrouped(failed, a, released) ==
  [failed EXCEPT !.active = [k \in DOMAIN @ |->
     IF ~released /\ failed.out = "" /\ ~failed.refresh /\ Is(a.group) /\ @[k].group = a.group
     THEN [@[k] EXCEPT !.group = None] ELSE @[k]]]
Charged(freed, l, a, cause, released) ==
  IF freed.out # "" THEN freed ELSE Ungrouped(apply_attempt_failure(freed, l, a, cause, released), a, released)
FailedWith(x, l, a, cause, e) ==
  LET released == a.opened /\ Rolled(e)
  IN Charged(Freed(Stored([x EXCEPT !.active = Without(@, {l})], e), l, a, released), l, a, cause, released)
OnFailed(x, l, cause) == FailedWith(x, l, x.active[l], cause, ReleaseLease(x.store, l, x.active[l]))

process_attempt_event(x, event) ==
  CASE event.kind = "Head" -> OnHead(x, event.lease, event.digest)
    [] event.kind = "Chunk" -> OnChunk(x, event.lease)
    [] event.kind = "Terminal" /\ Gone(x, event.lease) -> x
    [] event.kind = "Terminal" /\ event.cause = <<"ok">> -> OnFinished(x, event.lease)
    [] OTHER -> OnFailed(x, event.lease, event.cause)

\* The loser has stopped: its lease is aborted and the candidate's commit
\* goes ahead, unless the loser had written into the span.
SettledWith(stored, group, p) ==
  IF stored.out # "" THEN stored
  ELSE IF Rolled(stored.store) = MadeDurable(stored.store) THEN Leave(stored, "Protocol")
  ELSE Ranged(stored, settle_overlap(stored.range, group, p.lease, ~Rolled(stored.store)))
settle_endgame_loser(x, l, group) ==
  IF group \notin DOMAIN x.pending \/ x.pending[group].competitor # l \/ l \notin DOMAIN x.active THEN Leave(x, "Protocol")
  ELSE SettledWith(Stored([x EXCEPT !.pending = Without(@, {group}), !.losers = Without(@, {l}), !.active = Without(@, {l})],
                          IF x.active[l].opened THEN abort_lease(x.store, l) ELSE settle_unopened_overlap_member(x.store, group, l)),
                   group, x.pending[group])

----------------------------------------------------------------------------
\* finish_storage in the next generation; the units no sync reached stay.
Admitted(e, reason) ==
  LET next == append_payload(e, "OptionsSnapshot",
                [scope |-> "NextAdmission", patch |-> None, options |-> TransferOptions, hash |-> TransferOptions])
      bumped == append_payload([next EXCEPT !.gen = @ + 1], "GenerationStarted",
                  [previous |-> e.gen, reason |-> reason, patch |-> None, hash |-> TransferOptions])
  IN flush_journal(bumped)
Laid(e) ==
  LET laid == flush_journal(append_payload(e, "LayoutCommitted",
                [hash |-> LayoutHash(Layout), rootHash |-> RootHash(Layout), layout |-> Layout,
                 fileCount |-> Len(Layout.files), chunks |-> 1]))
  IN NewEngine(laid.sem, None, e.file, e.synced)
FirstAdmission ==
  LET new == NewEngine(NewMachine(FALSE, None), None, [u \in Units |-> Hole], [u \in Units |-> Hole])
  IN append_payload(append_payload(new, "TaskCreated", [durability |-> "Strict"]), "OptionsSnapshot",
       [scope |-> "CurrentGeneration", patch |-> None, options |-> TransferOptions, hash |-> TransferOptions])

TransferInit ==
  /\ policy \in Policies /\ w = NewWorker(Laid(FirstAdmission), NewRange, EmptyMap)
  /\ tasks = EmptyMap /\ events = << >> /\ now = 0 /\ phase = "poll" /\ runs = 1 /\ raced = FALSE

\* An attempt: its request, its answer, its body, each through the channel.
Send(l, event) == /\ Len(events) < EventCapacity /\ events' = Append(events, event @@ [lease |-> l])
Moved(l, at) == tasks' = [tasks EXCEPT ![l].at = at]
Unmoved == UNCHANGED <<policy, w, now, phase, runs, raced>>

Answered(l) ==
  /\ tasks[l].at = "request" /\ Moved(l, "headwait") /\ Unmoved
  /\ \E digest \in Sources[tasks[l].source].digests : Send(l, [kind |-> "Head", digest |-> digest])
SendChunk(l) ==
  /\ tasks[l].at = "reading" /\ tasks[l].left > 0 /\ Unmoved
  /\ Send(l, [kind |-> "Chunk"]) /\ tasks' = [tasks EXCEPT ![l].left = @ - 1]
Finish(l) ==
  /\ tasks[l].at = "reading" /\ tasks[l].left = 0 /\ Moved(l, "ended") /\ Unmoved
  /\ Send(l, [kind |-> "Terminal", cause |-> <<"ok">>])
GiveUp(l) ==
  /\ \/ tasks[l].at = "request" /\ \E c \in HeadCauses[tasks[l].source] : Send(l, [kind |-> "Terminal", cause |-> c])
     \/ tasks[l].at = "reading" /\ \E c \in BodyCauses : Send(l, [kind |-> "Terminal", cause |-> c])
     \/ tasks[l].at = "refused" /\ Send(l, [kind |-> "Terminal", cause |-> tasks[l].cause])
  /\ Moved(l, "ended") /\ Unmoved
\* An aborted task ends at one of its awaits; until then it goes on.
Die(l) ==
  /\ tasks[l].killed /\ tasks[l].at # "ended" /\ Moved(l, "ended") /\ UNCHANGED events /\ Unmoved
AttemptStep == phase # "ended" /\ \E l \in DOMAIN tasks : Answered(l) \/ SendChunk(l) \/ Finish(l) \/ GiveUp(l) \/ Die(l)

\* The loop of assignments; the budget counts what the coordinator counts.
Begin(c, l, x) ==
  LET a == c.active[l]
      b == Budget(x, a.piece)
  IN IF ~CanBegin(b, a.source) THEN Ranged(x, fail(c, l, RetryAt(now)))
     ELSE [x EXCEPT !.range = c, !.budgets = Put(@, a.piece, begin_attempt(b, a.source)),
                    !.handles = @ \cup {l},
                    !.active = Put(@, l, [source |-> a.source, piece |-> a.piece, group |-> a.group,
                                          digest |-> None, opened |-> FALSE, received |-> 0])]
Spawn(x, l) ==
  tasks' = IF l \in x.handles
           THEN Put(tasks, l, [at |-> "request", killed |-> FALSE, cause |-> << >>, source |-> x.active[l].source,
                               left |-> PieceSpan(x.active[l].piece).len])
           ELSE tasks
Assign ==
  /\ phase = "poll" /\ Completed(w.range) # RangePieces
  /\ \E a \in find_assignment(w.range, now) :
       LET x == Begin(issue_normal_assignment(w.range, a[1], a[2]), w.range.nextLease, w)
       IN w' = x /\ Spawn(x, w.range.nextLease) /\ phase' = Goes(x)
  /\ UNCHANGED <<policy, events, now, runs, raced>>

Eligible == {l \in DOMAIN w.active : w.active[l].opened /\ ~Is(w.active[l].group)}
\* Any opened original may have been silent for long enough.
AssignDuplicate ==
  /\ phase = "poll" /\ Completed(w.range) # RangePieces /\ find_assignment(w.range, now) = {}
  /\ \E a \in find_endgame_assignment(w.range, now, Eligible) :
       LET c == issue_endgame_assignment(w.range, a[1], a[2])
           l == w.range.nextLease
           group == The(c.active[l].group)
           x == Begin(c, l, w)
           e == register_overlap_group(w.store, group, a[1], l, PieceSpan(c.active[l].piece), "v")
           y == IF l \in x.handles THEN Stored([x EXCEPT !.active[a[1]].group = Some(group)], e) ELSE x
       IN w' = y /\ Spawn(y, l) /\ phase' = Goes(y)
  /\ UNCHANGED <<policy, events, now, runs, raced>>

\* Saturated, complete, exhausted, or nothing to do before a deadline.
Polled ==
  /\ phase = "poll"
  /\ \/ Completed(w.range) = RangePieces /\ w' = Leave(w, "Ok") /\ phase' = "leaving"
     \/ /\ Completed(w.range) # RangePieces /\ find_assignment(w.range, now) = {}
        /\ \/ DOMAIN w.range.active # {} /\ UNCHANGED w /\ phase' = "select"
           \/ /\ DOMAIN w.range.active = {} /\ ~Is(next_retry_deadline(w.range, now))
              /\ w' = Leave(w, "Exhausted") /\ phase' = "leaving"
           \/ /\ DOMAIN w.range.active = {} /\ Is(next_retry_deadline(w.range, now)) /\ w.active = EmptyMap
              /\ w' = Leave(w, "RetryWait") /\ phase' = "leaving"
  /\ UNCHANGED <<policy, tasks, events, now, runs, raced>>
\* A wait that keeps its slot, and the passing of time meanwhile.
Tick ==
  /\ phase = "joins" \/ (phase = "poll" /\ w.active = EmptyMap)
  /\ Is(next_retry_deadline(w.range, now)) /\ now' = now + 1
  /\ UNCHANGED <<policy, w, tasks, events, phase, runs, raced>>

\* The replies and aborts of a handled event reach the tasks.
Told(x) ==
  [l \in DOMAIN tasks |->
     IF l \in DOMAIN x.reply /\ tasks[l].at = "headwait"
     THEN [tasks[l] EXCEPT !.at = IF x.reply[l] = <<"ok">> THEN "reading" ELSE "refused", !.cause = x.reply[l]]
     ELSE IF l \in x.abort THEN [tasks[l] EXCEPT !.killed = TRUE] ELSE tasks[l]]
Settled(x) == [x EXCEPT !.reply = EmptyMap, !.abort = {}, !.refresh = FALSE, !.store.acks = {}]

TakeEvent ==
  /\ phase = "select" /\ events # << >> /\ events' = Tail(events)
  /\ \E x \in {process_attempt_event(w, Head(events))} :
     LET y == IF x.out = "" /\ ~x.refresh /\ ~(x.abort \subseteq x.handles) THEN Leave(x, "Protocol") ELSE x
     IN /\ \E fresh \in BOOLEAN :
             /\ fresh \/ x.refresh
             /\ LET z == IF fresh THEN y ELSE Leave(y, "Stale")
                IN w' = Settled(z) /\ phase' = Goes(z)
        /\ tasks' = Told(IF x.refresh THEN [x EXCEPT !.abort = {}] ELSE x)
  /\ UNCHANGED <<policy, now, runs, raced>>

\* recv was pending; an event sent from here on is seen after the joins.
SawNoEvent ==
  /\ phase = "select" /\ events = << >> /\ phase' = "joins"
  /\ UNCHANGED <<policy, w, tasks, events, now, runs, raced>>
Woken ==
  /\ phase = "joins" /\ events # << >> /\ phase' = "select"
  /\ UNCHANGED <<policy, w, tasks, events, now, runs, raced>>
Queued(l) == \E i \in DOMAIN events : events[i].lease = l
TakeJoin ==
  /\ phase = "joins"
  /\ \E l \in {k \in DOMAIN tasks : tasks[k].at = "ended"} :
       \E x \in {LET joined == [w EXCEPT !.handles = @ \ {l}, !.cancelled = @ \ {l}]
                 IN IF l \in w.cancelled \/ l \notin DOMAIN w.losers THEN joined
                    ELSE settle_endgame_loser(joined, l, w.losers[l])} :
          /\ w' = Settled(x) /\ tasks' = Without(tasks, {l}) /\ raced' = (raced \/ (Queued(l) /\ l \in DOMAIN w.active /\ l \notin DOMAIN w.losers))
          /\ phase' = Goes(x)
  /\ UNCHANGED <<policy, events, now, runs>>

Cancel ==
  /\ phase \in {"select", "joins"} /\ w' = Leave(w, "Cancelled") /\ phase' = "leaving"
  /\ UNCHANGED <<policy, tasks, events, now, runs, raced>>

\* A run that ends without giving its leases back.
AbortsNothing(e, l) == e
\* Every task is aborted and joined, the channel drained, and what is still
\* leased is aborted, candidates first.
AbortQuiet(e, l) == IF l \in DOMAIN e.active THEN FinishCommit(abort_lease(e, l)) ELSE e
EndRun ==
  /\ phase = "leaving" /\ phase' = "ended" /\ tasks' = EmptyMap /\ events' = << >>
  /\ LET candidates == {w.pending[g].lease : g \in DOMAIN w.pending}
         opened == {l \in DOMAIN w.active : w.active[l].opened}
         e == FoldLeft(AbortQuiet, w.store, SetToSortSeq(candidates, <) \o SetToSortSeq(opened, <))
         closed == IF w.out = "Ok" THEN complete_task(e) ELSE e
     IN w' = [w EXCEPT !.store = closed, !.active = EmptyMap, !.pending = EmptyMap, !.losers = EmptyMap,
                       !.out = IF closed.err = OK THEN @ ELSE "Storage"]
  /\ UNCHANGED <<policy, now, runs, raced>>

\* A wait that gave its slot back: the next generation takes up the retries
\* of the journal.  What is left of their waits depends on how long it took.
Readmit ==
  /\ phase = "ended" /\ w.out = "RetryWait" /\ runs < MaxRuns /\ runs' = runs + 1
  /\ LET e == Laid(Admitted(w.store, "RetryReadmission"))
     IN IF ~recover_range_retries(e.sem)
        THEN w' = Leave(NewWorker(e, NewRange, EmptyMap), "Retry") /\ UNCHANGED phase
        ELSE /\ \E wait \in 0 .. 1 : LET r == restore_range_retry_budgets(e.sem, wait)
                                    IN w' = NewWorker(e, r.range, r.budgets)
             /\ phase' = "poll"
  /\ now' = 0 /\ UNCHANGED <<policy, tasks, events, raced>>

OwnerStep == Assign \/ AssignDuplicate \/ Polled \/ TakeEvent \/ SawNoEvent \/ Woken \/ TakeJoin \/ EndRun
TransferNext == AttemptStep \/ OwnerStep \/ Tick \/ Cancel \/ Readmit
TransferSpec == TransferInit /\ [][TransferNext]_transferVars
----------------------------------------------------------------------------
Leases == 1 .. (PieceTotal * MaxTotalAttempts)
TransferTypeOK ==
  /\ phase \in {"poll", "select", "joins", "leaving", "ended"}
  /\ Len(events) <= EventCapacity /\ runs \in 1 .. MaxRuns
  /\ DOMAIN tasks \subseteq Leases /\ DOMAIN w.active \subseteq Leases
  /\ w.out \in {"", "Ok", "Cancelled", "Exhausted", "Protocol", "Storage", "Coordinator", "Stale",
                "RepresentationRestart", "RetryWait", "Retry", "Transfer"}

\* The three records of a lease, the coordinator's, the storage engine's and
\* the owner's own, agree whenever the owner is between two events: a lease
\* that is assigned is active or a waiting candidate, storage holds exactly
\* those that were opened, and racing pairs are the same everywhere.
Candidates == {w.pending[g].lease : g \in DOMAIN w.pending}
RecordsAgree ==
  phase \in {"poll", "select", "joins"} =>
    /\ DOMAIN w.range.active = DOMAIN w.active \cup Candidates
    /\ DOMAIN w.store.active = {l \in DOMAIN w.active : w.active[l].opened} \cup Candidates
    /\ DOMAIN w.store.groups = {The(w.range.active[l].group) : l \in {k \in DOMAIN w.range.active : Is(w.range.active[k].group)}}
    /\ \A l \in DOMAIN w.losers : w.losers[l] \in DOMAIN w.pending

\* A piece the coordinator calls durable is durable in the journal, the
\* other way round, and holds in the file what the lease that committed it
\* wrote: the loser of a race never leaves a byte in a committed piece.
DurableIsTheWinners ==
  phase # "ended" =>
    /\ Completed(w.range) = DOMAIN w.store.sem.durable
    /\ \A p \in DOMAIN w.store.sem.durable :
         w.store.sem.durable[p].digest = Some([i \in 1 .. PieceSpan(p).len |-> w.store.synced[PieceSpan(p).off + i - 1]])

\* However a run ends, the storage engine is left without leases and the
\* journal with nothing its replay would refuse.
RunEndsClean ==
  phase = "ended" => /\ w.store.active = EmptyMap /\ w.store.groups = EmptyMap /\ ~w.store.sem.bad
                     /\ w.out = "Ok" => w.store.sem.terminal = Some("Complete")

\* The owner, the coordinator and storage never contradict each other: a run
\* ends in an internal error only when it took a join before the terminal
\* event of the same attempt.
OnlyRacesConfuse == w.out \in {"Protocol", "Storage", "Coordinator"} => raced

\* The retry budget of a piece counts exactly the attempts the coordinator
\* counts, through restarts as well: the cap of the policy is the cap of
\* the transfer, and beginning an attempt is never refused.
BudgetsAgree ==
  phase # "ended" =>
    \A p \in RangePieces \ Completed(w.range) :
      /\ Budget(w, p).attempts = w.range.attempts[p]
      /\ \A s \in DOMAIN Sources : attempts_for_mirror(Budget(w, p), s) = w.range.bySource[<<p, s>>]

\* Retry decisions survive "released slots, slow-slot readmission and process
\* recovery": a later run can always take up the retries of the journal.
RetriesRecoverable == w.out # "Retry"

\* The owner waits only for something that will come: while it waits for an
\* event or a join, some attempt has not been joined yet, and a candidate of
\* a race waits only for a loser that is still to be joined.
OwnerNotStranded ==
  phase = "joins" => /\ events # << >> \/ DOMAIN tasks # {}
                     /\ \A l \in DOMAIN w.losers : l \in DOMAIN tasks

\* TransferTypeOK, RecordsAgree and BudgetsAgree: one view of every lease.
LeasesAgree == TransferTypeOK /\ RecordsAgree /\ BudgetsAgree
\* DurableIsTheWinners and RunEndsClean: what a run leaves behind.
RunsEndWhole == DurableIsTheWinners /\ RunEndsClean
\* OnlyRacesConfuse and OwnerNotStranded: the owner neither contradicts
\* itself nor waits for nobody.
OwnerNotConfused == OnlyRacesConfuse /\ OwnerNotStranded
=================================================================================
