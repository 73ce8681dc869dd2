----------------------------- MODULE RuntimeServices -----------------------------
(***************************************************************************)
(* Two services of the process.  RateArbiter (ariax-runtime/rate.rs): a    *)
(* stream spends from the buckets of its path, global, host, task and      *)
(* stream; what it cannot have at once it queues for, and whoever polls    *)
(* next dispatches for all.  ProcessShutdown (ariax-engine                 *)
(* process_bootstrap.rs over ariax-runtime/shutdown.rs): the ordered steps *)
(* by which a process stops, and the record of the session that says       *)
(* whether it stopped cleanly.  The two share nothing.                     *)
(***************************************************************************)
EXTENDS Maps, Integers, FiniteSetsExt, SequencesExt

CONSTANTS Streams,       \* the transfers that acquire
          Path,          \* [Streams -> set of scopes]; every path holds GlobalScope
          GlobalScope,
          Limits,        \* limits a scope may be given: 0 is unlimited, else bytes a tick and burst
          Quantum, MaxWaiters,
          MaxTicks, MaxAcquires, MaxChanges
\* Limits, bursts and the quantum are unsigned, and RatePath always has the
\* bucket of the process.
ASSUME RateAssumption ==
  /\ Limits \subseteq Nat /\ Quantum \in Nat
  /\ \A s \in Streams : GlobalScope \in Path[s]

VARIABLES rate,    \* RateArbiterState, the permits out, and the bytes that really went through
          stop     \* ProcessShutdown with its coordinator, and what it leaves behind

Unlimited(l) == l = 0
Scopes == {GlobalScope} \cup UNION {Path[s] : s \in Streams}
NewBucket(l) == [limit |-> l, tokens |-> l]
RateInit ==
  \E first \in [Scopes -> Limits] :
    rate = [buckets |-> [c \in Scopes |-> NewBucket(first[c])], suspended |-> FALSE,
            waiters |-> << >>, grants |-> EmptyMap, permits |-> EmptyMap,
            earned |-> first, sent |-> [c \in Scopes |-> 0], over |-> [c \in Scopes |-> 0],
            ticks |-> 0, acquires |-> 0, changes |-> 0]

\* Bucket::available, reserve, refund, and available_for over a path.
available(b) == IF Unlimited(b.limit) THEN Quantum ELSE IF b.tokens > 0 THEN b.tokens ELSE 0
available_for(r, s) == IF r.suspended THEN 0 ELSE Min({available(r.buckets[c]) : c \in Path[s]})
Least(a, b) == IF a < b THEN a ELSE b
reserve_bucket(b, n) == IF Unlimited(b.limit) THEN b ELSE [b EXCEPT !.tokens = @ - n]
refund_bucket(b, n) == IF Unlimited(b.limit) THEN b ELSE [b EXCEPT !.tokens = Least(@ + n, b.limit)]
Charged(r, s, n) ==
  [r EXCEPT !.buckets = [c \in Scopes |-> IF c \in Path[s] THEN reserve_bucket(@[c], n) ELSE @[c]]]
refund(r, s, n) ==
  [r EXCEPT !.buckets = [c \in Scopes |-> IF c \in Path[s] THEN refund_bucket(@[c], n) ELSE @[c]]]

\* dispatch: one turn for every waiter, in order; a grant may be another's.
RateTurn(r, w) ==
  LET n == Least(Least(w.requested, Quantum), available_for(r, w.stream))
  IN IF n # 0 THEN [Charged(r, w.stream, n) EXCEPT !.grants = Put(@, w.stream, n)]
     ELSE [r EXCEPT !.waiters = Append(@, w)]
RateTurns(r) ==
  LET after[i \in 0..Len(r.waiters)] ==
        IF i = 0 THEN [r EXCEPT !.waiters = << >>] ELSE RateTurn(after[i - 1], r.waiters[i])
  IN after
dispatch_rate(r) == RateTurns(r)[Len(r.waiters)]
\* The waiter of a stream leaves the queue from wherever it stands.
remove_waiter(q, s) ==
  LET index == CHOOSE i \in DOMAIN q : q[i].stream = s
  IN IF \E i \in DOMAIN q : q[i].stream = s
     THEN [i \in 1..(Len(q) - 1) |-> q[IF i < index THEN i ELSE i + 1]] ELSE q

Waiting(s) == \E i \in DOMAIN rate.waiters : rate.waiters[i].stream = s
Quiet(s) == ~Waiting(s) /\ s \notin DOMAIN rate.grants /\ s \notin DOMAIN rate.permits
Taken(r, s) == [r EXCEPT !.grants = Without(@, {s}), !.permits = Put(@, s, r.grants[s])]

\* try_acquire gives way to whoever is queued.
try_acquire(s, n) ==
  /\ Quiet(s) /\ rate.acquires < MaxAcquires /\ rate.waiters = << >>
  /\ LET got == Least(Least(n, Quantum), available_for(rate, s))
     IN got # 0 /\ rate' = [Charged(rate, s, got) EXCEPT !.permits = Put(@, s, got), !.acquires = @ + 1]
\* acquire: registers once, then dispatches each time it wakes.
acquire(s, n) ==
  /\ Quiet(s) /\ rate.acquires < MaxAcquires /\ Len(rate.waiters) < MaxWaiters
  /\ LET r == dispatch_rate([rate EXCEPT !.waiters = Append(@, [stream |-> s, requested |-> n]), !.acquires = @ + 1])
     IN rate' = IF s \in DOMAIN r.grants THEN Taken(r, s) ELSE r
wake(s) ==
  /\ Waiting(s) \/ s \in DOMAIN rate.grants
  /\ LET r == dispatch_rate(rate) IN rate' = IF s \in DOMAIN r.grants THEN Taken(r, s) ELSE r
\* RateWaiterRegistration::drop, remove_waiter: the task that waited is gone.
cancel_waiter(s) ==
  /\ Waiting(s) \/ s \in DOMAIN rate.grants
  /\ LET gone == [rate EXCEPT !.waiters = remove_waiter(@, s)]
     IN rate' = IF s \in DOMAIN rate.grants THEN refund([gone EXCEPT !.grants = Without(@, {s})], s, rate.grants[s]) ELSE gone
\* The bytes the streams moved and those they hold a grant or a permit for, kept
\* beside the buckets: sent and over are written only where bytes move (settle).
Out(r, c) ==
  MapThenSumSet(LAMBDA s : (IF s \in DOMAIN r.grants THEN r.grants[s] ELSE 0)
                           + (IF s \in DOMAIN r.permits THEN r.permits[s] ELSE 0),
                {s \in Streams : c \in Path[s]})
BytesMoved(r, s, kept, accepted) ==
  LET counts(c) == c \in Path[s] /\ ~Unlimited(r.buckets[c].limit)
  IN [r EXCEPT !.sent = [c \in Scopes |-> IF counts(c) THEN @[c] + accepted ELSE @[c]],
               !.over = [c \in Scopes |-> IF counts(c) /\ accepted > kept THEN @[c] + accepted - kept ELSE @[c]]]
\* RatePermit::settle, and its drop (nothing was accepted).
Settled(r, s, accepted) ==
  LET kept == r.permits[s]
      out == BytesMoved([r EXCEPT !.permits = Without(@, {s})], s, kept, accepted)
  IN CASE accepted < kept -> refund(out, s, kept - accepted)
       [] accepted > kept -> Charged(out, s, accepted - kept)
       [] OTHER -> out
\* Mutant: the permit is not marked settled, and its drop gives it all back.
SettleThenDrop(s, accepted) ==
  s \in DOMAIN rate.permits /\ rate' = refund(Settled(rate, s, accepted), s, rate.permits[s])
settle(s, accepted) == s \in DOMAIN rate.permits /\ rate' = Settled(rate, s, accepted)

\* refill: a tick of the clock in every bucket.  What a scope may have moved is
\* the least, over the windows of time that end now, of what was out or moved
\* when the window began, a burst, and a tick's bytes for each tick since.
refill(b) == IF Unlimited(b.limit) THEN b ELSE [b EXCEPT !.tokens = Least(@ + b.limit, b.limit)]
tick ==
  /\ rate.ticks < MaxTicks
  /\ rate' = [rate EXCEPT !.ticks = @ + 1, !.buckets = [c \in Scopes |-> refill(@[c])],
                          !.earned = [c \in Scopes |-> LET l == rate.buckets[c].limit IN
                                        IF Unlimited(l) THEN @[c] ELSE l + Least(@[c], rate.sent[c] + Out(rate, c))],
                          !.over = [c \in Scopes |-> LET l == rate.buckets[c].limit IN IF @[c] > l THEN @[c] - l ELSE 0]]
\* Bucket::reconfigure (set_scoped_limit, reconfigure, set_global_limit): from
\* and to no limit at all the accounts start again, with what is out then.
reconfigure(b, l) == [limit |-> l, tokens |-> IF Unlimited(l) THEN 0 ELSE Least(b.tokens, l)]
Limited(r, c, l) ==
  LET fresh == Unlimited(l) \/ Unlimited(r.buckets[c].limit)
  IN [r EXCEPT !.buckets[c] = reconfigure(@, l), !.changes = @ + 1,
               !.earned[c] = IF ~fresh THEN @ ELSE IF Unlimited(l) THEN 0 ELSE Out(r, c),
               !.sent[c] = IF fresh THEN 0 ELSE @, !.over[c] = IF fresh THEN 0 ELSE @]
set_limit(c, l) ==
  /\ rate.changes < MaxChanges /\ l # rate.buckets[c].limit
  /\ rate' = [Limited(rate, c, l) EXCEPT !.suspended = IF c = GlobalScope THEN FALSE ELSE @]
\* set_global_allocation(Some(0)): nothing more is granted until the next allocation.
suspend ==
  /\ rate.changes < MaxChanges /\ ~rate.suspended
  /\ rate' = [Limited(rate, GlobalScope, 0) EXCEPT !.suspended = TRUE]

RateNext == \/ \E s \in Streams : \/ wake(s) \/ cancel_waiter(s)
                                  \/ \E n \in 1..Quantum + 1 : try_acquire(s, n) \/ acquire(s, n)
                                  \/ \E n \in 0..Quantum + 1 : settle(s, n)
            \/ tick \/ suspend \/ \E c \in Scopes, l \in Limits : set_limit(c, l)

\* Over any window of time, what the streams of a limited scope moved and what
\* they still hold comes to a burst and the ticks of the window, plus what was
\* out when it began, plus frames larger than their permit that no refill has
\* repaid yet: no path of grants, refunds, cancellations and new limits gives a
\* scope a byte twice (tokens left over count as moved), and a debt is only ever
\* an overshoot; no bucket holds more than a burst.  A grant nobody has taken
\* belongs to a stream that will.
SpendingBounded ==
  /\ \A c \in Scopes : LET b == rate.buckets[c] IN
       ~Unlimited(b.limit) => /\ rate.sent[c] + Out(rate, c) =< rate.earned[c] + rate.over[c]
                              /\ rate.sent[c] + Out(rate, c) + b.tokens =< rate.earned[c]
                              /\ b.tokens + rate.over[c] >= 0 /\ b.tokens =< b.limit
  /\ \A s \in DOMAIN rate.grants : ~Waiting(s) /\ s \notin DOMAIN rate.permits
----------------------------------------------------------------------------
ShutdownSteps == <<"StopAdmission", "DrainDiskCpu", "FlushJournal", "PersistSession">>

\* bootstrap_process has written a record that is not clean before anything runs.
StopInit == stop = [at |-> 0, phase |-> "running", failed |-> {}, timed_out |-> {}, first |-> None,
                    journals |-> "open", owner |-> "running", db_clean |-> FALSE, wanted |-> FALSE, unrepaired |-> FALSE]

\* record_failure and advance: a step that ends at or after its deadline has
\* timed out, whatever it reports; the next ticket is dirty once anything failed.
complete(z, result, late) ==
  LET step == ShutdownSteps[z.at] kind == IF late THEN "TimedOut" ELSE result
  IN [z EXCEPT !.failed = IF kind = "Succeeded" THEN @ ELSE @ \cup {step},
               !.timed_out = IF kind = "TimedOut" THEN @ \cup {step} ELSE @,
               !.first = IF kind # "Succeeded" /\ ~Is(@) THEN Some(step) ELSE @, !.at = @ + 1]
\* Mutant: the record is written clean whatever failed before.
AlwaysClean(z) == TRUE
attempted_clean(z) == z.failed = {}

begin_process_shutdown ==
  /\ stop.phase = "running"
  /\ \E late \in BOOLEAN : stop' = [complete([stop EXCEPT !.at = 1], "Succeeded", late) EXCEPT !.phase = "drain"]
complete_drain ==
  /\ stop.phase = "drain"
  /\ \E outcome \in {"Succeeded", "Failed", "TimedOut"}, late \in BOOLEAN :
       stop' = [complete(stop, outcome, late \/ outcome = "TimedOut") EXCEPT !.phase = "flush"]
\* flush_and_close_journals: both commands must be answered before the deadline;
\* one that was not may still be carried out.
Commands == {"Succeeded", "Failed", "TimedOut"}
flush_journals ==
  /\ stop.phase = "flush"
  /\ \E answer \in Commands, done \in BOOLEAN :
       /\ answer = "Succeeded" => done
       /\ LET z == [stop EXCEPT !.journals = IF done THEN "flushed" ELSE @]
          IN stop' = IF answer = "Succeeded" THEN [z EXCEPT !.phase = "close"]
                     ELSE [complete(z, answer, answer = "TimedOut") EXCEPT !.phase = "owner"]
close_journals ==
  /\ stop.phase = "close"
  /\ \E answer \in Commands, done \in BOOLEAN, late \in BOOLEAN :
       /\ answer = "Succeeded" => done
       /\ stop' = [complete([stop EXCEPT !.journals = IF done THEN "closed" ELSE @], answer, late \/ answer = "TimedOut")
                     EXCEPT !.phase = "owner"]
\* persist_session_and_stop_owner: without the owner joined there is no record.
stop_owner ==
  /\ stop.phase = "owner"
  /\ \E answer \in Commands :
       LET z == [stop EXCEPT !.wanted = attempted_clean(stop)]
       IN stop' = IF answer = "Succeeded" THEN [z EXCEPT !.owner = "joined", !.phase = "record"]
                  ELSE [complete(z, answer, answer = "TimedOut") EXCEPT !.owner = "detached", !.phase = "ended"]
put_session_record ==
  /\ stop.phase = "record"
  /\ \E ok \in BOOLEAN, late \in BOOLEAN :
       LET z == complete([stop EXCEPT !.db_clean = IF ok THEN stop.wanted ELSE @], IF ok THEN "Succeeded" ELSE "Failed", late)
       IN stop' = [z EXCEPT !.phase = IF z.wanted /\ z.failed # {} THEN "repair" ELSE "ended"]
\* A record written clean by a step that turns out late is written again.
repair_record ==
  /\ stop.phase = "repair"
  /\ \E ok \in BOOLEAN : stop' = [stop EXCEPT !.db_clean = IF ok THEN FALSE ELSE @, !.unrepaired = ~ok, !.phase = "ended"]
\* The process is killed, or the record stays as it is.
process_killed == stop.phase \notin {"ended", "killed"} /\ stop' = [stop EXCEPT !.phase = "killed"]
StopNext == \/ begin_process_shutdown \/ complete_drain \/ flush_journals \/ close_journals \/ stop_owner
            \/ put_session_record \/ repair_record \/ process_killed

\* A session recorded as cleanly shut down was: every earlier step succeeded in
\* time, the journals are flushed and closed and the owner is gone, at whatever
\* point the process is killed; a report that is clean says so in the record; and
\* the first failure reported is the first step that failed.
CleanMeansClosed ==
  /\ stop.db_clean => /\ stop.journals = "closed" /\ stop.owner = "joined"
                      /\ stop.failed \subseteq {"PersistSession"}
  /\ stop.phase = "ended" => /\ stop.failed = {} => stop.db_clean
                             /\ stop.db_clean => stop.failed = {} \/ stop.unrepaired
  /\ Is(stop.first) <=> stop.failed # {}
  /\ \A i, j \in DOMAIN ShutdownSteps : ShutdownSteps[j] \in stop.failed /\ stop.first = Some(ShutdownSteps[i]) => i =< j

==================================================================================
