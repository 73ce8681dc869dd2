-------------------------------- MODULE HttpRange --------------------------------
(***************************************************************************)
(* The retry policy and budget of one range (http_retry.rs), and           *)
(* HttpRangeCoordinator (http_range.rs): which piece of a file is asked of *)
(* which source, under a lease, and the endgame in which one piece is      *)
(* raced by two leases.  A coordinator is a record; every operation        *)
(* returns the next one, with the refusal in err.  Durations are numbers   *)
(* of one unit; an absent Retry-After is None, one that does not parse is  *)
(* Some(Unparsed).                                                         *)
(***************************************************************************)
EXTENDS Maps, Integers, Sequences, FiniteSets, FiniteSetsExt

CONSTANTS Sources,    \* source -> [origin, ordinary, sameEndgame, sharedEndgame, digests]
          PieceTotal, Split, MaxPerOrigin, MaxTotalAttempts, MaxSourceAttempts, MaxDuplicates

Unparsed == -1

Triggers == {"reset", "eof", "timeout", "hang", "lowest-speed", "stale-connection", "dns-transient", "proxy-connect"}

\* HttpRetryPolicy::default and the profiles built from it.
Conservative ==
  [profile |-> "conservative", maxAttempts |-> 5, maxPerMirror |-> 3, maxElapsed |-> 3600, baseWait |-> 1,
   maxWait |-> 300, afterMin |-> 0, afterMax |-> 300, respect |-> TRUE, backoff |-> "jitter",
   retryOn |-> Triggers, statuses |-> {408, 425, 429, 500, 502, 503, 504}, stale |-> "fail"]
Aria2 == [Conservative EXCEPT !.profile = "aria2", !.baseWait = 0, !.backoff = "fixed", !.statuses = {504}]
Aggressive == [Conservative EXCEPT !.profile = "aggressive", !.maxAttempts = 10, !.maxPerMirror = 5,
                 !.maxElapsed = 7200, !.maxWait = 600, !.afterMax = 600,
                 !.statuses = {408, 421, 425, 429, 500, 502, 503, 504}]
from_profile(profile) ==
  CASE profile = "aria2" -> Aria2
    [] profile = "conservative" -> Conservative
    [] profile = "aggressive" -> Aggressive
    [] profile = "custom" -> [Conservative EXCEPT !.profile = "custom", !.retryOn = {}, !.statuses = {}]

validate(p) ==
  /\ p.maxPerMirror <= p.maxAttempts /\ p.maxElapsed # 0 /\ p.maxWait # 0
  /\ p.afterMax <= p.maxWait /\ p.afterMin <= p.afterMax
  /\ p.profile = "custom" => p.retryOn # {} /\ p.statuses # {}

\* A cause is <<"transport", trigger>>, <<"status", code>>, <<"protocol",
\* trigger, retryable>> or <<"final", kind>>.
is_retriable(p, cause) ==
  CASE cause[1] = "transport" -> cause[2] \in p.retryOn
    [] cause[1] = "protocol" -> cause[3] /\ (IF cause[2] = "timeout" THEN "timeout" ELSE "reset") \in p.retryOn
    [] cause[1] = "status" -> \/ cause[2] \in p.statuses
                              \/ p.profile = "aria2" /\ p.baseWait # 0 /\ cause[2] \in {502, 503}
    [] OTHER -> FALSE

effective_base_wait(p) == IF p.baseWait = 0 /\ p.profile # "aria2" THEN 1 ELSE p.baseWait

NewBudget(p) == [policy |-> p, attempts |-> 0, by |-> EmptyMap]
attempts_for_mirror(b, mirror) == IF mirror \in DOMAIN b.by THEN b.by[mirror] ELSE 0

CanBegin(b, mirror) == b.attempts < b.policy.maxAttempts /\ attempts_for_mirror(b, mirror) < b.policy.maxPerMirror
\* The attempt is counted for the piece, not for the mirror.
AttemptOfNobody(b, mirror) == [b EXCEPT !.attempts = @ + 1]
begin_attempt(b, mirror) ==
  [b EXCEPT !.attempts = @ + 1, !.by = Put(@, mirror, attempts_for_mirror(b, mirror) + 1)]

Total(by) == FoldSet(LAMBDA m, n : by[m] + n, 0, DOMAIN by)
ValidAttempts(p, attempts, by) ==
  /\ attempts \in 1 .. p.maxAttempts /\ \A m \in DOMAIN by : by[m] \in 1 .. p.maxPerMirror
  /\ Total(by) = attempts
restore_attempts(b, attempts, by) == [b EXCEPT !.attempts = attempts, !.by = by]

Lesser(a, b) == IF a < b THEN a ELSE b
Greater(a, b) == IF a > b THEN a ELSE b

backoff_cap(b) ==
  LET base == effective_base_wait(b.policy)
      shift == Greater(b.attempts, 1) - 1
  IN IF b.policy.backoff = "fixed" THEN Lesser(base, b.policy.maxWait)
     ELSE Lesser(base * 2 ^ shift, b.policy.maxWait)

\* Between half the cap and the cap, wherever the entropy falls.
equal_jitter(cap, entropy) == LET low == cap \div 2 IN low + (entropy % (cap - low + 1))
backoff_delay(b, cap, entropy) == IF b.policy.backoff = "jitter" THEN equal_jitter(cap, entropy) ELSE cap
retry_after_delay(b, cap, clamped, entropy) ==
  IF b.policy.backoff = "fixed" /\ ~clamped THEN cap ELSE equal_jitter(cap, entropy)

Capped(p, after) == Lesser(Lesser(Greater(after, p.afterMin), p.afterMax), p.maxWait)
Delay(b, after, entropy) ==
  IF Is(after) /\ b.policy.respect /\ The(after) # Unparsed
  THEN LET capped == Capped(b.policy, The(after))
       IN retry_after_delay(b, capped, capped # The(after), entropy)
  ELSE backoff_delay(b, backoff_cap(b), entropy)

decide_after_failure(b, mirror, cause, elapsed, after, entropy) ==
  LET delay == Delay(b, after, entropy)
  IN CASE ~is_retriable(b.policy, cause) -> [stop |-> "NonRetriable", delay |-> 0]
       [] b.attempts >= b.policy.maxAttempts -> [stop |-> "TotalAttemptCap", delay |-> 0]
       [] attempts_for_mirror(b, mirror) >= b.policy.maxPerMirror -> [stop |-> "MirrorAttemptCap", delay |-> 0]
       [] elapsed >= b.policy.maxElapsed \/ elapsed + delay > b.policy.maxElapsed -> [stop |-> "ElapsedCap", delay |-> 0]
       [] OTHER -> [stop |-> "", delay |-> delay]

---------------------------------------------------------------------------------
RangePieces == 0 .. PieceTotal - 1
Pending == [st |-> "Pending"]
Durable == [st |-> "Durable"]
ActivePiece(original) == [st |-> "Active", original |-> original, duplicate |-> None, group |-> None, candidate |-> None]

NewRange ==
  [pieces |-> [p \in RangePieces |-> Pending], attempts |-> [p \in RangePieces |-> 0],
   bySource |-> [k \in RangePieces \X DOMAIN Sources |-> 0], retryAt |-> [k \in RangePieces \X DOMAIN Sources |-> 0],
   disabled |-> {}, active |-> EmptyMap, nextLease |-> 1, nextGroup |-> 1, nextPiece |-> 0, duplicates |-> 0, err |-> FALSE]
RangeError(c) == [c EXCEPT !.err = TRUE]

ActiveAt(c, origin) == {l \in DOMAIN c.active : Sources[c.active[l].source].origin = origin}
source_available(c, p, s, now) ==
  /\ s \notin c.disabled /\ c.retryAt[<<p, s>>] <= now /\ c.bySource[<<p, s>>] < MaxSourceAttempts
  /\ Cardinality(ActiveAt(c, Sources[s].origin)) < MaxPerOrigin

\* The first pending piece from the cursor that some source can serve; which
\* of those sources is the selector's choice (feedback, priority, rotation).
Rotated(c) == [i \in RangePieces |-> (c.nextPiece + i) % PieceTotal]
Servers(c, p, now) == {s \in DOMAIN Sources : Sources[s].ordinary /\ source_available(c, p, s, now)}
find_assignment(c, now) ==
  LET order == Rotated(c)
      able == {i \in RangePieces : /\ c.pieces[order[i]] = Pending /\ c.attempts[order[i]] < MaxTotalAttempts
                                   /\ Servers(c, order[i], now) # {}}
  IN IF Cardinality(DOMAIN c.active) >= Split \/ able = {} THEN {}
     ELSE LET p == order[Min(able)] IN {<<p, s>> : s \in Servers(c, p, now)}

Completed(c) == {p \in RangePieces : c.pieces[p] = Durable}
\* The tail threshold: at most two pieces are left.
TailReached(c) == PieceTotal - Cardinality(Completed(c)) <= 2
DuplicateSources(c, p, s, now) ==
  LET shared == {t \in DOMAIN Sources \ {s} : /\ Sources[s].sharedEndgame /\ Sources[t].sharedEndgame
                                              /\ source_available(c, p, t, now)}
  IN IF shared # {} THEN shared
     ELSE IF Sources[s].sameEndgame /\ source_available(c, p, s, now) THEN {s} ELSE {}
find_endgame_assignment(c, now, eligible) ==
  IF \/ MaxDuplicates = 0 \/ c.duplicates >= MaxDuplicates
     \/ Cardinality(DOMAIN c.active) >= Split + MaxDuplicates \/ ~TailReached(c)
  THEN {}
  ELSE UNION {LET a == c.active[l] IN
                IF a.duplicate \/ Is(a.group) \/ c.pieces[a.piece].st # "Active"
                   \/ c.pieces[a.piece].original # l \/ c.attempts[a.piece] >= MaxTotalAttempts
                THEN {} ELSE {<<l, s>> : s \in DuplicateSources(c, a.piece, a.source, now)} :
              l \in eligible \cap DOMAIN c.active}

record_attempt(c, p, s) == [c EXCEPT !.attempts[p] = @ + 1, !.bySource[<<p, s>>] = @ + 1]
next_lease_id(c) == [c EXCEPT !.nextLease = @ + 1]
advance_cursor(c, p) == [c EXCEPT !.nextPiece = (p + 1) % PieceTotal]

issue_normal_assignment(c, p, s) ==
  LET lease == c.nextLease
  IN [advance_cursor(record_attempt(next_lease_id(c), p, s), p) EXCEPT
        !.pieces[p] = ActivePiece(lease),
        !.active = Put(@, lease, [source |-> s, piece |-> p, group |-> None, duplicate |-> FALSE])]

issue_endgame_assignment(c, original, s) ==
  LET lease == c.nextLease
      group == c.nextGroup
      p == c.active[original].piece
  IN [advance_cursor(record_attempt(next_lease_id(c), p, s), p) EXCEPT
        !.nextGroup = @ + 1, !.duplicates = @ + 1,
        !.pieces[p].duplicate = Some(lease), !.pieces[p].group = Some(group),
        !.active = Put([@ EXCEPT ![original].group = Some(group)], lease,
                       [source |-> s, piece |-> p, group |-> Some(group), duplicate |-> TRUE])]

RetryDeadlines(c, now) ==
  {c.retryAt[key] : key \in {k \in RangePieces \X DOMAIN Sources :
     /\ c.pieces[k[1]] = Pending /\ c.attempts[k[1]] < MaxTotalAttempts /\ k[2] \notin c.disabled
     /\ c.retryAt[k] > now /\ c.bySource[k] < MaxSourceAttempts}}
next_retry_deadline(c, now) == IF RetryDeadlines(c, now) = {} THEN None ELSE Some(Min(RetryDeadlines(c, now)))

release_active(c, lease) ==
  [c EXCEPT !.duplicates = IF c.active[lease].duplicate THEN Greater(@ - 1, 0) ELSE @,
            !.active = Without(@, {lease})]
mark_piece_durable(c, p) ==
  [c EXCEPT !.pieces[p] = Durable,
            !.bySource = [k \in DOMAIN @ |-> IF k[1] = p THEN 0 ELSE @[k]],
            !.retryAt = [k \in DOMAIN @ |-> IF k[1] = p THEN 0 ELSE @[k]]]

complete(c, lease) ==
  IF lease \notin DOMAIN c.active \/ c.pieces[c.active[lease].piece] # ActivePiece(lease)
  THEN RangeError(c)
  ELSE mark_piece_durable(release_active(c, lease), c.active[lease].piece)

Competitor(piece, lease) == IF piece.original = lease THEN The(piece.duplicate) ELSE piece.original
begin_overlap_commit(c, lease) ==
  LET a == c.active[lease]
  IN IF \/ lease \notin DOMAIN c.active \/ ~Is(a.group) \/ c.pieces[a.piece].st # "Active"
        \/ c.pieces[a.piece].group # a.group \/ Is(c.pieces[a.piece].candidate)
     THEN RangeError(c)
     ELSE [c EXCEPT !.pieces[a.piece].candidate = Some(lease)]

settle_overlap(c, group, candidate, committed) ==
  LET p == c.active[candidate].piece
      released == release_active(release_active(c, candidate), Competitor(c.pieces[p], candidate))
  IN IF \/ candidate \notin DOMAIN c.active \/ c.pieces[p].st # "Active"
        \/ c.pieces[p].group # Some(group) \/ c.pieces[p].candidate # Some(candidate)
        \/ Competitor(c.pieces[p], candidate) \notin DOMAIN c.active
     THEN RangeError(c)
     ELSE IF committed THEN mark_piece_durable(released, p) ELSE [released EXCEPT !.pieces[p] = Pending]

InGroup(c, group) == {p \in RangePieces : c.pieces[p].st = "Active" /\ c.pieces[p].group = Some(group)}
range_rollback_overlap(c, group) ==
  IF InGroup(c, group) = {} THEN RangeError(c)
  ELSE LET p == CHOOSE x \in InGroup(c, group) : TRUE
       IN [release_active(release_active(c, c.pieces[p].original), The(c.pieces[p].duplicate))
           EXCEPT !.pieces[p] = Pending]

\* What a failure does to the source: it waits, or is not asked again.
RetryAt(time) == Some(time)
DisableSource == None
record_failure(c, p, s, failure) ==
  IF failure = DisableSource THEN [c EXCEPT !.disabled = @ \cup {s}]
  ELSE [c EXCEPT !.retryAt[<<p, s>>] = Greater(@, The(failure))]

fail(c, lease, failure) ==
  LET a == c.active[lease]
      piece == c.pieces[a.piece]
      remaining == Competitor(piece, lease)
      released == release_active(c, lease)
      kept == IF ~Is(piece.group) THEN [released EXCEPT !.pieces[a.piece] = Pending]
              ELSE [released EXCEPT
                      !.duplicates = IF c.active[remaining].duplicate THEN Greater(@ - 1, 0) ELSE @,
                      !.active[remaining].duplicate = FALSE, !.active[remaining].group = None,
                      !.pieces[a.piece] = ActivePiece(remaining)]
  IN IF lease \notin DOMAIN c.active \/ piece.st # "Active" \/ Is(piece.candidate) THEN RangeError(c)
     ELSE record_failure(kept, a.piece, a.source, failure)

record_released_failure(c, p, s, failure) ==
  IF c.pieces[p] # Pending THEN RangeError(c) ELSE record_failure(c, p, s, failure)

restore_durable(c, ps) == [c EXCEPT !.pieces = [p \in RangePieces |-> IF p \in ps THEN Durable ELSE @[p]]]
restore_piece_attempts(c, p, n) == [c EXCEPT !.attempts[p] = n]
restore_source_piece_retry(c, p, s, n, at) ==
  [c EXCEPT !.bySource[<<p, s>>] = n, !.retryAt[<<p, s>>] = at]
=================================================================================
