------------------------------- MODULE RpcService -------------------------------
(***************************************************************************)
(* The JSON-RPC transports (ariax-engine: http_rpc.rs, rpc_client.rs) over *)
(* the shared budgets (rpc_budget.rs) and the event broker                 *)
(* (rpc_events.rs).  A WebSocket connection leases the memory for a frame  *)
(* before it reads one and is pushed events; an HTTP connection leases     *)
(* once a request has come.  The members of a frame are carried out one    *)
(* after the other, so that other clients, events and the shutdown come    *)
(* between.  Every lease, charge and queued event counts 1.                *)
(***************************************************************************)
EXTENDS Maps, Integers, FiniteSets, FiniteSetsExt, SequencesExt

CONSTANTS RpcClients,       \* [clients -> [ws : is it a WebSocket, frames : what it sends]]
          Broadcasts,       \* the events, in the order the engine publishes them: [class, key,
                            \* object : its params are an object, large : more than a result may be]
          TokenRequired,    \* an RPC secret is configured
          RpcItems, RpcBytes, ClientBytes, MaxConnections, MaxSubscribers, BatchLimit, WriterRoom, EventQueue

VARIABLES budget,     \* ProcessBudget and the clients' own: what is acquired
          conns,      \* the connections
          published,  \* how many events the engine has published
          rpcClosing  \* the listeners are shutting down

rpcVars == <<budget, conns, published, rpcClosing>>

Who == DOMAIN RpcClients
Frame(c) == RpcClients[c].frames[conns[c].frame]

----------------------------------------------------------------------------
\* ByteBudget permits: all of a charge or nothing of it.
Charge(items, eventItems, bytes) == [items |-> items, eventItems |-> eventItems, bytes |-> bytes]
charge(b, c, n) ==
  LET ok == /\ b.items + n.items <= RpcItems /\ b.eventItems + n.eventItems <= RpcItems \div 2
            /\ b.bytes + n.bytes <= RpcBytes /\ b.of[c] + n.bytes <= ClientBytes
  IN [ok |-> ok, b |-> IF ok THEN [b EXCEPT !.items = @ + n.items, !.eventItems = @ + n.eventItems,
                                            !.bytes = @ + n.bytes, !.of[c] = @ + n.bytes] ELSE b]
\* Mutant: what is given back to the process stays on the client's account.
drop_charge_keeps(b, c, n) == [b EXCEPT !.items = @ - n.items, !.eventItems = @ - n.eventItems, !.bytes = @ - n.bytes]
drop_charge(b, c, n) == [b EXCEPT !.items = @ - n.items, !.eventItems = @ - n.eventItems, !.bytes = @ - n.bytes, !.of[c] = @ - n.bytes]
client_overhead == Charge(0, 0, 1)
request_lease == Charge(1, 0, 1)
response_lease == Charge(1, 0, 1)      \* with its workspace
event_charge == Charge(1, 1, 1)
write_cache == Charge(0, 0, 1)
filter_charge == Charge(0, 0, 1)
subscription == Charge(0, 0, 2)        \* the filter and the queue

----------------------------------------------------------------------------
NoJob == [i |-> 0, out |-> << >>, ran |-> {}]
NewConn == [at |-> "away", frame |-> 1, lease |-> FALSE, response |-> FALSE, cache |-> FALSE, authenticated |-> FALSE,
            job |-> NoJob, sub |-> None, answers |-> << >>, events |-> << >>, told |-> {}]
RpcInit ==
  /\ budget = [items |-> 0, eventItems |-> 0, bytes |-> 0, of |-> [c \in Who |-> 0]]
  /\ conns = [c \in Who |-> NewConn] /\ published = 0 /\ rpcClosing = FALSE

\* Everything a connection holds, dropped with it.
Held(c) ==
  LET k == conns[c]
      queued == IF Is(k.sub) THEN Len(The(k.sub).queue) ELSE 0
      One(p) == IF p THEN 1 ELSE 0
  IN Charge(One(k.lease) + One(k.response) + queued, queued,
            One(k.at \notin {"away", "closed"}) + One(k.lease) + One(k.response) + One(k.cache)
            + (IF Is(k.sub) THEN subscription.bytes ELSE 0) + queued)
\* The connection ends; what is left of an answer is not sent.
CloseConn(c, tells) ==
  /\ budget' = drop_charge(budget, c, Held(c))
  /\ conns' = [conns EXCEPT ![c] = [@ EXCEPT !.at = "closed", !.lease = FALSE, !.response = FALSE, !.cache = FALSE,
                                            !.sub = None, !.told = @ \cup tells]]
  /\ UNCHANGED <<published, rpcClosing>>
Become(c, k, b) == conns' = [conns EXCEPT ![c] = k] /\ budget' = b /\ UNCHANGED <<published, rpcClosing>>

Connected == {c \in Who : conns[c].at \notin {"away", "closed"}}
\* The listener: no permit, no connection; then the client's budget.
accept(c) ==
  /\ conns[c].at = "away" /\ ~rpcClosing
  /\ LET t == charge(budget, c, client_overhead)
     IN IF Cardinality(Connected) >= MaxConnections \/ ~t.ok
        THEN Become(c, [conns[c] EXCEPT !.at = "closed"], budget)
        ELSE Become(c, [conns[c] EXCEPT !.at = "handshake"], t.b)
\* RpcClientContext::authorize: the first authorized call subscribes, and is
\* refused when the subscription does not fit; the next one tries again.
NewSub == [queue |-> << >>, dropped |-> 0, coalesced |-> 0, slow |-> FALSE, keys |-> {e.key : e \in ToSet(Broadcasts)},
           due |-> << >>, filtered |-> 0, silent |-> 0, counted |-> 0]
Subscribers == {c \in Who : Is(conns[c].sub)}
authorize(c, k, b) ==
  LET t == charge(b, c, subscription)
  IN IF k.authenticated THEN [ok |-> TRUE, k |-> k, b |-> b]
     ELSE IF ~RpcClients[c].ws THEN [ok |-> TRUE, k |-> [k EXCEPT !.authenticated = TRUE], b |-> b]
     ELSE IF Cardinality(Subscribers) >= MaxSubscribers \/ ~t.ok THEN [ok |-> FALSE, k |-> k, b |-> b]
     ELSE [ok |-> TRUE, k |-> [k EXCEPT !.authenticated = TRUE, !.sub = Some(NewSub)], b |-> t.b]
handshake(c) ==
  /\ conns[c].at = "handshake"
  /\ \/ CloseConn(c, {"unauthorized"})
     \/ LET a == IF TokenRequired THEN [ok |-> TRUE, k |-> conns[c], b |-> budget] ELSE authorize(c, conns[c], budget)
        IN IF a.ok THEN Become(c, [a.k EXCEPT !.at = IF RpcClients[c].ws THEN "leasing" ELSE "open"], a.b)
           ELSE CloseConn(c, {"error"})
\* RpcClientBudget::request waits until the lease fits.
request(c) ==
  /\ conns[c].at = "leasing"
  /\ LET t == charge(budget, c, request_lease)
     IN t.ok /\ Become(c, [conns[c] EXCEPT !.lease = TRUE, !.at = IF RpcClients[c].ws THEN "open" ELSE "ready"], t.b)
\* A frame arrives; an HTTP request has its Authorization header checked.
Sends(c) == conns[c].frame <= Len(RpcClients[c].frames)
arrive(c) ==
  /\ conns[c].at = "open" /\ Sends(c)
  /\ Become(c, [conns[c] EXCEPT !.at = IF RpcClients[c].ws THEN "ready" ELSE "leasing"], budget)

----------------------------------------------------------------------------
\* dispatch_admitted_json: a response lease and its workspace, or "busy".
Reply(k, answer) == [k EXCEPT !.at = "sending", !.job.out = answer]
Whole(tag) == [kind |-> tag, completed |-> 0, members |-> << >>]
dispatch(c) ==
  /\ conns[c].at = "ready"
  /\ LET t == charge(budget, c, response_lease)
         k == [conns[c] EXCEPT !.job = NoJob, !.response = TRUE]
         n == Len(Frame(c).members)
     IN IF ~t.ok THEN Become(c, Reply([conns[c] EXCEPT !.job = NoJob], Whole("busy")), budget)
        ELSE IF Frame(c).form = "batch" /\ (n = 0 \/ n > BatchLimit) THEN Become(c, Reply(k, Whole("limit")), t.b)
        ELSE Become(c, [k EXCEPT !.at = "dispatching"], t.b)

\* call_with_context for one member: the token, the subscription, the backend.
Authorized(m) == ~TokenRequired \/ m.token
\* RpcEventSubscriber::set_filter: the new filter is charged before the old one
\* is dropped; the queue keeps what matches.
set_filter(c, k, b, keys) ==
  IF ~Is(k.sub) \/ ~charge(b, c, filter_charge).ok THEN [ok |-> FALSE, k |-> k, b |-> b]
  ELSE LET s == The(k.sub)
           Keep(n) == Broadcasts[n].key \in keys
           stays == SelectSeq(s.queue, Keep)
           gone == Len(s.queue) - Len(stays)
       IN [ok |-> TRUE,
           k |-> [k EXCEPT !.sub = Some([s EXCEPT !.queue = stays, !.keys = keys, !.filtered = @ + gone,
                                                 !.due = SelectSeq(@, LAMBDA n : Keep(n) \/ ~(n \in ToSet(s.queue)))])],
           b |-> drop_charge(b, c, Charge(gone, gone, gone))]
call_with_context(c, k, m) ==
  LET a == authorize(c, k, budget)
      ran == [a.k EXCEPT !.job.ran = @ \cup {k.job.i + 1}]
      f == set_filter(c, ran, a.b, {1})
  IN IF ~Authorized(m) THEN [k |-> k, b |-> budget, result |-> "unauthorized"]
     ELSE IF ~a.ok THEN [k |-> k, b |-> budget, result |-> "unavailable"]
     ELSE IF m.kind = "filter" THEN [k |-> f.k, b |-> f.b, result |-> IF f.ok THEN "ok" ELSE "refused"]
     ELSE [k |-> ran, b |-> a.b, result |-> "ok"]

\* dispatch_value and the batch: an answer that does not fit ends the frame.
Answered(out) == [kind |-> "batch", completed |-> Len(out), members |-> out]
TooLarge(completed) == [kind |-> "tooLarge", completed |-> completed, members |-> << >>]
dispatch_value(c) ==
  LET k == conns[c]  m == Frame(c).members[k.job.i + 1]
      did == IF m.kind = "bad" THEN [k |-> k, b |-> budget, result |-> "invalid"] ELSE call_with_context(c, k, m)
      j == [did.k.job EXCEPT !.i = @ + 1]
      answered == m.id \/ m.kind = "bad"
      out == IF answered THEN Append(j.out, [i |-> j.i, result |-> did.result]) ELSE j.out
  IN IF answered /\ Len(out) > WriterRoom THEN Become(c, Reply([did.k EXCEPT !.job = j], TooLarge(Len(j.out))), did.b)
     ELSE Become(c, [did.k EXCEPT !.job = [j EXCEPT !.out = out]], did.b)
\* multicall: every member is answered; the one that does not fit counts as
\* completed, and the results of all are lost.
multicall_member(c) ==
  LET k == conns[c]  m == Frame(c).members[k.job.i + 1]
      did == IF m.kind = "bad" THEN [k |-> k, b |-> budget, result |-> "invalid"] ELSE call_with_context(c, k, m)
      j == [did.k.job EXCEPT !.i = @ + 1, !.out = Append(@, [i |-> k.job.i + 1, result |-> did.result])]
  IN IF Len(j.out) > WriterRoom THEN Become(c, Reply([did.k EXCEPT !.job = j], TooLarge(Len(j.out))), did.b)
     ELSE Become(c, [did.k EXCEPT !.job = j], did.b)
Member(c) ==
  /\ conns[c].at = "dispatching" /\ conns[c].job.i < Len(Frame(c).members)
  /\ IF Frame(c).form = "batch" THEN dispatch_value(c) ELSE multicall_member(c)
MembersDone(c) ==
  /\ conns[c].at = "dispatching" /\ conns[c].job.i = Len(Frame(c).members)
  /\ LET out == conns[c].job.out
     IN Become(c, Reply(conns[c], IF out = << >> THEN Whole("none") ELSE Answered(out)), budget)

\* send_websocket_json, or the HTTP response: the write buffer is charged on
\* its first use, and a refusal ends the connection.  Then the leases go.
Send(c) ==
  /\ conns[c].at = "sending"
  /\ LET k == conns[c]
         written == RpcClients[c].ws /\ ~k.cache /\ k.job.out.kind # "none"
         t == IF written THEN charge(budget, c, write_cache) ELSE [ok |-> TRUE, b |-> budget]
         rest == Charge(1 + (IF k.response THEN 1 ELSE 0), 0, 1 + (IF k.response THEN 1 ELSE 0))
         sent == [k EXCEPT !.answers = Append(@, [out |-> k.job.out, ran |-> k.job.ran]), !.frame = @ + 1, !.job = NoJob,
                           !.lease = FALSE, !.response = FALSE, !.cache = k.cache \/ written,
                           !.at = IF RpcClients[c].ws THEN "leasing" ELSE "open"]
     IN IF t.ok THEN Become(c, sent, drop_charge(t.b, c, rest)) ELSE CloseConn(c, {"error"})

----------------------------------------------------------------------------
\* enqueue: a coalesced event replaces what is queued under its key; otherwise
\* it joins the queue.  What cannot be queued disconnects the subscriber when
\* it is reliable and is counted as dropped when it is not.
enqueue(b, c, s, n) ==
  LET e == Broadcasts[n]
      reliable == e.class = "reliable"
      same == {i \in DOMAIN s.queue : Broadcasts[s.queue[i]].class = "coalesced" /\ Broadcasts[s.queue[i]].key = e.key}
      t == IF Len(s.queue) < EventQueue THEN charge(b, c, event_charge) ELSE [ok |-> FALSE, b |-> b]
      r == charge(b, c, Charge(0, 0, 1))        \* replace_bytes: the new charge before the old one is dropped
      m == [s EXCEPT !.counted = @ + 1]
  IN IF s.slow \/ e.key \notin s.keys THEN [s |-> s, b |-> b]
     ELSE IF e.class = "coalesced" /\ same # {}
     THEN [s |-> IF r.ok THEN [m EXCEPT !.queue[Min(same)] = n, !.coalesced = @ + 1] ELSE [m EXCEPT !.dropped = @ + 1], b |-> b]
     ELSE IF t.ok THEN [s |-> [m EXCEPT !.queue = Append(@, n), !.due = IF reliable THEN Append(@, n) ELSE @], b |-> t.b]
     ELSE IF reliable
     THEN LET q == Len(s.queue) IN [s |-> [m EXCEPT !.slow = TRUE, !.queue = << >>], b |-> drop_charge(b, c, Charge(q, q, q))]
     ELSE [s |-> [m EXCEPT !.dropped = @ + 1], b |-> b]
publish ==
  /\ published < Len(Broadcasts) /\ published' = published + 1
  /\ LET subs == SetToSortSeq(Subscribers, <)
         One(acc, c) == LET r == enqueue(acc.b, c, The(acc.k[c].sub), published + 1)
                        IN [k |-> [acc.k EXCEPT ![c].sub = Some(r.s)], b |-> r.b]
         all == FoldLeft(One, [k |-> conns, b |-> budget], subs)
     IN conns' = all.k /\ budget' = all.b
  /\ UNCHANGED rpcClosing
\* try_next_event and serialize_delivery: an event too large to send ends the
\* connection; the others leave the queue before the memory to send them is
\* there, and without it the connection ends.  The count of the dropped ones is
\* taken with the event; only params that are an object can tell it (into_value).
Sendable(b, c, k) == LET t == charge(b, c, response_lease) IN t.ok /\ (k.cache \/ charge(t.b, c, write_cache).ok)
Taken(s) ==
  LET object == Broadcasts[Head(s.queue)].object
  IN [s |-> [s EXCEPT !.queue = Tail(@), !.dropped = 0, !.silent = @ + (IF object THEN 0 ELSE s.dropped)],
      event |-> [n |-> Head(s.queue), dropped |-> IF object THEN s.dropped ELSE 0]]
EventTick(c) ==
  /\ conns[c].at = "open" /\ Is(conns[c].sub)
  /\ LET k == conns[c]  s == The(k.sub)
         b == IF k.cache THEN budget ELSE charge(budget, c, write_cache).b
     IN IF s.slow THEN CloseConn(c, IF Sendable(budget, c, k) THEN {"slow_consumer"} ELSE {"error"})
        ELSE /\ s.queue # << >>
             /\ IF Broadcasts[Head(s.queue)].large \/ ~Sendable(budget, c, k) THEN CloseConn(c, {"error"})
                ELSE Become(c, [k EXCEPT !.sub = Some(Taken(s).s), !.cache = TRUE, !.events = Append(@, Taken(s).event)],
                            drop_charge(b, c, event_charge))

----------------------------------------------------------------------------
\* The shutdown notice reaches whoever is authenticated and idle; the listener
\* gives the others time and then aborts them.
BeginClosing == ~rpcClosing /\ rpcClosing' = TRUE /\ UNCHANGED <<budget, conns, published>>
NoticeShutdown(c) ==
  /\ rpcClosing /\ conns[c].at = "open"
  /\ CloseConn(c, IF ~RpcClients[c].ws \/ ~conns[c].authenticated THEN {}
                  ELSE IF Sendable(budget, c, conns[c]) THEN {"shutdown"} ELSE {"error"})
abort_all(c) == rpcClosing /\ conns[c].at \notin {"away", "closed"} /\ CloseConn(c, {"aborted"})
ClientCloses(c) == conns[c].at = "open" /\ ~Sends(c) /\ CloseConn(c, {"left"})

RpcNext ==
  \/ \E c \in Who : \/ accept(c) \/ handshake(c) \/ request(c) \/ arrive(c) \/ dispatch(c) \/ Member(c) \/ MembersDone(c) \/ Send(c)
                    \/ EventTick(c) \/ NoticeShutdown(c) \/ abort_all(c) \/ ClientCloses(c)
  \/ publish \/ BeginClosing

----------------------------------------------------------------------------
\* The budgets say what is held: what every connection holds adds up to what
\* is acquired, within every limit, however connections end and events are
\* replaced, filtered or given up (rpc_budget.rs charge and the drops).
BudgetExact ==
  LET total == FoldLeft(LAMBDA t, c : Charge(t.items + Held(c).items, t.eventItems + Held(c).eventItems, t.bytes + Held(c).bytes),
                        Charge(0, 0, 0), SetToSortSeq(Who, <))
  IN /\ budget.items = total.items /\ budget.eventItems = total.eventItems /\ budget.bytes = total.bytes
     /\ budget.items <= RpcItems /\ budget.eventItems <= RpcItems \div 2 /\ budget.bytes <= RpcBytes
     /\ \A c \in Who : budget.of[c] = Held(c).bytes /\ budget.of[c] <= ClientBytes

\* A client learns from the answer what was carried out: of the members it may
\* run, those answered with a result ran and those answered with an error did
\* not; a member without an answer ran too, unless the connection had no
\* subscription yet and got none.  Answers come in the order of the members that
\* have an id or are invalid; "too large" after n answers means that the members
\* up to the one that did not fit were taken and none after it; "busy" and
\* "limit", that nothing was (call_with_context, dispatch_value, multicall).
MayRun(members, n) == {i \in 1..n : members[i].kind # "bad" /\ Authorized(members[i])}
Answerable(members, n) == {i \in 1..n : members[i].id \/ members[i].kind = "bad"}
RanInTurn(c, ran, may) ==
  /\ ran \subseteq may
  /\ RpcClients[c].ws => \A i \in ran, j \in may : i < j => j \in ran
  /\ ~RpcClients[c].ws => ran = may
AnswersTellWhatRan ==
  \A c \in Who : \A f \in DOMAIN conns[c].answers :
    LET a == conns[c].answers[f]
        members == RpcClients[c].frames[f].members
        multi == RpcClients[c].frames[f].form = "multi"
        counted == IF multi THEN 1..Len(members) ELSE Answerable(members, Len(members))
    IN CASE a.out.kind \in {"busy", "limit"} -> a.ran = {}
         [] a.out.kind \in {"none", "batch"} ->
              /\ RanInTurn(c, a.ran, MayRun(members, Len(members)))
              /\ [k \in DOMAIN a.out.members |-> a.out.members[k].i] = SetToSortSeq(counted, <)
              /\ \A k \in DOMAIN a.out.members :
                   a.out.members[k].i \in a.ran <=> a.out.members[k].result \in {"ok", "refused"}
         [] OTHER -> LET order == SetToSortSeq(counted, <)
                         last == order[a.out.completed + (IF multi THEN 0 ELSE 1)]
                     IN RanInTurn(c, a.ran, MayRun(members, last))

\* A subscriber is told the truth about its events: reliable ones arrive in
\* order without a gap, a key's versions never go back, every event it wanted
\* is received, queued, replaced by a newer one, filtered out, told as dropped or
\* still to be told, and otherwise it is told that it was too slow.  Only a count
\* that an event with array params took away is told by nobody (enqueue,
\* try_next_bounded, into_value).
EventsHonest ==
  \A c \in Who : Is(conns[c].sub) =>
    LET k == conns[c]  s == The(k.sub)
        got == [i \in DOMAIN k.events |-> k.events[i].n]
        reliable == SelectSeq(got \o s.queue, LAMBDA n : Broadcasts[n].class = "reliable")
        told == FoldLeft(LAMBDA t, e : t + e.dropped, 0, k.events)
    IN ~s.slow =>
         /\ reliable = s.due
         /\ \A i, j \in DOMAIN got : i < j /\ Broadcasts[got[i]].key = Broadcasts[got[j]].key => got[i] < got[j]
         /\ s.counted = Len(got) + Len(s.queue) + s.coalesced + s.filtered + s.dropped + told + s.silent
         /\ (\A n \in ToSet(got) : Broadcasts[n].object) => s.silent = 0
=================================================================================
