------------------------------- MODULE HttpClient -------------------------------
(***************************************************************************)
(* Requests of one HttpPolicyClient under way at once (http_client.rs):    *)
(* each resolves its URL, is routed, takes an idle connection of a cached  *)
(* transport or dials one (http_transport.rs), sends, follows redirects    *)
(* and gives the connection back or throws it away.  They share the        *)
(* resolver (http_resolver.rs), the cache of transports, their pools of    *)
(* idle connections, and the process's socket budget.                      *)
(*                                                                         *)
(* An aborted driver task closes its socket some time later, so a          *)
(* connection passes through "closing".  A future may be dropped whenever  *)
(* it waits, and everything it holds with it.                              *)
(***************************************************************************)
EXTENDS HttpMessages

CONSTANTS
  Exchanges,        \* the requests
  Requests,         \* what each asks for
  Answers,          \* what the name servers may say of a host
  Locations,        \* where a server may redirect to
  ProxyPolicy, ProxyAuth, Auth,
  SocketLimits, MaxPerOrigin, MaxIdle, CacheCapacity,
  MaxInFlight, MaxNameWaiters, MaxWaiting, NameCache,
  MaxConnections    \* bounds the connections a behaviour opens

VARIABLES dns, net, ex
clientVars == <<dns, net, ex>>

Hosts == DOMAIN Answers

ClientInit ==
  /\ dns = [cache |-> EmptyMap, in_flight |-> EmptyMap, sequence |-> 0]
  /\ net \in [cached : {<<>>}, transports : {<<>>}, conns : {<<>>}, timers : {{}}, sockets : SocketLimits]
  /\ ex = [e \in Exchanges |-> [step |-> "new", redirects |-> HttpRedirectState(Requests[e].url, Requests[e].method),
                                if_range |-> Requests[e].if_range, admitted |-> <<>>, via |-> <<>>, hop |-> 0, transport |-> 0,
                                conn |-> 0, out |-> None, location |-> None, status |-> 0]]

Url(e) == ex[e].redirects.current
Ended == {"done", "failed"}

---------------------------------------------------------------------------------
(* Connections and transports.  A connection keeps its socket, and its place *)
(* in the budgets, until it is gone.                                         *)

Live(c) == c.state # "gone"
Charged(n) == {i \in DOMAIN n.conns : n.conns[i].permit}
OfTransport(n, t) == {i \in Charged(n) : n.conns[i].transport = t}
\* driver.abort(): a proxied connection's permit goes with its owner, a direct
\* one's with the socket.
Abort(n, S) ==
  [n EXCEPT !.conns = [i \in DOMAIN @ |->
     IF i \in S /\ @[i].state # "gone" THEN [@[i] EXCEPT !.state = "closing", !.owner = 0, !.permit = @ /\ n.conns[i].transport # 0] ELSE @[i]]]
IdleConns(n, t) == {n.transports[t].idle[k].conn : k \in DOMAIN n.transports[t].idle}

\* A transport that neither the cache nor a request holds is dropped, and its
\* idle connections are aborted (impl Drop for TransportInner).
Holds(x) == IF x.step \in Ended THEN {} ELSE {x.transport}
Dropped(n, x) ==
  LET held == Range(n.cached) \cup UNION {Holds(x[e]) : e \in Exchanges}
      lost == {t \in DOMAIN n.transports : t \notin held}
      aborted == Abort(n, UNION {IdleConns(n, t) : t \in lost})
  IN [aborted EXCEPT !.transports = [t \in DOMAIN @ |-> IF t \in lost THEN [@[t] EXCEPT !.idle = <<>>] ELSE @[t]]]

Settle(n, x) == net' = Dropped(n, x) /\ ex' = x
Fails(x, e) == [x EXCEPT ![e].step = "failed", ![e].conn = 0, ![e].transport = 0]

SocketCloses(i) ==
  /\ net.conns[i].state = "closing"
  /\ net' = [net EXCEPT !.conns[i].state = "gone", !.conns[i].permit = FALSE]
  /\ UNCHANGED <<dns, ex>>
\* The server closes a connection; hyper's driver sees it.
PeerCloses(i) ==
  /\ net.conns[i].state = "open"
  /\ net' = [net EXCEPT !.conns[i].state = "closed"]
  /\ UNCHANGED <<dns, ex>>

---------------------------------------------------------------------------------
(* The resolver. *)

Waiters(d) == FoldSet(LAMBDA h, n : Cardinality(d.in_flight[h].waiters) + n, 0, DOMAIN d.in_flight)
\* A URL's name is looked up before its hop is routed, and then the name of the
\* proxy it is routed through.
AsksProxy(x) == x.step \in {"route", "proxydns"}
\* What is done with an answer: judged, the URL routed, and the request is on
\* its way.
Answered(x, answer) ==
  LET admitted == IF AsksProxy(x)
                  THEN resolve_http_destination_with_resolver(proxy_resolution_uri(The(x.hop.proxy)), ProxyDestination, answer)
                  ELSE resolve_http_destination_with_resolver(x.redirects.current, Destination, answer)
  IN IF ~Is(admitted) THEN [x EXCEPT !.step = "failed", !.conn = 0, !.transport = 0]
     ELSE IF AsksProxy(x) THEN [x EXCEPT !.step = "proxy", !.via = The(admitted)]
     ELSE [x EXCEPT !.step = "route", !.admitted = The(admitted), !.hop = route(ProxyPolicy, x.redirects.current, The(admitted)[1])]

Resolve(e) ==
  LET h == IF AsksProxy(ex[e]) THEN The(ex[e].hop.proxy) ELSE Url(e).host
      d == [dns EXCEPT !.sequence = @ + 1]
  IN /\ ex[e].step \in {"new", "resolve"} \/ (ex[e].step = "route" /\ ex[e].hop.kind # "direct")
     /\ IF h \in DOMAIN dns.cache
        THEN /\ Settle(net, [ex EXCEPT ![e] = Answered(@, dns.cache[h].value)])
             /\ dns' = [d EXCEPT !.cache[h].used = d.sequence]
        ELSE IF \/ Waiters(dns) >= MaxWaiting
                \/ h \in DOMAIN dns.in_flight /\ Cardinality(dns.in_flight[h].waiters) >= MaxNameWaiters
                \/ h \notin DOMAIN dns.in_flight /\ Cardinality(DOMAIN dns.in_flight) >= MaxInFlight
        THEN Settle(net, Fails(ex, e)) /\ dns' = d
        ELSE /\ dns' = [d EXCEPT !.in_flight = IF h \in DOMAIN @ THEN [@ EXCEPT ![h].waiters = @ \cup {e}]
                                               ELSE Put(@, h, [waiters |-> {e}, abandoned |-> FALSE])]
             /\ Settle(net, [ex EXCEPT ![e].step = IF AsksProxy(ex[e]) THEN "proxydns" ELSE "dns"])

\* Oldest first until each kind of answer keeps its share.
RECURSIVE enforce_cache_bounds(_)
enforce_cache_bounds(cache) ==
  LET of(positive) == {h \in DOMAIN cache : Is(cache[h].value) = positive}
      over == UNION {of(p) : p \in {q \in BOOLEAN : Cardinality(of(q)) > NameCache}}
  IN IF over = {} THEN cache
     ELSE enforce_cache_bounds(Without(cache, {CHOOSE h \in over : \A g \in over : cache[h].used <= cache[g].used}))

\* The lookup ends: cached when it has a lifetime, and given to all who wait.
run_lookup(h, answer, ttl) ==
  /\ h \in DOMAIN dns.in_flight /\ ~dns.in_flight[h].abandoned
  /\ LET value == IF Is(answer) THEN normalize_addresses(The(answer)) ELSE None
         cache == IF ttl THEN enforce_cache_bounds(Put(dns.cache, h, [value |-> value, used |-> dns.sequence + 1])) ELSE dns.cache
     IN /\ dns' = [cache |-> cache, in_flight |-> Without(dns.in_flight, {h}), sequence |-> dns.sequence + 1]
        /\ Settle(net, [e \in Exchanges |-> IF e \in dns.in_flight[h].waiters THEN Answered(ex[e], value) ELSE ex[e]])
\* The last waiter has gone: the worker stops, and takes the entry away only
\* once it has the lock.
LookupClosed(h) ==
  /\ h \in DOMAIN dns.in_flight /\ dns.in_flight[h].waiters = {} /\ ~dns.in_flight[h].abandoned
  /\ dns' = [dns EXCEPT !.in_flight[h].abandoned = TRUE]
  /\ UNCHANGED <<net, ex>>
LookupRemoved(h) ==
  /\ h \in DOMAIN dns.in_flight /\ dns.in_flight[h].abandoned
  /\ dns' = [dns EXCEPT !.in_flight = Without(@, {h})]
  /\ Settle(net, [e \in Exchanges |-> IF e \in dns.in_flight[h].waiters THEN Fails(ex, e)[e] ELSE ex[e]])
NameExpires(h) ==
  /\ h \in DOMAIN dns.cache
  /\ dns' = [dns EXCEPT !.cache = Without(@, {h})]
  /\ UNCHANGED <<net, ex>>

NoLongerWaits(d, e) == [d EXCEPT !.in_flight = [h \in DOMAIN @ |-> [@[h] EXCEPT !.waiters = @ \ {e}]]]

---------------------------------------------------------------------------------
(* The transport of a direct hop: one per origin and admitted answer, the     *)
(* least recently used forgotten first.                                       *)

KeyOfOrigin(u, addresses) == <<origin(u)>>
DirectTransportCacheKey(u, addresses) == <<origin(u), addresses>>

direct_transport(e) ==
  LET key == DirectTransportCacheKey(Url(e), ex[e].admitted)
      hit == {k \in DOMAIN net.cached : net.transports[net.cached[k]].key = key}
      new == Len(net.transports) + 1
      made == Append(net.transports, [key |-> key, addresses |-> ex[e].admitted, idle |-> <<>>, dialer |-> 0, inserted |-> 0])
      kept == IF Len(net.cached) >= CacheCapacity THEN Tail(net.cached) ELSE net.cached
  IN /\ ex[e].step = "route" /\ ex[e].hop.kind = "direct"
     /\ \/ \E k \in hit :
             Settle([net EXCEPT !.cached = Append(RemoveAt(@, k), @[k])], [ex EXCEPT ![e].step = "take", ![e].transport = net.cached[k]])
        \/ /\ hit = {}
           /\ Settle([net EXCEPT !.transports = made, !.cached = IF CacheCapacity = 0 THEN @ ELSE Append(kept, new)],
                     [ex EXCEPT ![e].step = "take", ![e].transport = new])
     /\ UNCHANGED dns

\* The newest idle connection, after the ones at the front that are too old;
\* one the server has closed meanwhile is given up for a new one.
take_idle(e) ==
  LET t == ex[e].transport
      idle == net.transports[t].idle
      fresh == SelectSeq(idle, LAMBDA entry : ~entry.old)
      n == Abort([net EXCEPT !.transports[t].idle = IF fresh = <<>> THEN <<>> ELSE Front(fresh)],
                 {idle[k].conn : k \in {j \in DOMAIN idle : idle[j].old}})
      c == Last(fresh).conn
  IN /\ ex[e].step = "take"
     /\ IF fresh = <<>> THEN Settle(n, [ex EXCEPT ![e].step = "open"])
        ELSE IF n.conns[c].state = "closed" THEN Settle(Abort(n, {c}), [ex EXCEPT ![e].step = "open"])
        ELSE Settle([n EXCEPT !.conns[c].owner = e], [ex EXCEPT ![e].step = "send", ![e].conn = c])
     /\ UNCHANGED dns

\* One dial at a time per transport.  The connection's place in the process's
\* and in the origin's budget is taken first.
open_connection(e) ==
  LET t == ex[e].transport
      c == Len(net.conns) + 1
  IN /\ ex[e].step = "open" /\ net.transports[t].dialer = 0
     /\ IF Cardinality(Charged(net)) >= net.sockets \/ Cardinality(OfTransport(net, t)) >= MaxPerOrigin
        THEN Settle(net, Fails(ex, e))
        ELSE c <= MaxConnections /\
             Settle([net EXCEPT !.transports[t].dialer = e,
                                !.conns = Append(@, [transport |-> t, peer |-> 0, owner |-> e, state |-> "dial", permit |-> TRUE, body |-> 0])],
                    [ex EXCEPT ![e].step = "dial", ![e].conn = c])
     /\ UNCHANGED dns

\* A proxied hop has a connection of its own, to the proxy.
open_http_proxy_request(e) ==
  LET c == Len(net.conns) + 1
  IN /\ ex[e].step = "proxy"
     /\ IF Cardinality(Charged(net)) >= net.sockets
        THEN Settle(net, Fails(ex, e))
        ELSE c <= MaxConnections /\
             Settle([net EXCEPT !.conns = Append(@, [transport |-> 0, peer |-> 0, owner |-> e, state |-> "dial", permit |-> TRUE, body |-> 0])],
                    [ex EXCEPT ![e].step = "dial", ![e].conn = c])
     /\ UNCHANGED dns

Undial(n, t) == IF t = 0 THEN n ELSE [n EXCEPT !.transports[t].dialer = 0]
\* The dial, the TLS and the HTTP handshakes end, each within its timeout.
DialEnds(e, end) ==
  LET t == ex[e].transport
      n == Undial(net, t)
  IN /\ ex[e].step = "dial"
     /\ IF end \in {Refused, TimedOut} THEN Settle(Abort(n, {ex[e].conn}), Fails(ex, e))
        ELSE Settle([n EXCEPT !.conns[ex[e].conn].state = "open", !.conns[ex[e].conn].peer = end[2]], [ex EXCEPT ![e].step = "send"])
     /\ UNCHANGED dns

---------------------------------------------------------------------------------
(* A hop of a request. *)

Outbound(e) ==
  build_http_request(Url(e), ex[e].hop, ex[e].redirects.method, Requests[e].range, ex[e].if_range,
                     authorization_for(Auth, Url(e).host), forward_proxy_authorization(ex[e].hop, ProxyAuth), {})
\* The request goes out; whether it arrives is not known yet.
send(e) ==
  /\ ex[e].step = "send"
  /\ IF Is(Outbound(e))
     THEN Settle([net EXCEPT !.conns[ex[e].conn].body = e], [ex EXCEPT ![e].step = "head", ![e].out = Outbound(e)])
     ELSE Settle(Abort(net, {ex[e].conn}), Fails(ex, e))
  /\ UNCHANGED dns
SendFails(e) ==
  /\ ex[e].step = "head"
  /\ Settle(Abort(net, {ex[e].conn}), Fails(ex, e))
  /\ UNCHANGED dns
\* The head arrives.  On a redirect the connection is thrown away, and waited
\* for, before the next hop.
HeadArrives(e, status, location) ==
  /\ ex[e].step = "head" /\ net.conns[ex[e].conn].state = "open"
  /\ IF is_redirect(status)
     THEN Settle(Abort(net, {ex[e].conn}), [ex EXCEPT ![e].step = "discard", ![e].status = status, ![e].location = location])
     ELSE Settle(net, [ex EXCEPT ![e].step = "body", ![e].status = status])
  /\ UNCHANGED dns
Follow(e) ==
  LET decision == follow(ex[e].redirects, ex[e].status, ex[e].location, Requests[e].prefix, Requests[e].digest)
  IN /\ ex[e].step = "discard" /\ net.conns[ex[e].conn].state = "gone"
     /\ IF ~Is(decision) \/ The(decision).restart_from_zero
        THEN Settle(net, Fails(ex, e))
        ELSE Settle(net, [ex EXCEPT ![e].step = "resolve", ![e].redirects = The(decision).state, ![e].conn = 0, ![e].transport = 0,
                                    ![e].out = None, ![e].if_range = IF The(decision).drop_if_range THEN None ELSE @])
     /\ UNCHANGED dns

\* The body is read to its end and the lease given back: a direct connection
\* waits for the next request, the oldest idle one making room for it.
recycle(n, t, c) ==
  LET idle == n.transports[t].idle
      room == IF Len(idle) >= MaxIdle THEN Tail(idle) ELSE idle
      token == n.transports[t].inserted + 1
  IN IF MaxIdle = 0 \/ n.conns[c].state = "closed" THEN Abort(n, {c})
     ELSE [Abort(n, IF Len(idle) >= MaxIdle THEN {idle[1].conn} ELSE {}) EXCEPT
             !.transports[t].idle = Append(room, [conn |-> c, token |-> token, old |-> FALSE]),
             !.transports[t].inserted = token, !.conns[c].owner = 0, !.conns[c].body = 0,
             !.timers = @ \cup {<<t, token>>}]
finish(e) ==
  LET t == ex[e].transport
  IN /\ ex[e].step = "body"
     /\ Settle(IF t = 0 THEN Abort(net, {ex[e].conn}) ELSE recycle(net, t, ex[e].conn),
               [ex EXCEPT ![e].step = "done", ![e].conn = 0, ![e].transport = 0])
     /\ UNCHANGED dns

\* An idle connection outlives its timeout, and its timer comes for it; it finds
\* the entry by its token, for the connection may be idle again since.
GrowsOld(t) ==
  LET idle == net.transports[t].idle
      young == {k \in DOMAIN idle : ~idle[k].old}
  IN /\ young # {}
     /\ net' = [net EXCEPT !.transports[t].idle[Min(young)].old = TRUE]
     /\ UNCHANGED <<dns, ex>>
expire_idle(t, token) ==
  LET idle == net.transports[t].idle
      at == {k \in DOMAIN idle : idle[k].token = token}
  IN /\ <<t, token>> \in net.timers
     /\ \A k \in at : idle[k].old
     /\ net' = Abort([net EXCEPT !.timers = @ \ {<<t, token>>}, !.transports[t].idle = SelectSeq(@, LAMBDA entry : entry.token # token)],
                     {idle[k].conn : k \in at})
     /\ UNCHANGED <<dns, ex>>

\* The caller drops the request: on a timeout, a pause, or an error of the body.
Cancel(e) ==
  /\ ex[e].step \notin Ended \cup {"new"}
  /\ dns' = NoLongerWaits(dns, e)
  /\ Settle(Abort(IF ex[e].step = "dial" THEN Undial(net, ex[e].transport) ELSE net, {ex[e].conn} \ {0}), Fails(ex, e))

ClientNext ==
  \/ \E e \in Exchanges :
       \/ Resolve(e) \/ direct_transport(e) \/ take_idle(e) \/ open_connection(e) \/ open_http_proxy_request(e)
       \/ send(e) \/ SendFails(e) \/ Follow(e) \/ finish(e) \/ Cancel(e)
       \/ /\ ex[e].step = "dial"
          /\ LET to == IF ex[e].transport = 0 THEN ex[e].via ELSE net.transports[ex[e].transport].addresses
             IN \E does \in [Range(to) -> {"answers", "refuses", "silent"}] :
                  \E end \in connect_http_happy_eyeballs(to, does) : DialEnds(e, end)
       \/ HeadArrives(e, 200, None) \/ \E l \in Locations : HeadArrives(e, 302, l)
  \/ \E h \in Hosts :
       \/ \E a \in Answers[h], ttl \in BOOLEAN : run_lookup(h, a, ttl)
       \/ LookupClosed(h) \/ LookupRemoved(h) \/ NameExpires(h)
  \/ \E i \in DOMAIN net.conns : SocketCloses(i) \/ PeerCloses(i)
  \/ \E t \in DOMAIN net.transports : GrowsOld(t) \/ \E k \in 1 .. net.transports[t].inserted : expire_idle(t, k)

---------------------------------------------------------------------------------
\* A connection carries the request of one owner and nothing of an earlier
\* one's, to a peer that this very hop's answer admitted and that policy allows,
\* of this hop's origin (the cache key of http_client.rs, whatever was cached,
\* re-resolved or evicted in between) - or to its proxy, at an address admitted
\* for the proxy's name under the proxy's own policy.
PeersAdmitted ==
  \A e \in Exchanges : ex[e].step \in {"send", "head", "body"} =>
    LET c == net.conns[ex[e].conn]
    IN /\ c.owner = e /\ c.body \in {0, e} /\ \A f \in Exchanges \ {e} : ex[f].conn # ex[e].conn
       /\ \A a \in Range(ex[e].admitted) : address_allowed(Destination, Class[a])
       /\ c.transport = 0 => c.peer \in Range(ex[e].via) /\ address_allowed(ProxyDestination, Class[c.peer])
       /\ c.transport # 0 => c.peer \in Range(ex[e].admitted) /\ net.transports[c.transport].key[1] = origin(Url(e))
       /\ (c.transport = 0) = (ex[e].hop.kind # "direct")
\* The sockets of direct connections hold their place until they are gone, no
\* budget is passed, and an idle connection can still be reached: its transport
\* is held, nobody owns it, and a timer will come for it.
PoolSound ==
  /\ Cardinality(Charged(net)) <= net.sockets
  /\ \A t \in DOMAIN net.transports :
       /\ Cardinality(OfTransport(net, t)) <= MaxPerOrigin /\ Len(net.transports[t].idle) <= MaxIdle
       /\ net.transports[t].dialer # 0 => ex[net.transports[t].dialer].step = "dial" /\ ex[net.transports[t].dialer].transport = t
       /\ \A k \in DOMAIN net.transports[t].idle :
            LET entry == net.transports[t].idle[k]
            IN /\ net.conns[entry.conn].owner = 0 /\ net.conns[entry.conn].body = 0 /\ net.conns[entry.conn].transport = t
               /\ net.conns[entry.conn].state \in {"open", "closed"}
               /\ <<t, entry.token>> \in net.timers
               /\ t \in Range(net.cached) \/ \E e \in Exchanges : ex[e].transport = t
  /\ \A i \in DOMAIN net.conns :
       /\ Live(net.conns[i]) /\ net.conns[i].transport # 0 => net.conns[i].permit
       /\ net.conns[i].state \in {"open", "closed"} /\ net.conns[i].owner = 0 =>
            \E t \in DOMAIN net.transports : i \in IdleConns(net, t)
       /\ net.conns[i].owner # 0 => ex[net.conns[i].owner].conn = i
\* What a request says stays what its hop may be told: a validator of the first
\* origin only to that origin, and never again once it was left; the credentials
\* of a host to that host; a range with a prefix to no other origin unless a
\* digest identifies the content; no step down from TLS; no hop twice.
NothingLeaks ==
  \A e \in Exchanges : Is(ex[e].out) =>
    LET out == The(ex[e].out)
    IN /\ Is(out.if_range) => origin(out.url) = origin(Requests[e].url) /\ \A v \in ex[e].redirects.visited : origin(v[2]) = origin(out.url)
       /\ out.authorization = authorization_for(Auth, out.url.host)
       /\ Is(out.proxy_authorization) => out.hop.kind = "forward"
       /\ Requests[e].prefix /\ ~Requests[e].digest => origin(out.url) = origin(Requests[e].url)
       /\ ~AllowDowngrade /\ out.url.scheme = "http" => \A v \in ex[e].redirects.visited : v[2].scheme = "http"
       /\ ex[e].redirects.hops <= MaxRedirects /\ Cardinality(ex[e].redirects.visited) = ex[e].redirects.hops + 1
\* Whoever waits for a name is known to the lookup that will answer, and the
\* waiting and the lookups keep their bounds.
LookupsAnswer ==
  /\ \A e \in Exchanges : ex[e].step \in {"dns", "proxydns"} <=> \E h \in DOMAIN dns.in_flight : e \in dns.in_flight[h].waiters
  /\ \A h \in DOMAIN dns.in_flight : \A e \in dns.in_flight[h].waiters : h = IF AsksProxy(ex[e]) THEN The(ex[e].hop.proxy) ELSE Url(e).host
  /\ Cardinality(DOMAIN dns.in_flight) <= MaxInFlight /\ Waiters(dns) <= MaxWaiting
=================================================================================
