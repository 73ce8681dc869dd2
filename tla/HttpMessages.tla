------------------------------ MODULE HttpMessages ------------------------------
(***************************************************************************)
(* What the HTTP client says and what it accepts, apart from the wire: the *)
(* destinations it admits (http_connector.rs, http_resolver.rs), the order *)
(* it dials them in (http_happy_eyeballs.rs), the redirects it follows     *)
(* (http_redirect.rs), the route and the request of a hop (http_proxy.rs,  *)
(* http_request.rs, http_auth.rs), the heads it takes for a range          *)
(* (http_response.rs), the cookie jar (http_cookie.rs) and the ledger of   *)
(* discarded bytes (http_discard.rs).                                      *)
(*                                                                         *)
(* A URL is a record of the parts the code compares.  The text behind a    *)
(* part, and the parsers of the url, hyper and cookie crates, are outside. *)
(***************************************************************************)
EXTENDS Integers, Sequences, FiniteSets, FiniteSetsExt, SequencesExt, Maps

CONSTANTS
  Class,            \* what classify_http_address says of an address
  Family,           \* and its family, "v4" or "v6"
  Canonical,        \* the embedded IPv4 address of a mapped one, the address itself otherwise
  Destination, ProxyDestination,   \* whom the policy lets a URL and a proxy name: [loopback, private]
  MaxAddresses,
  MaxRedirects, AllowDowngrade,
  Domains,          \* the domains a host name belongs to, itself included
  Site,             \* its registrable domain
  PublicSuffixes    \* and the domains nobody may set a cookie for

---------------------------------------------------------------------------------
(* Destinations. *)

address_allowed(policy, class) ==
  \/ class = "global"
  \/ class = "loopback" /\ policy.loopback
  \/ class \in {"private", "unique_local"} /\ policy.private

\* Every answer is judged before any is used; one denied address refuses all.
admit_addresses(policy, answer) ==
  LET seen == [i \in 1 .. Len(answer) |-> Canonical[answer[i]]]
      admitted == SelectSeq([i \in 1 .. Len(seen) |-> i], LAMBDA i : \A j \in 1 .. i - 1 : seen[j] # seen[i])
  IN IF \/ admitted = <<>>
        \/ Len(admitted) > MaxAddresses
        \/ \E i \in Range(admitted) : ~address_allowed(policy, Class[seen[i]])
     THEN None
     ELSE Some([k \in 1 .. Len(admitted) |-> seen[admitted[k]]])

\* The resolver's answer, each address once and the families in turn, the
\* family of the first address first.
normalize_addresses(answer) ==
  LET once == SelectSeq([i \in 1 .. Len(answer) |-> i], LAMBDA i : \A j \in 1 .. i - 1 : answer[j] # answer[i])
      addresses == [k \in 1 .. Len(once) |-> answer[once[k]]]
      x == SelectSeq(addresses, LAMBDA a : Family[a] = Family[addresses[1]])
      y == SelectSeq(addresses, LAMBDA a : Family[a] # Family[addresses[1]])
      both == Min({Len(x), Len(y)})
      rest == IF Len(x) > Len(y) THEN x ELSE y
  IN IF addresses = <<>> \/ Len(addresses) > MaxAddresses
     THEN None
     ELSE Some([i \in 1 .. Len(addresses) |->
                  IF i > 2 * both THEN rest[i - both] ELSE IF i % 2 = 1 THEN x[(i + 1) \div 2] ELSE y[i \div 2]])

\* The ways a dial of one or two addresses may end, when each of them answers,
\* refuses or stays silent: the second starts when the first is late or fails.
Peer(a) == <<"peer", a>>
Refused == <<"refused">>
TimedOut == <<"timeout">>
connect_pair(pair, does) ==
  LET answering == {Peer(a) : a \in {b \in Range(pair) : does[b] = "answers"}}
  IN IF answering # {} THEN answering
     ELSE IF \A a \in Range(pair) : does[a] = "refuses" THEN {Refused} ELSE {TimedOut}

\* Pairs in order under one deadline: a silent pair spends it, a refusing one
\* passes on to the next.
connect_http_happy_eyeballs(addresses, does) ==
  LET pairs == (Len(addresses) + 1) \div 2
      from[i \in 1 .. pairs + 1] ==
        IF i > pairs THEN {Refused}
        ELSE UNION {IF end = Refused THEN from[i + 1] ELSE {end} :
                      end \in connect_pair(SubSeq(addresses, 2 * i - 1, Min({2 * i, Len(addresses)})), does)}
  IN from[1]

\* A destination is a URL one may ask, with the addresses admitted for its host.
validate_http_url(u) == u.scheme \in {"http", "https"} /\ ~u.user /\ u.host # ""
resolve_http_destination_with_resolver(u, policy, answer) ==
  IF validate_http_url(u) /\ Is(answer) THEN admit_addresses(policy, The(answer)) ELSE None

---------------------------------------------------------------------------------
(* Redirects, routes and requests. *)

origin(u) == <<u.scheme, u.host, u.port>>
is_redirect(status) == status \in {301, 302, 303, 307, 308}
redirected_method(method, status) ==
  IF (status = 303 /\ method # "HEAD") \/ (status \in {301, 302} /\ method = "POST") THEN "GET" ELSE method

HttpRedirectState(u, method) == [current |-> u, method |-> method, hops |-> 0, visited |-> {<<method, u>>}]

\* The next hop, or nothing when it may not be followed.
follow(state, status, location, nonzero_durable_prefix, shared_whole_entity_digest) ==
  LET method == redirected_method(state.method, status)
      target == The(location)
      origin_changed == origin(state.current) # origin(target)
  IN IF \/ ~is_redirect(status)
        \/ state.hops >= MaxRedirects
        \/ ~Is(location)
        \/ ~validate_http_url(target)
        \/ state.current.scheme = "https" /\ target.scheme = "http" /\ ~AllowDowngrade
        \/ <<method, target>> \in state.visited
     THEN None
     ELSE Some([state |-> [current |-> target, method |-> method, hops |-> state.hops + 1,
                           visited |-> state.visited \cup {<<method, target>>}],
                drop_if_range |-> origin_changed,
                restart_from_zero |-> origin_changed /\ nonzero_durable_prefix /\ ~shared_whole_entity_digest])

bypasses(no_proxy, host) ==
  \E rule \in no_proxy :
    \/ rule.kind = "any"
    \/ rule.kind = "exact" /\ rule.of = host
    \/ rule.kind = "suffix" /\ rule.of \in Domains[host]

\* A proxy is told the pinned address, or the name when it is trusted to
\* enforce the policy itself.
route(policy, u, pinned) ==
  LET own == IF u.scheme = "http" THEN policy.http ELSE policy.https
      proxy == IF Is(own) THEN own ELSE policy.all
  IN IF bypasses(policy.no_proxy, u.host) \/ ~Is(proxy)
     THEN [kind |-> "direct", target |-> pinned, proxy |-> None]
     ELSE [kind |-> IF The(proxy).kind = "socks5" THEN "socks5" ELSE IF u.scheme = "http" THEN "forward" ELSE "connect",
           target |-> IF The(proxy).pinned THEN pinned ELSE u.host, proxy |-> Some(The(proxy).host)]
\* The proxy's own name is resolved as that of a plain URL.
proxy_resolution_uri(host) == [scheme |-> "http", user |-> FALSE, host |-> host, port |-> 0, path |-> "/"]

forward_proxy_authorization(hop, authorization) == IF hop.kind = "forward" THEN authorization ELSE None

\* Explicit credentials before those of the netrc file, both by host.
authorization_for(auth, host) ==
  IF host \in DOMAIN auth.explicit THEN Some(auth.explicit[host]) ELSE Entry(auth.netrc, host)

build_http_request(u, hop, method, range, if_range, authorization, proxy_authorization, cookies) ==
  IF \/ method \notin {"GET", "HEAD"}
     \/ ~validate_http_url(u)
     \/ Is(range) /\ The(range).len = 0
     \/ Is(if_range) /\ ~Is(range)
     \/ Is(proxy_authorization) /\ hop.kind # "forward"
  THEN None
  ELSE Some([url |-> u, hop |-> hop, method |-> method, range |-> range, if_range |-> if_range,
             authorization |-> authorization, proxy_authorization |-> proxy_authorization, cookies |-> cookies])

---------------------------------------------------------------------------------
(* The head of an answer to a range.  A field is the sequence of its values; *)
(* Bad stands for one that does not parse.                                   *)

Bad == -1
single_header(values) == IF Len(values) = 1 THEN Some(values[1]) ELSE None
single_decimal_header(values) == IF Len(values) = 1 /\ values[1] # Bad THEN Some(values[1]) ELSE None
identity(head) == head.encoding \in {<<>>, <<"identity">>}
parse_content_range(r) == IF r.start <= r.end /\ r.end < r.total THEN Some(r) ELSE None
\* At most one value, and that one valid: <<the value>> or <<>>, or nothing at all.
AtMostOne(values, invalid) ==
  IF values = <<>> THEN Some(None) ELSE IF Len(values) = 1 /\ values[1] \notin invalid THEN Some(Some(values[1])) ELSE None
parse_etag(head) == AtMostOne(head.etag, [tag : {Bad}, strong : BOOLEAN])
parse_last_modified(head) == AtMostOne(head.modified, {Bad})
parse_repr_digest(head) == AtMostOne(head.digest, {Bad})

\* The total length when the head is one of exactly this span.
validate_exact_range_head(head, offset, len, expected_total) ==
  LET range == single_header(head.range)
  IN IF /\ head.status = 206
        /\ ~head.transfer
        /\ identity(head)
        /\ single_decimal_header(head.length) = Some(len)
        /\ Is(range) /\ Is(parse_content_range(The(range)))
        /\ The(range).start = offset /\ The(range).end = offset + len - 1
        /\ expected_total \in {None, Some(The(range).total)}
     THEN Some(The(range).total)
     ELSE None

validate_empty_probe(head) ==
  /\ ~head.transfer
  /\ identity(head)
  /\ single_decimal_header(head.length) = Some(0)
  /\ IF head.status = 416 THEN single_header(head.range) = Some([start |-> 0, end |-> -1, total |-> 0]) ELSE head.range = <<>>

\* What one probe says of a source, or nothing.
from_probe(final_uri, head) ==
  LET total == IF head.status \in {200, 416} /\ head.length # <<>> /\ head.length[1] = 0
               THEN IF validate_empty_probe(head) THEN Some(0) ELSE None
               ELSE validate_exact_range_head(head, 0, 1, None)
  IN IF Is(total) /\ Is(parse_etag(head)) /\ Is(parse_last_modified(head)) /\ Is(parse_repr_digest(head))
     THEN Some([final_uri |-> final_uri, total |-> The(total), etag |-> The(parse_etag(head)),
                modified |-> The(parse_last_modified(head)), digest |-> The(parse_repr_digest(head))])
     ELSE None

\* A weak tag is remembered but not sent.
if_range_of(validator) == IF Is(validator.etag) /\ The(validator.etag).strong THEN validator.etag ELSE None

validate_range(validator, final_uri, head, offset, len) ==
  /\ final_uri = validator.final_uri
  /\ Is(validate_exact_range_head(head, offset, len, Some(validator.total)))
  /\ Is(parse_etag(head)) /\ Is(parse_last_modified(head)) /\ Is(parse_repr_digest(head))
  /\ IF Is(validator.etag) THEN The(parse_etag(head)) = validator.etag
     ELSE Is(validator.modified) => The(parse_last_modified(head)) = validator.modified
  /\ Is(validator.digest) => Is(The(parse_repr_digest(head)))

---------------------------------------------------------------------------------
(* The cookie jar.  A cookie is known by its domain and its name; `used` is *)
(* the sequence of its last use.  `sent` is the last header, and the cookie *)
(* the last step stored.                                                    *)

CONSTANTS Cookies, Urls, CookieEntries, DomainEntries, DomainBytes, HeaderBytes, MaxSequence
VARIABLES jar, file, sent
jarVars == <<jar, file, sent>>

NothingSent == [url |-> 0, top |-> 0, cookies |-> {}, stored |-> {}]
SameCookie(c, d) == c.domain = d.domain /\ c.name = d.name
InDomain(c, host) == IF c.host_only THEN c.domain = host ELSE c.domain \in Domains[host]
Weight(S) == FoldSet(LAMBDA c, n : c.bytes + n, 0, S)

rebuild_metadata(store, cookie, sequence) ==
  {c \in store : ~SameCookie(c, cookie)} \cup (IF cookie.live THEN {[cookie EXCEPT !.used = sequence]} ELSE {})

\* The least recently used of a domain over its share goes first, then the
\* least recently used of all.
RECURSIVE enforce_cookie_limits(_)
enforce_cookie_limits(store) ==
  LET bucket(c) == {d \in store : Site[d.domain] = Site[c.domain]}
      overfull == {c \in store : Cardinality(bucket(c)) > DomainEntries \/ Weight(bucket(c)) > DomainBytes}
      oldest(S) == CHOOSE c \in S : \A d \in S : c.used <= d.used
  IN IF overfull # {} THEN enforce_cookie_limits(store \ {oldest(bucket(CHOOSE c \in overfull : TRUE))})
     ELSE IF Cardinality(store) > CookieEntries THEN enforce_cookie_limits(store \ {oldest(store)})
     ELSE store

\* The jar after the cookie, or nothing when it is refused.
store_raw_cookie(j, u, cookie) ==
  IF \/ cookie.same_site = "none" /\ ~cookie.secure
     \/ cookie.domain \in PublicSuffixes /\ ~cookie.host_only
     \/ ~InDomain(cookie, u.host)
  THEN None
  ELSE Some([store |-> enforce_cookie_limits(rebuild_metadata(j.store, cookie, j.sequence + 1)), sequence |-> j.sequence + 1])

same_site_cookie_allowed(c, same_site, safe, u) ==
  CASE c.same_site = "strict" -> same_site
    [] c.same_site \in {"lax", "absent"} -> same_site \/ safe
    [] c.same_site = "none" -> c.secure /\ u.scheme = "https"

schemeful_site(u) == <<u.scheme, Site[u.host]>>
Selected(j, u, top_level, method) ==
  {c \in j.store : /\ InDomain(c, u.host) /\ (c.secure => u.scheme = "https")
                   /\ same_site_cookie_allowed(c, schemeful_site(u) = schemeful_site(top_level), method \in {"GET", "HEAD"}, u)}

\* Sending a cookie is using it; too large a header refuses the request.
HeaderFor(u, top_level) ==
  LET selected == Selected(jar, u, top_level, "GET")
  IN /\ jar.sequence < MaxSequence
     /\ IF Weight(selected) > HeaderBytes \/ selected = {}
        THEN UNCHANGED jar
        ELSE jar' = [store |-> {IF c \in selected THEN [c EXCEPT !.used = jar.sequence + 1] ELSE c : c \in jar.store},
                     sequence |-> jar.sequence + 1]
     /\ sent' = [url |-> u, top |-> top_level, cookies |-> IF Weight(selected) > HeaderBytes THEN {} ELSE selected, stored |-> {}]
     /\ UNCHANGED file

StoreSetCookie(u, cookie) ==
  /\ jar.sequence < MaxSequence
  /\ Is(store_raw_cookie(jar, u, cookie))
  /\ jar' = The(store_raw_cookie(jar, u, cookie))
  /\ sent' = [sent EXCEPT !.stored = {cookie}]
  /\ UNCHANGED file

Expire(c) ==
  /\ c \in jar.store /\ c.lasting
  /\ jar' = [jar EXCEPT !.store = @ \ {c}]
  /\ sent' = [sent EXCEPT !.stored = {}]
  /\ UNCHANGED file

\* Written beside the old file and renamed over it: a failure leaves the old
\* one.  A line has no field for SameSite.
netscape_line(c) == [c EXCEPT !.same_site = "absent"]
SaveNetscape ==
  /\ file' = {netscape_line(c) : c \in {d \in jar.store : d.lasting}}
  /\ UNCHANGED <<jar, sent>>

\* A new process reads the file line by line into a copy, without the lines
\* that have expired, and keeps the copy only when every other was taken.
LoadNetscape(expired) ==
  LET lines == SetToSeq(file \ expired)
      url(c) == [scheme |-> IF c.secure THEN "https" ELSE "http", user |-> FALSE, host |-> c.domain, port |-> 0, path |-> "/"]
      read[i \in 0 .. Len(lines)] ==
        IF i = 0 THEN Some([store |-> {}, sequence |-> 0])
        ELSE IF Is(read[i - 1]) THEN store_raw_cookie(The(read[i - 1]), url(lines[i]), lines[i]) ELSE None
  IN /\ jar' = IF Is(read[Len(lines)]) THEN The(read[Len(lines)]) ELSE [store |-> {}, sequence |-> 0]
     /\ sent' = NothingSent
     /\ UNCHANGED file

JarInit ==
  /\ jar = [store |-> {}, sequence |-> 0]
  /\ file = {}
  /\ sent = NothingSent
JarNext ==
  \/ \E u, v \in Urls : HeaderFor(u, v)
  \/ \E u \in Urls, c \in Cookies : StoreSetCookie(u, c)
  \/ \E c \in jar.store : Expire(c)
  \/ SaveNetscape
  \/ \E expired \in SUBSET file : LoadNetscape(expired)

\* Whatever was stored, used, expired, saved and read back: the jar keeps its
\* limits and each cookie once; a cookie goes only to hosts of its domain, a
\* secure one only over TLS, and one the jar knows as strict never from another
\* site (one read back from the file is no longer known as strict); the file
\* holds no session cookie; and the cookie stored last is still there unless
\* its domain cannot hold it alone (enforce_cookie_limits evicts the least
\* recently used).
JarSound ==
  /\ Cardinality(jar.store) <= CookieEntries
  /\ \A c \in jar.store : LET of == {d \in jar.store : Site[d.domain] = Site[c.domain]}
                          IN Cardinality(of) <= DomainEntries /\ Weight(of) <= DomainBytes
  /\ \A c, d \in jar.store : SameCookie(c, d) => c = d
  /\ \A c \in sent.cookies :
       /\ sent.url.host = c.domain \/ (~c.host_only /\ c.domain \in Domains[sent.url.host])
       /\ c.secure => sent.url.scheme = "https"
       /\ c.same_site = "strict" => Site[sent.url.host] = Site[sent.top.host] /\ sent.url.scheme = sent.top.scheme
  /\ Weight(sent.cookies) <= HeaderBytes
  /\ \A c \in file : c.lasting
  /\ \A c \in sent.stored : c.live /\ c.bytes <= DomainBytes => \E d \in jar.store : SameCookie(c, d)

---------------------------------------------------------------------------------
(* The ledger of bytes read and thrown away: one for the process, one per    *)
(* host, one per task, one per attempt.  Beyond MaxScopes hosts or tasks the *)
(* rest share one.                                                           *)

CONSTANTS ProcessBytes, SharedBytes, HostNames, TaskNames, ScopeLimits, Charges, MaxScopes, MaxAttempts
VARIABLE ledger
Overflow == "overflow"
Scope(limit) == [limit |-> limit, consumed |-> 0]
Remaining(scope) == Max({0, scope.limit - scope.consumed})
raise_limit(scope, requested) == [scope EXCEPT !.limit = Max({@, requested})]
\* The scope of a name: its own, a new one, or the shared one when all are taken.
ScopeOf(scopes, name) == IF name \in DOMAIN scopes \/ Cardinality(DOMAIN scopes \ {Overflow}) < MaxScopes THEN name ELSE Overflow
Joined(scopes, name, limit) ==
  LET at == ScopeOf(scopes, name)
  IN Put(scopes, at, IF at \in DOMAIN scopes THEN raise_limit(scopes[at], limit) ELSE Scope(limit))

BeginTask(task, limits) ==
  /\ \A g \in ledger.guards : g.task # task
  /\ ledger' = [ledger EXCEPT !.tasks = Joined(@, task, limits.task),
                              !.guards = @ \cup {[task |-> task, scope |-> ScopeOf(ledger.tasks, task), limits |-> limits]}]

BeginAttempt(guard, host, bytes) ==
  /\ Len(ledger.attempts) < MaxAttempts
  /\ ledger' = [ledger EXCEPT !.hosts = Joined(@, host, guard.limits.host),
                              !.attempts = Append(@, [task |-> guard.scope, host |-> ScopeOf(ledger.hosts, host),
                                                      scope |-> Scope(Min({bytes, guard.limits.attempt}))])]

\* The same amount is charged to all four, what the tightest of them has left.
Charge(i, requested) ==
  LET a == ledger.attempts[i]
      available == Min({Remaining(ledger.process), Remaining(ledger.hosts[a.host]), Remaining(ledger.tasks[a.task]), Remaining(a.scope)})
      charged == Min({requested, available})
  IN ledger' = [ledger EXCEPT !.process.consumed = @ + charged, !.hosts[a.host].consumed = @ + charged,
                              !.tasks[a.task].consumed = @ + charged, !.attempts[i].scope.consumed = @ + charged]

\* A guard is dropped with its run; the scopes and what they spent remain.
EndTask(guard) == ledger' = [ledger EXCEPT !.guards = @ \ {guard}]

LedgerInit ==
  ledger = [process |-> Scope(ProcessBytes), hosts |-> (Overflow :> Scope(SharedBytes)), tasks |-> (Overflow :> Scope(SharedBytes)),
            attempts |-> <<>>, guards |-> {}]
LedgerNext ==
  \/ \E t \in TaskNames, l \in ScopeLimits : BeginTask(t, l)
  \/ \E g \in ledger.guards, h \in HostNames, n \in Charges : BeginAttempt(g, h, n)
  \/ \E i \in DOMAIN ledger.attempts, n \in Charges : Charge(i, n)
  \/ \E g \in ledger.guards : EndTask(g)

\* No scope is charged past its limit, and each holds exactly what the attempts
\* below it threw away, also when they share the overflow scope.
LedgerSound ==
  LET Below(in(_)) == FoldSet(LAMBDA i, n : ledger.attempts[i].scope.consumed + n, 0, {i \in DOMAIN ledger.attempts : in(ledger.attempts[i])})
  IN /\ ledger.process.consumed <= ledger.process.limit /\ ledger.process.consumed = Below(LAMBDA a : TRUE)
     /\ \A h \in DOMAIN ledger.hosts : ledger.hosts[h].consumed <= ledger.hosts[h].limit
                                       /\ ledger.hosts[h].consumed = Below(LAMBDA a : a.host = h)
     /\ \A t \in DOMAIN ledger.tasks : ledger.tasks[t].consumed <= ledger.tasks[t].limit
                                       /\ ledger.tasks[t].consumed = Below(LAMBDA a : a.task = t)
     /\ \A i \in DOMAIN ledger.attempts : ledger.attempts[i].scope.consumed <= ledger.attempts[i].scope.limit

---------------------------------------------------------------------------------
(* One source that may change between the probe and the ranges, and that may  *)
(* answer with any of Heads (external: the server).                           *)

CONSTANTS Styles, MaxVersion, SourceTotal
VARIABLE source
\* The validators a server of that style sends for a version: a date may stay
\* the same when the content changes.
HeadOf(style, version, offset, len, date) ==
  [status |-> 206, transfer |-> FALSE, encoding |-> <<>>, length |-> <<len>>,
   range |-> <<[start |-> offset, end |-> offset + len - 1, total |-> SourceTotal]>>,
   etag |-> IF style \in {"strong", "weak"} THEN <<[tag |-> version, strong |-> style = "strong"]>> ELSE <<>>,
   modified |-> IF style = "date" THEN <<date>> ELSE <<>>, digest |-> IF style = "digest" THEN <<version>> ELSE <<>>]
\* The ways a head goes wrong that the code looks at.
Spoiled(head) ==
  {[head EXCEPT !.status = 200], [head EXCEPT !.status = 416], [head EXCEPT !.transfer = TRUE], [head EXCEPT !.encoding = <<"gzip">>],
   [head EXCEPT !.length = @ \o @], [head EXCEPT !.length = <<Bad>>], [head EXCEPT !.range = @ \o @],
   [head EXCEPT !.range[1].start = @ + 1], [head EXCEPT !.range[1].total = @ + 1],
   [head EXCEPT !.etag = @ \o @], [head EXCEPT !.digest = <<Bad>>], [head EXCEPT !.modified = @ \o @],
   [head EXCEPT !.status = 200, !.length = <<0>>, !.range = <<>>],
   [head EXCEPT !.status = 416, !.length = <<0>>, !.range = <<[start |-> 0, end |-> -1, total |-> 0]>>]}

SourceInit == source \in [style : Styles, version : {0}, date : {0}, validator : {None}, taken : {{}}]
Change(keepsDate) ==
  /\ source.version < MaxVersion
  /\ source' = [source EXCEPT !.version = @ + 1, !.date = IF keepsDate THEN @ ELSE @ + 1]
Probe(head, uri) ==
  /\ source.validator = None
  /\ source' = [source EXCEPT !.validator = from_probe(uri, head),
                              !.taken = IF Is(from_probe(uri, head)) THEN {[version |-> source.version, date |-> source.date, offset |-> 0, len |-> 1, head |-> head]} ELSE @]
\* A server that honours If-Range answers with the whole content when it differs.
TakeRange(offset, len, head, uri) ==
  /\ source.validator # None
  /\ validate_range(The(source.validator), uri, head, offset, len)
  /\ source' = [source EXCEPT !.taken = @ \cup {[version |-> source.version, date |-> source.date, offset |-> offset, len |-> len, head |-> head]}]
SourceNext ==
  \/ \E b \in BOOLEAN : Change(b)
  \/ LET head == HeadOf(source.style, source.version, 0, 1, source.date)
     IN \E h \in Spoiled(head) \cup {head}, u \in {"u", "v"} : Probe(h, u)
  \/ \E offset \in {0, 2}, len \in {1, 2} :
       LET head == HeadOf(source.style, source.version, offset, len, source.date)
       IN \E h \in Spoiled(head) \cup {head}, u \in {"u", "v"} : TakeRange(offset, len, h, u)

\* Every range taken is exactly the one asked for and one of the version the
\* probe saw, when the source names its versions by a tag; by a date only as
\* far as the date tells them apart; and the digest of each range is known
\* when the probe announced one (validate_range leaves its value to the caller).
OneVersion ==
  Is(source.validator) =>
    \A t \in source.taken :
      /\ The(source.validator).total = 0 \/ t.head.range[1] = [start |-> t.offset, end |-> t.offset + t.len - 1, total |-> The(source.validator).total]
      /\ t.head.transfer = FALSE /\ t.head.encoding = <<>>
      /\ source.style \in {"strong", "weak"} => \A s \in source.taken : s.version = t.version
      /\ source.style = "date" => \A s \in source.taken : s.date = t.date
      /\ source.style = "digest" => t.head.digest # <<>>
=================================================================================
