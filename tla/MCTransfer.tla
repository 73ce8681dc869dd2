------------------------------- MODULE MCTransfer -------------------------------
(***************************************************************************)
(* What fetches a file, one part at a time: the ranges of a file of two    *)
(* pieces, one of two units and one of one, from a source and a mirror of  *)
(* its identity that only races; the HTTP client below them; its cookie    *)
(* jar; its discard ledger; and one source that changes while it is read.  *)
(***************************************************************************)
EXTENDS RangeTransfer

MCLayout == [total |-> 3, plen |-> 2, files |-> <<"out">>, place |-> "p", root |-> "r", ident |-> "i"]
MCSources == [s \in 1 .. 2 |-> [origin |-> s, ordinary |-> s = 1, sameEndgame |-> s = 1, sharedEndgame |-> TRUE,
                                 digests |-> IF s = 1 THEN {Some("d")} ELSE {None, Some("d")}]]
MCPermitted(options) == TRUE
Small(stale) == [Conservative EXCEPT !.maxAttempts = 3, !.maxPerMirror = 2, !.backoff = "fixed", !.stale = stale]
MCPolicies == {Small("revalidate")}
MCHeadCauses == <<{<<"status", 404>>}, {<<"final", "stale">>}>>
MCBodyCauses == {<<"transport", "eof">>}

---------------------------------------------------------------------------------
\* Hosts a and b of one site and c of another; address 9 is this host's own,
\* 8 one of its private network; the proxy p may be on this host.
Link(scheme, host, path) == [scheme |-> scheme, user |-> FALSE, host |-> host, port |-> 0, path |-> path]
RangeOf(url, if_range, prefix) ==
  [url |-> url, method |-> "GET", range |-> Some([len |-> 1]), if_range |-> if_range, prefix |-> prefix, digest |-> FALSE]
Biscuit(domain, host_only, name, secure, same_site, bytes, lasting, live) ==
  [domain |-> domain, host_only |-> host_only, name |-> name, secure |-> secure, same_site |-> same_site,
   bytes |-> bytes, lasting |-> lasting, live |-> live, used |-> 0]

VARIABLES part, hdns, hnet, hex, hjar, hfile, hsent, hledger, hsource
httpVars == <<hdns, hnet, hex, hjar, hfile, hsent, hledger, hsource>>
H == INSTANCE HttpClient WITH
       dns <- hdns, net <- hnet, ex <- hex, jar <- hjar, file <- hfile, sent <- hsent, ledger <- hledger, source <- hsource,
       Class <- [a \in 1 .. 9 |-> IF a = 9 THEN "loopback" ELSE IF a = 8 THEN "private" ELSE "global"],
       Family <- [a \in 1 .. 9 |-> IF a = 2 THEN "v6" ELSE "v4"],
       Canonical <- [a \in 1 .. 9 |-> a],
       Destination <- [loopback |-> FALSE, private |-> FALSE], ProxyDestination <- [loopback |-> TRUE, private |-> FALSE], MaxAddresses <- 3, MaxRedirects <- 1, AllowDowngrade <- FALSE,
       Domains <- [a |-> {"a", "x"}, b |-> {"b", "x"}, c |-> {"c"}],
       Site <- [a |-> "x", b |-> "x", c |-> "c", x |-> "x"], PublicSuffixes <- {"x"},
       Cookies <- {Biscuit("a", TRUE, "n", FALSE, "strict", 1, TRUE, TRUE), Biscuit("x", FALSE, "n", TRUE, "lax", 2, FALSE, TRUE),
                   Biscuit("c", TRUE, "m", TRUE, "none", 1, TRUE, TRUE), Biscuit("c", FALSE, "k", FALSE, "lax", 3, FALSE, TRUE),
                   Biscuit("a", TRUE, "n", FALSE, "lax", 1, TRUE, FALSE)},
       Urls <- {Link("https", "a", "1"), Link("http", "b", "1"), Link("https", "c", "1")},
       CookieEntries <- 3, DomainEntries <- 2, DomainBytes <- 3, HeaderBytes <- 2, MaxSequence <- 4,
       ProcessBytes <- 3, SharedBytes <- 1, HostNames <- {"h", "i"}, TaskNames <- {"t", "s"},
       ScopeLimits <- {[task |-> 2, host |-> 2, attempt |-> 2], [task |-> 3, host |-> 1, attempt |-> 1]},
       Charges <- {1, 2}, MaxScopes <- 1, MaxAttempts <- 2,
       Styles <- {"strong", "weak", "date", "digest", "none"}, MaxVersion <- 1, SourceTotal <- 4,
       Exchanges <- {1, 2},
       Requests <- <<RangeOf(Link("https", "a", "1"), Some("tag"), FALSE), RangeOf(Link("https", "a", "2"), None, TRUE)>>,
       Answers <- [a |-> {Some(<<1, 2>>), Some(<<2>>), Some(<<9>>)}, b |-> {Some(<<3>>)}, p |-> {Some(<<9>>), Some(<<8>>)}],
       Locations <- {Some(Link("https", "b", "1"))},
       ProxyPolicy <- [http |-> None, https |-> Some([kind |-> "http", host |-> "p", pinned |-> TRUE]), all |-> None,
                       no_proxy |-> {[kind |-> "exact", of |-> "a"]}],
       ProxyAuth <- None, Auth <- [explicit |-> [a |-> "ca"], netrc |-> [b |-> "cb"]],
       SocketLimits <- {1, 2}, MaxPerOrigin <- 2, MaxIdle <- 1, CacheCapacity <- 1,
       MaxInFlight <- 1, MaxNameWaiters <- 2, MaxWaiting <- 2, NameCache <- 1, MaxConnections <- 2

---------------------------------------------------------------------------------
NoRanges == policy = 0 /\ w = 0 /\ tasks = 0 /\ events = 0 /\ now = 0 /\ phase = 0 /\ runs = 0 /\ raced = 0
FetchInit ==
  /\ part \in {"ranges", "client", "jar", "ledger", "source"}
  /\ IF part = "ranges" THEN TransferInit ELSE NoRanges
  /\ IF part = "client" THEN H!ClientInit ELSE hdns = 0 /\ hnet = 0 /\ hex = 0
  /\ IF part = "jar" THEN H!JarInit ELSE hjar = 0 /\ hfile = 0 /\ hsent = 0
  /\ IF part = "ledger" THEN H!LedgerInit ELSE hledger = 0
  /\ IF part = "source" THEN H!SourceInit ELSE hsource = 0
FetchNext ==
  /\ UNCHANGED part
  /\ IF part = "ranges" THEN TransferNext ELSE UNCHANGED transferVars
  /\ IF part = "client" THEN H!ClientNext ELSE UNCHANGED <<hdns, hnet, hex>>
  /\ IF part = "jar" THEN H!JarNext ELSE UNCHANGED <<hjar, hfile, hsent>>
  /\ IF part = "ledger" THEN H!LedgerNext ELSE UNCHANGED hledger
  /\ IF part = "source" THEN H!SourceNext ELSE UNCHANGED hsource
fetchVars == <<part, transferVars, httpVars>>
FetchSpec == FetchInit /\ [][FetchNext]_fetchVars

\* Attempts, leases, records and budgets agree, and the owner neither
\* contradicts itself nor waits for nobody (RangeTransfer LeasesAgree,
\* OwnerNotConfused).
RangesSound == part = "ranges" => LeasesAgree /\ OwnerNotConfused
\* A run that ends well has every piece, and leaves no attempt or lease behind
\* (RangeTransfer RunsEndWhole).
RunsWhole == part = "ranges" => RunsEndWhole
\* A request reaches only an admitted peer over a connection it owns, says
\* nothing to a host that is not its own, and waits for an answer that comes
\* (PeersAdmitted, PoolSound, NothingLeaks, LookupsAnswer); cookies, discarded
\* bytes and the versions of a source stay apart (JarSound, LedgerSound,
\* OneVersion).
HttpSound ==
  /\ part = "client" => H!PeersAdmitted /\ H!PoolSound /\ H!NothingLeaks /\ H!LookupsAnswer
  /\ part = "jar" => H!JarSound
  /\ part = "ledger" => H!LedgerSound
  /\ part = "source" => H!OneVersion
=================================================================================
