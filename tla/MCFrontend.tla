------------------------------- MODULE MCFrontend -------------------------------
(***************************************************************************)
(* What stands between a client and the engine, one part at a time: the    *)
(* session database, the RPC service, the options of tasks and process,    *)
(* the BitTorrent lane and its bandwidth share.  A behaviour is one of a   *)
(* single part, chosen by its first state.                                 *)
(***************************************************************************)
EXTENDS SessionDatabase, RpcService, TaskOptions, BtBridge

VARIABLE part

---------------------------------------------------------------------------------
\* A client sets a host key's pin like any option.  A torrent is a magnet link,
\* bare or completed by the swarm; metainfo with a path clash is what the
\* commands must refuse.
MCKeys == {"k1", "k2"}
MCEntries == {Pin("k1")}
ABinding(magnet, metainfo, info, files) == [magnet |-> magnet, metainfo |-> metainfo, info |-> info, files |-> files]
MCBindings == {ABinding(TRUE, FALSE, FALSE, "none"), ABinding(TRUE, FALSE, TRUE, "ok"), ABinding(FALSE, TRUE, FALSE, "clash")}

\* A WebSocket and an HTTP client, with batches, notifications, a multicall,
\* an invalid member and one without the token.
AMember(id, kind, token) == [id |-> id, kind |-> kind, token |-> token]
ABatch(form, members) == [form |-> form, members |-> members]
MCClients ==
  <<[ws |-> TRUE,
     frames |-> <<ABatch("batch", <<AMember(FALSE, "run", TRUE)>>),
                  ABatch("batch", <<AMember(TRUE, "filter", TRUE), AMember(TRUE, "bad", TRUE), AMember(TRUE, "run", FALSE),
                                    AMember(FALSE, "run", TRUE)>>)>>],
    [ws |-> FALSE,
     frames |-> <<ABatch("multi", <<AMember(TRUE, "run", TRUE), AMember(TRUE, "bad", TRUE), AMember(TRUE, "filter", TRUE)>>),
                  ABatch("batch", << >>)>>]>>
\* A task's status, an aria2 notification, and the status again; the second
\* task's status is a large one.
AnEvent(class, key, object, large) == [class |-> class, key |-> key, object |-> object, large |-> large]
MCBroadcasts == <<AnEvent("coalesced", 2, TRUE, FALSE), AnEvent("reliable", 1, FALSE, FALSE),
                  AnEvent("coalesced", 2, TRUE, FALSE), AnEvent("coalesced", 3, TRUE, TRUE)>>

\* Configuration files with and without rules, a lenient one and one that
\* names the generation it replaces; patches, additions and changes.
ADocument(flat, rules) == [flat |-> flat, rules |-> rules, lenient |-> FALSE, expected |-> None]
ARule(sites, options) == [sites |-> sites, stop |-> FALSE, options |-> options]
MCDocuments ==
  {ADocument(("split" :> 8) @@ ("retry-profile" :> "aggressive") @@ ("ftp-pasv" :> "false"),
             Some(<<ARule({"a"}, ("max-tries" :> 4) @@ ("retry-on-http-status-add" :> {418}))>>)),
   [ADocument(("max-overall-download-limit" :> 100) @@ ("retry-max-attempts-per-mirror" :> 2)
              @@ ("enable-http-pipelining" :> "true"), None) EXCEPT !.lenient = TRUE],
   [ADocument("timeout" :> 30, Some(<<>>)) EXCEPT !.expected = Some(1)]}
MCGlobal == {"retry-on-http-status-add" :> {404}, "max-tries" :> 9, "max-overall-download-limit" :> 50}
AnAddition(scheme, site, user, options, admin) ==
  [scheme |-> scheme, site |-> site, user |-> user, safe |-> ~user, options |-> options, admin |-> admin]
MCAdditions == {AnAddition("http", "b", FALSE, ("split" :> 3) @@ ("ftp-pasv" :> "true"), FALSE),
                AnAddition("ftp", "a", TRUE, ("ftp-user" :> "u") @@ ("sftp-check-host-key" :> "false"), TRUE)}
MCPatches == {[patch |-> "dir" :> "root", restart |-> FALSE],
              [patch |-> "retry-on-http-status" :> {503}, restart |-> FALSE],
              [patch |-> ("max-tries" :> 9) @@ ("split" :> 2), restart |-> TRUE]}

\* The torrents share an output; one of them also claims the transfer's.
MCOutputs == [t \in {1, 2} |-> IF t = 1 THEN {1, 2} ELSE {2}]

---------------------------------------------------------------------------------
NoDatabase == db \in put_session(EmptyDatabase, "session") /\ family = "keys" /\ asked = {} /\ setup = SetupOf
NoRpc == budget = 0 /\ conns = 0 /\ published = 0 /\ rpcClosing = FALSE
NoOptionsPart == config = 0 /\ pending = 0 /\ specs = 0 /\ rows = 0 /\ answered = 0 /\ edits = 0 /\ globalRate = 0
NoBt == task = 0 /\ store = 0 /\ native = 0 /\ disk = 0 /\ sched = 0 /\ mailbox = 0 /\ admission = 0 /\ transfer = 0
        /\ plane = 0 /\ trouble = 0

FrontendInit ==
  /\ part \in {"store", "rpc", "options", "bt", "rates"}
  /\ IF part = "store" THEN DatabaseInit ELSE NoDatabase
  /\ IF part = "rpc" THEN RpcInit ELSE NoRpc
  /\ IF part = "options" THEN OptionsInit ELSE NoOptionsPart
  /\ IF part = "bt" THEN BtInit ELSE NoBt
  /\ IF part = "rates" THEN RatesInit ELSE rates = 0

FrontendNext ==
  /\ UNCHANGED part
  /\ IF part = "store" THEN DatabaseNext ELSE UNCHANGED databaseVars
  /\ IF part = "rpc" THEN RpcNext ELSE UNCHANGED rpcVars
  /\ IF part = "options" THEN OptionsNext ELSE UNCHANGED optionVars
  /\ IF part = "bt" THEN BtNext ELSE UNCHANGED btVars
  /\ IF part = "rates" THEN RatesNext ELSE UNCHANGED rates
frontendVars == <<part, databaseVars, rpcVars, optionVars, btVars, rates>>
FrontendSpec == FrontendInit /\ [][FrontendNext]_frontendVars

---------------------------------------------------------------------------------
\* The RPC service's accounts are exact, an answer tells what was carried out
\* and a subscriber is told the truth (BudgetExact, AnswersTellWhatRan,
\* EventsHonest; rpc_budget.rs, http_rpc.rs, rpc_events.rs).
RpcSound == part = "rpc" => BudgetExact /\ AnswersTellWhatRan /\ EventsHonest
\* What was configured, added and changed is what tasks have, and what is
\* stored gives it back (AnswersStand, StoredRestores, TasksKeep, SourcesTrue,
\* AcceptedAdmits; configuration.rs, transfer_task.rs).
TaskOptionsSound == part = "options" => OptionsSound
\* The BitTorrent lane: a clean row describes the disk, an answer comes after
\* the torrent is gone, outputs stay apart, rows match terminal records, a
\* stop is whole, nothing is stale, and the bandwidth total holds
\* (CleanMeansWhole, DrainedAfterRemoval, OutputsDisjoint, TerminalHasRows,
\* StoppedWhole, NeverStale, RatesWithin; http_control/bittorrent.rs).
BtSound ==
  /\ part = "bt" => /\ BtTypeOK /\ CleanMeansWhole /\ DrainedAfterRemoval
                    /\ OutputsDisjoint /\ TerminalHasRows /\ StoppedWhole
                    /\ NeverStale
  /\ part = "rates" => RatesWithin
=================================================================================
