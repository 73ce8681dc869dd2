------------------------------ MODULE TaskOptions ------------------------------
(***************************************************************************)
(* Options: the registry (ariax-config), the configuration layers and      *)
(* their replacement while calls run (http_control/configuration.rs), the  *)
(* options a task is admitted with, changed to, persisted as and restored  *)
(* from (http_control.rs, admission.rs, transfer_spec.rs,                  *)
(* transfer_task.rs), and sessions exported and imported                   *)
(* (session_file.rs).  An option map is a function from names to values;   *)
(* a value that a parser would refuse is one outside its option's range.   *)
(* The order of a change's writes is ControlPlane's.                       *)
(***************************************************************************)
EXTENDS Maps, Integers, FiniteSets, FiniteSetsExt, SequencesExt

CONSTANTS Documents,      \* given to reloadConfig: [flat, rules : <<>> or <<a sequence of [sites, stop, options]>>, lenient, expected]
          GlobalPatches,  \* option maps given to changeGlobalOption
          Additions,      \* given to addUri: [scheme, site, user, safe, options, admin]
          TaskPatches,    \* given to changeOption: [patch, restart]
          MaxEdits,           \* changes answered over the restarts
          MaxAdded, MaxSpecs  \* tasks added and, with the imported ones, in all

VARIABLES config,      \* what the control plane publishes: [flat, rpc, rules, effective, generation]
          pending,     \* the configuration or the admission being prepared, with the snapshot it is prepared from
          specs,       \* the catalogue: TransferTaskSpec by task
          rows,        \* what the session database keeps of them
          answered,    \* the configuration changes that were answered "OK": [reload, value]
          edits,       \* how many changes were answered, over the restarts
          globalRate   \* the limit the rate arbiter enforces

optionVars == <<config, pending, specs, rows, answered, edits, globalRate>>

R == INSTANCE HttpRange WITH Sources <- EmptyMap, PieceTotal <- 1, Split <- 1, MaxPerOrigin <- 1,
       MaxTotalAttempts <- 1, MaxSourceAttempts <- 1, MaxDuplicates <- 0

Get(m, n, default) == IF n \in DOMAIN m THEN m[n] ELSE default
Only(m, S) == [n \in DOMAIN m \cap S |-> m[n]]
Over(m, next) == next @@ m
Const(S, v) == [n \in S |-> v]

--------------------------------------------------------------------------------
(* The registry. *)
Mebi == 1048576
DOWNLOAD_SCOPES == {"Global", "PerDownload", "InputFile", "RpcChange", "RpcGlobal", "UrlRule"}
STARTUP_GLOBAL_DOWNLOAD == DOWNLOAD_SCOPES \cup {"Startup"}
STARTUP_ONLY == {"Startup"}
GLOBAL_LIVE == {"Global", "RpcGlobal"}
OptionDef(scopes, update, security, compat, aria2) ==
  [scopes |-> scopes, update |-> update, security |-> security, compat |-> compat, aria2 |-> aria2]

BtOptions ==
  Const({"max-overall-upload-limit", "max-upload-limit", "bt-max-peers", "enable-dht", "enable-peer-exchange",
         "seed-ratio", "seed-time"}, "BtLive")
  @@ Const({"bt-encryption", "bt-listen-address", "bt-allow-private-destinations"}, "StartupOnly")
  @@ Const({"index-out", "bt-metadata-only", "bt-save-metadata", "bt-resume-data-limit", "bt-resume-timeout",
            "bt-tracker", "bt-exclude-tracker"}, "BtRestartRequired")
  @@ Const({"follow-torrent"}, "WaitingOnly")
bt_option(n) ==
  OptionDef(CASE BtOptions[n] = "StartupOnly" -> STARTUP_ONLY
              [] n = "max-overall-upload-limit" -> GLOBAL_LIVE
              [] n \in {"enable-dht", "enable-peer-exchange"} -> STARTUP_GLOBAL_DOWNLOAD
              [] OTHER -> DOWNLOAD_SCOPES,
            BtOptions[n], IF BtOptions[n] = "StartupOnly" THEN "LocalAdmin" ELSE "Normal", "FeatureGated",
            n \notin {"bt-resume-data-limit", "bt-resume-timeout", "bt-encryption", "bt-listen-address",
                      "bt-allow-private-destinations"})

MetalinkFilters == {"metalink-language", "metalink-location", "metalink-os", "metalink-version",
                    "metalink-preferred-protocol", "metalink-enable-unique-protocol", "select-file",
                    "metadata-max-document-size", "metadata-max-files", "metadata-max-sources"}
InternalBindings == {"metadata-expansion", "verification-manifest", "metalink-file-index"}
MetadataOptions == {"realtime-chunk-checksum", "metalink-chunk-alignment", "follow-metalink", "uri-selector",
                    "server-stat-timeout"} \cup InternalBindings
FtpOptions == {"ftp-pasv", "ftp-reuse-connection", "ftp-type", "ftp-ssl", "no-netrc"}
SftpOptions == {"sftp-max-outstanding-reads", "sftp-max-read-size", "sftp-max-packet-size", "sftp-check-host-key",
                "sftp-host-key", "sftp-host-key-sha256", "ssh-host-key-md"}
ProtocolOptions == MetadataOptions \cup FtpOptions \cup SftpOptions \cup MetalinkFilters \cup {"metalink-base-uri"}
protocol_option == OptionDef(DOWNLOAD_SCOPES, "WaitingOnly", "Normal", "Partial", FALSE)
ProtectedOptions ==
  Const({"ftp-user", "ftp-passwd", "sftp-private-key-passphrase"}, "Sensitive")
  @@ Const({"netrc-path", "ftp-pasv-address", "sftp-known-hosts", "sftp-private-key", "sftp-use-agent"}, "LocalAdmin")
protected_protocol_option(n) ==
  [protocol_option EXCEPT !.security = ProtectedOptions[n], !.scopes = {"Startup", "PerDownload"}]
SchedulingOptions == {"slow-slot-policy", "slow-slot-speed-limit", "slow-slot-grace-period", "slow-slot-min-active-time",
                      "slow-slot-max-demotions", "slow-slot-readmit-after", "slow-slot-readmit-policy",
                      "retry-wait-consumes-slot"}
scheduling_option == OptionDef({"Startup", "Global", "RpcGlobal"}, "Live", "Normal", "Implemented", FALSE)

FileOptions == Const({"allow-overwrite", "continue"}, OptionDef(DOWNLOAD_SCOPES, "WaitingOnly", "Normal", "Partial", TRUE))
  @@ Const({"connect-timeout"}, OptionDef(STARTUP_GLOBAL_DOWNLOAD, "ActiveRestart", "Normal", "Partial", TRUE))
  @@ Const({"dir"}, OptionDef(STARTUP_GLOBAL_DOWNLOAD, "NewGeneration", "Normal", "Partial", TRUE))
  @@ Const({"out"}, OptionDef(DOWNLOAD_SCOPES, "NewGeneration", "Normal", "Partial", TRUE))
SplitOptions == Const({"timeout"}, OptionDef(STARTUP_GLOBAL_DOWNLOAD, "ActiveRestart", "Normal", "Partial", TRUE))
  @@ Const({"split", "max-connection-per-server", "min-split-size"},
           OptionDef(DOWNLOAD_SCOPES, "ActiveRestart", "Normal", "Partial", TRUE))
  @@ Const({"piece-length"}, OptionDef(DOWNLOAD_SCOPES, "NewGeneration", "Normal", "Partial", TRUE))
RateOptions == Const({"max-download-limit"}, OptionDef(DOWNLOAD_SCOPES, "Live", "Normal", "Partial", TRUE))
  @@ Const({"max-overall-download-limit"}, OptionDef(GLOBAL_LIVE, "Live", "Normal", "Partial", TRUE))
  @@ Const({"lowest-speed-limit"}, OptionDef(DOWNLOAD_SCOPES, "ActiveRestart", "Normal", "Partial", TRUE))
  @@ Const({"endgame-max-duplicates"}, OptionDef(DOWNLOAD_SCOPES, "ActiveRestart", "Normal", "Partial", FALSE))
retry_option(aria2) == OptionDef(DOWNLOAD_SCOPES, "WaitingOnly", "Normal", "Partial", aria2)
RetryStatusOptions == Const({"max-tries", "retry-wait"}, retry_option(TRUE))
  @@ Const({"retry-profile", "retry-on", "retry-on-http-status", "retry-on-http-status-add"}, retry_option(FALSE))
RetryWaitOptions == Const({"retry-on-http-status-remove", "retry-after", "retry-after-min", "retry-after-max",
                           "retry-backoff", "retry-max-wait"}, retry_option(FALSE))
RetryCapOptions == Const({"retry-max-attempts", "retry-max-attempts-per-mirror", "retry-max-elapsed",
                          "stale-validator-policy"}, retry_option(FALSE))
RetryOptions == RetryStatusOptions @@ RetryWaitOptions @@ RetryCapOptions
IdentityOptions == Const({"checksum"}, OptionDef(DOWNLOAD_SCOPES, "ActiveRestart", "Normal", "Partial", TRUE))
  @@ Const({"verify-mirror-identity"}, OptionDef(DOWNLOAD_SCOPES, "ActiveRestart", "Normal", "Partial", FALSE))
  @@ Const({"durability"}, OptionDef(STARTUP_GLOBAL_DOWNLOAD, "NewGeneration", "Normal", "Partial", FALSE))
ProcessOptions == Const({"require-private-permissions"}, OptionDef(STARTUP_ONLY, "StartupOnly", "LocalAdmin", "Implemented", FALSE))
  @@ Const({"rpc-secret", "rpc-user", "rpc-passwd"}, OptionDef(STARTUP_ONLY, "StartupOnly", "Sensitive", "Implemented", TRUE))
  @@ Const({"session-store", "profile", "event-backend", "disk-io-backend"},
           OptionDef(STARTUP_ONLY, "StartupOnly", "Normal", "Partial", FALSE))
CompatOptions == Const({"on-download-complete"},
                       OptionDef(STARTUP_GLOBAL_DOWNLOAD, "UnsafeCompatOnly", "UnsafeExec", "UnsafeCompat", TRUE))
  @@ Const({"enable-http-pipelining"}, OptionDef(DOWNLOAD_SCOPES, "None", "Normal", "Unsupported", TRUE))

builtin_registry ==
  [n \in DOMAIN BtOptions |-> bt_option(n)] @@ Const(ProtocolOptions, protocol_option)
  @@ [n \in DOMAIN ProtectedOptions |-> protected_protocol_option(n)] @@ Const(SchedulingOptions, scheduling_option)
  @@ FileOptions @@ SplitOptions @@ RateOptions @@ RetryOptions @@ IdentityOptions @@ ProcessOptions @@ CompatOptions
Definition(n) == {r[n] : r \in {m \in {builtin_registry} : n \in DOMAIN m}}
persisted_option_is_safe(n) == \E d \in Definition(n) : d.security = "Normal"

\* parse_option_value: the range of a number, the words of an enumeration;
\* any text for the others.
parse_status_codes(v) == v \subseteq 100..599 /\ Cardinality(v) <= 128
parse_option_value(n, v) ==
  CASE n \in {"split", "max-connection-per-server", "max-tries", "retry-max-attempts", "retry-max-attempts-per-mirror",
              "slow-slot-max-demotions"} -> v \in 1..1024
    [] n \in {"connect-timeout", "timeout"} -> v \in 1..600
    [] n \in {"retry-wait", "retry-after-min", "retry-after-max"} -> v \in 0..600
    [] n = "retry-max-wait" -> v \in 1..600
    [] n \in {"min-split-size", "piece-length"} -> v \in Mebi..(1024 * Mebi)
    [] n = "endgame-max-duplicates" -> v \in 0..8
    [] n = "sftp-max-outstanding-reads" -> v \in 1..64
    [] n = "sftp-max-read-size" -> v \in 1..Mebi
    [] n = "sftp-max-packet-size" -> v \in 1024..Mebi
    [] n \in {"slow-slot-grace-period", "slow-slot-readmit-after"} -> v \in 1..86400
    [] n \in {"max-download-limit", "max-overall-download-limit", "lowest-speed-limit"} -> v >= 0
    [] n \in {"retry-on-http-status", "retry-on-http-status-add", "retry-on-http-status-remove"} -> parse_status_codes(v)
    [] n = "retry-profile" -> v \in {"aria2", "conservative", "aggressive", "custom"}
    [] n = "slow-slot-policy" -> v \in {"off", "demote", "pause"}
    [] n \in {"sftp-check-host-key", "ftp-pasv", "ftp-ssl", "no-netrc", "sftp-use-agent"} -> v \in {"true", "false"}
    [] OTHER -> TRUE

--------------------------------------------------------------------------------
(* A task's options, typed: the ten that always have a value, the retry    *)
(* policy if any was asked for, the checksum, and what differs from the    *)
(* defaults of TransferOptions.                                            *)
BaseDefaults ==
  ("connect-timeout" :> 60) @@ ("max-connection-per-server" :> 1) @@ ("min-split-size" :> 20 * Mebi)
  @@ ("piece-length" :> Mebi) @@ ("timeout" :> 60) @@ ("max-download-limit" :> 0) @@ ("lowest-speed-limit" :> 0)
  @@ ("endgame-max-duplicates" :> 2) @@ ("split" :> 5) @@ ("verify-mirror-identity" :> "off")
TransferDefaults ==
  Const({"realtime-chunk-checksum", "follow-metalink", "follow-torrent", "ftp-pasv", "ftp-reuse-connection",
         "sftp-check-host-key"}, "true")
  @@ Const({"ftp-ssl", "no-netrc", "sftp-use-agent"}, "false") @@ ("ftp-pasv-address" :> "control-peer")
  @@ ("metalink-chunk-alignment" :> "auto") @@ ("uri-selector" :> "feedback") @@ ("server-stat-timeout" :> 86400)
  @@ ("sftp-max-outstanding-reads" :> 8) @@ ("sftp-max-read-size" :> 65536) @@ ("sftp-max-packet-size" :> 131072)
NoOptions == [base |-> BaseDefaults, retry |-> None, checksum |-> None, transfer |-> EmptyMap]

is_retry_option(n) == n \in DOMAIN RetryOptions
is_bittorrent_option(n) == n \in DOMAIN BtOptions \ {"follow-torrent"} /\ \E d \in Definition(n) : "PerDownload" \in d.scopes
is_metalink_filter(n) == n \in MetalinkFilters
handles(n) ==
  \/ is_metalink_filter(n) \/ is_bittorrent_option(n) \/ n = "follow-torrent"
  \/ n \in (MetadataOptions \ InternalBindings) \cup FtpOptions \cup SftpOptions \cup DOMAIN ProtectedOptions
set(transfer, n, v) ==
  IF n = "ftp-type" \/ (n \in DOMAIN TransferDefaults /\ v = TransferDefaults[n]) THEN Without(transfer, {n})
  ELSE Put(transfer, n, v)
is_executable_download_option(n) ==
  n \in DOMAIN BaseDefaults \cup {"dir", "out", "checksum"} \/ is_retry_option(n) \/ handles(n)
BtTaskOptions == {"max-download-limit", "max-upload-limit", "bt-max-peers", "enable-dht", "enable-peer-exchange",
                  "bt-metadata-only", "bt-save-metadata", "seed-ratio", "seed-time", "bt-resume-data-limit",
                  "bt-resume-timeout", "select-file", "out", "index-out", "bt-tracker", "bt-exclude-tracker"}
is_executable_bt_option(n) == n \in BtTaskOptions \/ n = "max-overall-upload-limit"
is_executable_global_option(n) ==
  n = "max-overall-download-limit" \/ is_executable_bt_option(n) \/ is_executable_download_option(n) \/ n \in SchedulingOptions

\* HttpRetryPolicy from option values and back.  A policy that does not
\* validate is None.
stricter_retry_cap(m, default) ==
  LET caps == {m[n] : n \in {"max-tries", "retry-max-attempts"} \cap DOMAIN m} IN IF caps = {} THEN default ELSE Min(caps)
parse_retry_options(m) ==
  LET p0 == R!from_profile(Get(m, "retry-profile", "conservative"))
      p == [p0 EXCEPT
              !.retryOn = Get(m, "retry-on", @),
              !.statuses = (Get(m, "retry-on-http-status", @) \cup Get(m, "retry-on-http-status-add", {}))
                             \ Get(m, "retry-on-http-status-remove", {}),
              !.maxAttempts = stricter_retry_cap(m, @), !.maxPerMirror = Get(m, "retry-max-attempts-per-mirror", @),
              !.baseWait = Get(m, "retry-wait", @), !.maxWait = Get(m, "retry-max-wait", @),
              !.maxElapsed = Get(m, "retry-max-elapsed", @), !.afterMin = Get(m, "retry-after-min", @),
              !.afterMax = Get(m, "retry-after-max", @), !.respect = Get(m, "retry-after", @),
              !.backoff = Get(m, "retry-backoff", @), !.stale = Get(m, "stale-validator-policy", @)]
  IN IF R!validate(p) THEN Some(p) ELSE None
retry_sanitized_entries(p) ==
  Const({"max-tries", "retry-max-attempts"}, p.maxAttempts) @@ ("retry-wait" :> p.baseWait) @@ ("retry-profile" :> p.profile)
  @@ ("retry-on" :> p.retryOn) @@ ("retry-on-http-status" :> p.statuses) @@ ("retry-after" :> p.respect)
  @@ ("retry-after-max" :> p.afterMax) @@ ("retry-after-min" :> p.afterMin) @@ ("retry-backoff" :> p.backoff)
  @@ ("retry-max-wait" :> p.maxWait) @@ ("retry-max-attempts-per-mirror" :> p.maxPerMirror)
  @@ ("retry-max-elapsed" :> p.maxElapsed) @@ ("stale-validator-policy" :> p.stale)
\* The stored form: an empty set is no list to add or to remove.
retry_from_sanitized(m) ==
  IF \E n \in {"retry-on-http-status-add", "retry-on-http-status-remove"} \cap DOMAIN m : m[n] = {} THEN None
  ELSE parse_retry_options(m)

transfer_validate(t) ==
  Get(t, "sftp-max-read-size", 65536) + 13 <= Get(t, "sftp-max-packet-size", 131072)
validate_options(o) ==
  /\ transfer_validate(o.transfer)
  /\ \A n \in DOMAIN o.base : parse_option_value(n, o.base[n])
  /\ o.base["piece-length"] \in {Mebi * 2 ^ k : k \in 0..10}
  /\ Is(o.retry) => R!validate(The(o.retry))

\* Nothing that authorizes is written.
persisted(t) == Without(t, DOMAIN ProtectedOptions \cup {"sftp-check-host-key"})
sanitized(o) ==
  o.base @@ (IF Is(o.retry) THEN retry_sanitized_entries(The(o.retry)) ELSE EmptyMap)
  @@ (IF Is(o.checksum) THEN "checksum" :> The(o.checksum) ELSE EmptyMap) @@ persisted(o.transfer)
Typed(m, retry) ==
  [base |-> Over(BaseDefaults, Only(m, DOMAIN BaseDefaults)), retry |-> retry, checksum |-> Entry(m, "checksum"),
   transfer |-> FoldSet(LAMBDA n, t : set(t, n, m[n]), EmptyMap, {n \in DOMAIN m : handles(n) \/ n \in InternalBindings \ {"metalink-file-index"}})]
from_sanitized(m) ==
  LET retry == Only(m, DOMAIN RetryOptions)
      policy == IF retry = EmptyMap THEN None ELSE retry_from_sanitized(retry)
      o == Typed(m, policy)
  IN IF /\ \A n \in DOMAIN m : n \in {"out", "metalink-file-index", "checksum"} \cup DOMAIN BaseDefaults \cup InternalBindings
                               \/ is_retry_option(n) \/ handles(n)
        /\ retry = EmptyMap \/ Is(policy)
        /\ validate_options(o)
     THEN Some(o) ELSE None
without_live_authority(o) == [o EXCEPT !.transfer = Without(@, DOMAIN ProtectedOptions \cup {"sftp-check-host-key"})]

SafeOutputs == {"name", "other"}
parse_add_options_authorized(m, admin) ==
  LET retry == Only(m, DOMAIN RetryOptions)
      policy == IF retry = EmptyMap THEN None ELSE parse_retry_options(retry)
      o == Typed(m, policy)
      Allowed(n) == /\ \E d \in Definition(n) : /\ "PerDownload" \in d.scopes
                                              /\ d.security \in {"Normal", "Sensitive"} \cup (IF admin THEN {"LocalAdmin"} ELSE {})
                    /\ is_executable_download_option(n) /\ parse_option_value(n, m[n])
  IN IF /\ \A n \in DOMAIN m \ {"pause"} : Allowed(n)
        /\ Get(m, "dir", "root") = "root" /\ Get(m, "out", "name") \in SafeOutputs
        /\ "sftp-check-host-key" \in DOMAIN o.transfer => admin
        /\ "ftp-passwd" \in DOMAIN m => "ftp-user" \in DOMAIN m
        /\ retry = EmptyMap \/ Is(policy)
     THEN Some([options |-> o, out |-> Get(m, "out", "name")])
     ELSE None
--------------------------------------------------------------------------------
(* Layers. *)
discard_inherited_retry(n, next) ==
  \/ "retry-profile" \in DOMAIN next /\ is_retry_option(n)
  \/ n = "max-tries" /\ "retry-max-attempts" \in DOMAIN next /\ "max-tries" \notin DOMAIN next
  \/ n = "retry-max-attempts" /\ "max-tries" \in DOMAIN next /\ "retry-max-attempts" \notin DOMAIN next
\* Mutant: what a later layer's retry options replace is kept.
merge_layer_keeps(current, next) == Over(current, next)
merge_layer(current, next) == Over(Without(current, {n \in DOMAIN current : discard_inherited_retry(n, next)}), next)
merge_resolved_layer(current, next) ==
  LET m == merge_layer(current, next)
      policy == parse_retry_options(Only(m, DOMAIN RetryOptions))
  IN IF \A n \in DOMAIN next : ~is_retry_option(n) THEN Some(m)
     ELSE IF ~Is(policy) THEN None
     ELSE Some(Over(Without(m, DOMAIN RetryOptions), retry_sanitized_entries(The(policy))))
Resolve(first, layers) ==
  FoldLeft(LAMBDA acc, next : IF Is(acc) THEN merge_resolved_layer(The(acc), next) ELSE None, Some(first), layers)
layer_owns_option(layer, n) ==
  \/ n \in DOMAIN layer
  \/ is_retry_option(n) /\ "retry-profile" \in DOMAIN layer
  \/ n \in {"max-tries", "retry-max-attempts"} /\ {"max-tries", "retry-max-attempts"} \cap DOMAIN layer # {}
  \/ n = "retry-on-http-status" /\ {"retry-on-http-status-add", "retry-on-http-status-remove"} \cap DOMAIN layer # {}

SlowSlotDefaults ==
  ("slow-slot-policy" :> "off") @@ ("slow-slot-speed-limit" :> 0) @@ ("slow-slot-grace-period" :> 60)
  @@ ("slow-slot-min-active-time" :> 30) @@ ("slow-slot-max-demotions" :> 3) @@ ("slow-slot-readmit-after" :> 60)
  @@ ("slow-slot-readmit-policy" :> "original-position") @@ ("retry-wait-consumes-slot" :> "true")
SlowSlotConfig_from_options(m) == Over(SlowSlotDefaults, Only(m, SchedulingOptions))
SlowSlotConfig_valid(m) == LET s == SlowSlotConfig_from_options(m) IN \A n \in DOMAIN s : parse_option_value(n, s[n])
\* Of the BitTorrent defaults only the limits are kept here.
default_global_options ==
  sanitized([NoOptions EXCEPT !.retry = Some(R!Conservative)])
  @@ Const({"max-overall-download-limit", "max-overall-upload-limit", "max-upload-limit"}, 0) @@ SlowSlotDefaults

parse_registry_options(m, scope) ==
  \A n \in DOMAIN m :
    /\ \E d \in Definition(n) :
       LET btGlobal == scope = "RpcGlobal" /\ is_executable_bt_option(n)
       IN /\ d.compat \notin {"UnsafeCompat", "Unsupported"} /\ (d.compat = "FeatureGated" => btGlobal)
          /\ scope \in d.scopes /\ d.security = "Normal"
          /\ d.update \notin {"StartupOnly", "None", "UnsafeCompatOnly"}
          /\ d.update \in {"BtLive", "BtRestartRequired"} => btGlobal
          /\ is_executable_global_option(n) /\ parse_option_value(n, m[n])
    /\ n = "sftp-check-host-key" => m[n] = "true"

validate_template(m) ==
  /\ SlowSlotConfig_valid(m) /\ \A n \in DOMAIN m : is_executable_global_option(n)
  /\ LET parsed == parse_add_options_authorized([n \in {k \in DOMAIN m : is_executable_download_option(k)} |-> m[n]], FALSE)
     IN Is(parsed) /\ Is(from_sanitized(sanitized(The(parsed).options)))
ValidTemplate(resolved) == Is(resolved) /\ validate_template(The(resolved))

\* UrlRules.  A rule that stops ends the search.
UrlRule_valid(rule) ==
  DOMAIN rule.options # {} /\ \A n \in DOMAIN rule.options :
    /\ \E d \in Definition(n) :
         /\ {"PerDownload", "UrlRule"} \subseteq d.scopes /\ d.security = "Normal"
         /\ d.compat \notin {"Unsupported", "UnsafeCompat", "FeatureGated"}
         /\ d.update \notin {"None", "StartupOnly", "UnsafeCompatOnly", "BtLive", "BtRestartRequired"}
    /\ parse_option_value(n, rule.options[n])
matching_rules(rules, uri) ==
  LET hits == SelectSeq(rules, LAMBDA r : uri.site \in r.sites)
      last == {i \in DOMAIN hits : hits[i].stop}
  IN IF rules = << >> THEN Some(<< >>)
     ELSE IF uri.scheme \notin {"http", "https"} THEN None
     ELSE Some([i \in 1..(IF last = {} THEN Len(hits) ELSE Min(last)) |-> hits[i].options])

\* parse_flat_config: an unsupported option is skipped in the lenient mode.
Skipped(doc) == {n \in DOMAIN doc.flat : doc.lenient /\ \E d \in Definition(n) : d.compat = "Unsupported"}
parse_flat_config(doc) ==
  \A n \in DOMAIN doc.flat \ Skipped(doc) :
    /\ \E d \in Definition(n) : d.compat \in {"Implemented", "Partial"} /\ d.scopes \cap {"Startup", "Global", "PerDownload"} # {}
    /\ parse_option_value(n, doc.flat[n])
parse_configuration(c, doc) ==
  LET flat == Without(doc.flat, Skipped(doc))
      rules == IF Is(doc.rules) THEN The(doc.rules) ELSE c.rules
      Options(k) == [i \in 1..k |-> rules[i].options]
      Tried(layers) == ValidTemplate(Resolve(flat, layers))
  IN /\ Is(doc.expected) => The(doc.expected) = c.generation
     /\ Is(doc.rules) => \A i \in DOMAIN rules : UrlRule_valid(rules[i])
     /\ parse_flat_config(doc)
     /\ \A n \in DOMAIN flat : \E d \in Definition(n) :
          is_executable_global_option(n) /\ "Global" \in d.scopes /\ d.security = "Normal"
     /\ \A m \in {flat} \cup {rules[i].options : i \in DOMAIN rules} : validate_template(m)
     /\ \A layers \in {<< >>} \cup {<<rules[i].options>> : i \in DOMAIN rules} \cup {Options(i) : i \in DOMAIN rules} :
          \A last \in {<< >>, <<c.rpc>>} : Tried(layers \o last)

\* prepare_configuration: the next configuration, or None.
prepare_configuration(c, change) ==
  LET doc == change.value
      flat == IF change.reload THEN Without(doc.flat, Skipped(doc)) ELSE c.flat
      rules == IF change.reload /\ Is(doc.rules) THEN The(doc.rules) ELSE c.rules
      rpc == IF change.reload THEN c.rpc ELSE merge_layer(c.rpc, change.value)
      effective == Resolve(default_global_options, <<flat, rpc>>)
  IN IF /\ IF change.reload THEN parse_configuration(c, doc) ELSE parse_registry_options(change.value, "RpcGlobal")
        /\ ValidTemplate(effective)
        /\ \A i \in DOMAIN rules : ValidTemplate(Resolve(flat, <<rules[i].options, rpc>>))
     THEN Some([flat |-> flat, rpc |-> rpc, rules |-> rules, effective |-> The(effective), generation |-> c.generation + 1])
     ELSE None

--------------------------------------------------------------------------------
(* The control plane.  One configuration change or one admission is        *)
(* prepared at a time, on another thread, from the configuration at its    *)
(* beginning; option changes of tasks come between.                        *)
FirstConfig == [flat |-> EmptyMap, rpc |-> EmptyMap, rules |-> << >>, effective |-> default_global_options, generation |-> 1]
OptionsInit ==
  /\ config = FirstConfig /\ pending = None /\ specs = << >> /\ rows = << >> /\ answered = << >> /\ edits = 0
  /\ globalRate = 0

begin_configuration(change) ==
  /\ pending = None /\ edits < MaxEdits
  /\ pending' = Some([kind |-> "config", change |-> change, ready |-> prepare_configuration(config, change)])
  /\ UNCHANGED <<config, specs, rows, answered, edits, globalRate>>
\* poll_configuration, apply_global_bandwidth and publish_configuration.
poll_configuration ==
  /\ Is(pending) /\ The(pending).kind = "config" /\ pending' = None
  /\ LET ready == The(pending).ready
     IN IF Is(ready) /\ The(ready).generation = config.generation + 1
        THEN /\ config' = The(ready) /\ globalRate' = The(ready).effective["max-overall-download-limit"]
             /\ answered' = Append(answered, The(pending).change) /\ edits' = edits + 1
        ELSE UNCHANGED <<config, globalRate, answered, edits>>
  /\ UNCHANGED <<specs, rows>>

\* merged_add_options: an imported task's options are below the RPC template.
Layers(c, explicit, rules, import) ==
  LET Download(m) == [n \in {k \in DOMAIN m : is_executable_download_option(k)} |-> m[n]]
      below == <<Download(c.flat)>> \o rules
  IN IF import THEN below \o <<explicit, Download(c.rpc)>> ELSE below \o <<Download(c.rpc), explicit>>
merged_add_options(c, explicit, uri, import) ==
  LET rules == IF Is(uri) THEN matching_rules(c.rules, The(uri)) ELSE Some(<< >>)
  IN IF Is(rules) THEN Resolve(EmptyMap, Layers(c, explicit, The(rules), import)) ELSE None

\* TransferSourceSpec: what authorizes stays in memory, and a source that
\* needed it has to be given its URI again after a restart.
NewSource(uri, o) ==
  LET ownKeys == {"ftp-user", "netrc-path", "sftp-private-key", "sftp-use-agent"} \cap DOMAIN o.transfer # {}
  IN [scheme |-> uri.scheme, site |-> uri.site, live |-> TRUE, safe |-> uri.safe,
      needs |-> ~uri.safe \/ uri.user \/ (uri.scheme \notin {"http", "https"} /\ ownKeys)]
from_persisted_sources(s) == [s EXCEPT !.live = s.safe /\ ~s.needs]
PersistedSource(s) == [s EXCEPT !.live = FALSE]
persistence_options(spec) == sanitized(spec.options) @@ ("out" :> spec.out)

\* The reference for a layered value: which layer decides, without merging
\* anything; and a session file brings back every option it holds that the
\* RPC template does not own.
Top(layers, S, from) == Max({i \in from..Len(layers) : S \cap DOMAIN layers[i] # {}} \cup {0})
Caps == {"max-tries", "retry-max-attempts"}
DecidedRetry(layers) ==
  LET k == Top(layers, {"retry-profile"}, 1)
      from == Max({1, k})
      p == R!from_profile(IF k = 0 THEN "conservative" ELSE layers[k]["retry-profile"])
      V(n, default) == LET i == Top(layers, {n}, from) IN IF i = 0 THEN default ELSE layers[i][n]
      c == Top(layers, Caps, from)
      full == Top(layers, {"retry-on-http-status"}, from)
      Changes(i, x) == x \in Get(layers[i], "retry-on-http-status-add", {}) \cup Get(layers[i], "retry-on-http-status-remove", {})
      In(x) == LET i == Max({j \in Max({from, full})..Len(layers) : Changes(j, x)} \cup {0})
               IN IF i = 0 THEN x \in V("retry-on-http-status", p.statuses)
                  ELSE x \notin Get(layers[i], "retry-on-http-status-remove", {})
  IN [p EXCEPT !.maxAttempts = IF c = 0 THEN @ ELSE Min({layers[c][n] : n \in Caps \cap DOMAIN layers[c]}),
               !.maxPerMirror = V("retry-max-attempts-per-mirror", @), !.baseWait = V("retry-wait", @),
               !.statuses = {x \in 100..599 : In(x)}]
AsDecided(c, given, import, options) ==
  LET rules == IF import /\ ~given.live THEN << >> ELSE The(matching_rules(c.rules, given))
      layers == Layers(c, given.options, rules, import)
      named == UNION {DOMAIN layers[i] : i \in DOMAIN layers}
      o == sanitized(options)
  IN /\ \A n \in named \ (DOMAIN RetryOptions \cup DOMAIN ProtectedOptions \cup {"dir", "out", "pause", "sftp-check-host-key", "ftp-type"}) :
          Get(o, n, Get(TransferDefaults, n, 0)) = layers[Top(layers, {n}, 1)][n]
     /\ options.retry = IF named \cap DOMAIN RetryOptions = {} THEN None ELSE Some(DecidedRetry(layers))
     /\ import => \A n \in DOMAIN given.options \ {"pause", "out"} : layer_owns_option(c.rpc, n) \/ Get(o, n, 0) = given.options[n]

\* Preparation::prepare for one task: its spec, or None.
Recoverable(spec, stored) ==
  /\ \A n \in DOMAIN stored : persisted_option_is_safe(n)
  /\ from_sanitized(stored) = Some(without_live_authority(spec.options))
NewSpec(c, addition, import, parsed) ==
  [options |-> parsed.options, out |-> parsed.out, active |-> FALSE, done |-> FALSE,
   source |-> IF import THEN addition.source ELSE NewSource(addition, parsed.options),
   patch |-> EmptyMap, login |-> ~import /\ addition.user, imported |-> import,
   asDecided |-> AsDecided(c, addition, import, parsed.options)]
Admissible(spec, forbidden) ==
  IF ~forbidden /\ validate_options(spec.options) /\ Recoverable(spec, persistence_options(spec)) THEN Some(spec) ELSE None
AdmitParsed(c, addition, import, parsed) ==
  IF ~Is(parsed) THEN None
  ELSE Admissible(NewSpec(c, addition, import, The(parsed)), ~import /\ addition.scheme \in {"http", "https"} /\ addition.user)
prepare(c, addition, import) ==
  LET uri == IF import /\ ~addition.live THEN None ELSE Some(addition)
      Parse(merged) == IF Is(merged) THEN parse_add_options_authorized(The(merged), addition.admin) ELSE None
  IN AdmitParsed(c, addition, import, Parse(merged_add_options(c, addition.options, uri, import)))
begin_admission(addition, import) ==
  /\ pending = None /\ Len(specs) < IF import THEN MaxSpecs ELSE MaxAdded
  /\ pending' = Some([kind |-> "add", ready |-> prepare(config, addition, import)])
  /\ UNCHANGED <<config, specs, rows, answered, edits, globalRate>>
StoredTask(spec) == [options |-> persistence_options(spec), source |-> PersistedSource(spec.source), done |-> spec.done]
finalize ==
  /\ Is(pending) /\ The(pending).kind = "add" /\ pending' = None
  /\ LET ready == The(pending).ready
     IN IF Is(ready) THEN specs' = Append(specs, The(ready)) /\ rows' = Append(rows, StoredTask(The(ready)))
        ELSE UNCHANGED <<specs, rows>>
  /\ UNCHANGED <<config, answered, edits, globalRate>>

\* A task that runs, and one that has ended; an imported one stays paused.
RunTask(g) ==
  /\ ~specs[g].active /\ ~specs[g].done /\ ~specs[g].imported
  /\ specs' = [specs EXCEPT ![g].active = TRUE]
  /\ UNCHANGED <<config, pending, rows, answered, edits, globalRate>>
EndTask(g) ==
  /\ specs[g].active /\ specs' = [specs EXCEPT ![g].active = FALSE, ![g].done = TRUE]
  /\ rows' = [rows EXCEPT ![g].done = TRUE] /\ UNCHANGED <<config, pending, answered, edits, globalRate>>

\* changeOption.  The options are rebuilt from their persisted form; a patch of
\* nothing but the task's own directory is answered without that.
changeOption(g, p) ==
  LET patch == Without(p.patch, {"dir"})
      merged == merge_layer(persistence_options(specs[g]), patch)
      o == from_sanitized(merged)
      Refused(n) == \E u \in {d.update : d \in Definition(n)} : u = "WaitingOnly" \/ (u = "NewGeneration" /\ ~p.restart)
  IN /\ edits < MaxEdits /\ parse_registry_options(p.patch, "RpcChange") /\ Get(p.patch, "dir", "root") = "root"
     /\ \/ DOMAIN patch = {} /\ UNCHANGED optionVars
        \/ /\ DOMAIN patch # {}
           /\ ~specs[g].done /\ (specs[g].active => \A n \in DOMAIN patch : ~Refused(n))
           /\ \A n \in DOMAIN merged : persisted_option_is_safe(n)
           /\ Is(o) /\ merged["out"] \in SafeOutputs
           /\ specs' = [specs EXCEPT ![g].options = The(o), ![g].out = merged["out"], ![g].patch = patch]
           /\ rows' = [rows EXCEPT ![g].options = persistence_options(specs'[g])]
           /\ edits' = edits + 1 /\ UNCHANGED <<config, pending, answered, globalRate>>

\* A restart: the configuration starts again, the tasks come from their rows.
restore(row, spec) ==
  [spec EXCEPT !.options = The(from_sanitized(row.options)), !.out = row.options["out"],
               !.source = from_persisted_sources(row.source), !.active = FALSE, !.done = row.done]
RestartOptions ==
  /\ \A g \in DOMAIN rows : Is(from_sanitized(rows[g].options))
  /\ specs' = [g \in DOMAIN rows |-> restore(rows[g], specs[g])]
  /\ config' = FirstConfig /\ pending' = None /\ globalRate' = 0 /\ answered' = << >>
  /\ UNCHANGED <<rows, edits>>

\* exportSession's document of a task and importSession of it.
export_session(g) ==
  [options |-> Without(persistence_options(specs[g]), InternalBindings), source |-> from_persisted_sources(PersistedSource(specs[g].source)),
   scheme |-> specs[g].source.scheme, site |-> specs[g].source.site, live |-> specs[g].source.safe, admin |-> FALSE]
parse_import(doc) == [doc EXCEPT !.options = Put(@, "pause", "true")]
importSession == {parse_import(export_session(g)) : g \in DOMAIN specs}

OptionsNext ==
  \/ \E change \in [reload : {TRUE}, value : Documents] \cup [reload : {FALSE}, value : GlobalPatches] : begin_configuration(change)
  \/ poll_configuration
  \/ \E import \in BOOLEAN : \E a \in IF import THEN importSession ELSE Additions : begin_admission(a, import)
  \/ finalize
  \/ \E g \in DOMAIN specs : RunTask(g) \/ EndTask(g) \/ \E p \in TaskPatches : changeOption(g, p)
  \/ RestartOptions

--------------------------------------------------------------------------------
(* What must hold. *)
\* What was answered is in force: the last document and the last rules as
\* they are, every patch until a later one takes its place, and the rate.
AnswersStand ==
  LET reloads == {i \in DOMAIN answered : answered[i].reload}
      ruled == {i \in reloads : Is(answered[i].value.rules)}
      Patch(i) == answered[i].value
      Later(i, n) == \E j \in (i + 1)..Len(answered) : ~answered[j].reload /\ layer_owns_option(Patch(j), n)
      Stands(i, n) == IF n \in Caps THEN config.effective[n] = Min({Patch(i)[m] : m \in Caps \cap DOMAIN Patch(i)})
                      ELSE IF n \in {"retry-on-http-status", "retry-on-http-status-add"}
                      THEN Patch(i)[n] \subseteq config.effective["retry-on-http-status"]
                      ELSE config.effective[n] = Patch(i)[n]
  IN /\ config.generation = Len(answered) + 1
     /\ config.flat = IF reloads = {} THEN EmptyMap ELSE LET d == answered[Max(reloads)].value IN Without(d.flat, Skipped(d))
     /\ config.rules = IF ruled = {} THEN << >> ELSE The(answered[Max(ruled)].value.rules)
     /\ \A i \in DOMAIN answered : ~answered[i].reload => \A n \in DOMAIN Patch(i) : Later(i, n) \/ Stands(i, n)
     /\ globalRate = config.effective["max-overall-download-limit"]
\* dumpConfig names the layer a value comes from.
SourcesTrue ==
  \A n \in DOMAIN config.effective :
    \/ layer_owns_option(config.rpc, n)
    \/ config.effective[n] = (IF layer_owns_option(config.flat, n) THEN The(Resolve(default_global_options, <<config.flat>>))
                              ELSE default_global_options)[n]
\* A configuration that was accepted lets an HTTP download be added.
AcceptedAdmits ==
  \A site \in (UNION {config.rules[i].sites : i \in DOMAIN config.rules}) \cup {"elsewhere"} :
    LET a == [scheme |-> "http", site |-> site, user |-> FALSE, safe |-> TRUE, options |-> EmptyMap, admin |-> FALSE]
    IN Len(The(matching_rules(config.rules, a))) <= 1 => Is(prepare(config, a, FALSE))
\* What is stored gives back the task without what authorizes it, is safe
\* to store, and leaves no URI to a source that needed credentials.
StoredRestores ==
  \A g \in DOMAIN rows :
    /\ from_sanitized(rows[g].options) = Some(without_live_authority(specs[g].options))
    /\ \A n \in DOMAIN rows[g].options : persisted_option_is_safe(n) /\ n # "sftp-check-host-key"
    /\ LET s == from_persisted_sources(rows[g].source) IN s.live => ~specs[g].login
\* A task has what the layers decided when it was admitted, and after that
\* what it was last patched to.
TasksKeep ==
  \A g \in DOMAIN specs :
    /\ specs[g].asDecided
    /\ \A n \in DOMAIN specs[g].patch \ {"retry-on-http-status-add", "retry-on-http-status-remove"} :
         Get(persistence_options(specs[g]), n, Get(TransferDefaults, n, 0))
           = IF n \in Caps THEN Min({specs[g].patch[k] : k \in Caps \cap DOMAIN specs[g].patch}) ELSE specs[g].patch[n]

\* The options of a process and of its tasks, over configuration changes,
\* admissions, option changes, restarts and imported sessions.  What is
\* about the configuration alone is asked while there is no task.
OptionsSound ==
  /\ AnswersStand /\ StoredRestores /\ TasksKeep
  /\ specs = << >> /\ pending = None => SourcesTrue /\ AcceptedAdmits

================================================================================
