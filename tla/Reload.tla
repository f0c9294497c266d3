------------------------------- MODULE Reload -------------------------------
(***************************************************************************)
(* The reload contract (config/reload.rs): which fields a running daemon   *)
(* takes from a new file, which it refuses to change, and what it sized    *)
(* once, from the file it was started with (runtime/mod.rs, cache/mod.rs,  *)
(* dns/server.rs).                                                         *)
(*                                                                         *)
(* The operator's file is any member of Files; Contents says which         *)
(* configuration it spells out.                                            *)
(***************************************************************************)
EXTENDS Config, FiniteSets

CONSTANTS Files, Contents, NotRunning

\* serde: a duration is a number, whatever the file says.
ASSUME ContentsAssumption ==
    \A file \in Files : Contents[file].cache.failure_min_ttl \in Nat

VARIABLE daemon     \* NotRunning, or [started |-> a file, live |-> a file]

At(c, leaf) == c[leaf[1]][leaf[2]]
Fields(t, names) == {<<t, f>> : f \in names}

-----------------------------------------------------------------------------
(* The contract.                                                           *)

\* One member per check of restart_required, and per entry of MUTATIONS.
RestartGroups ==
    {Fields("server", {"udp_listen"}), Fields("server", {"tcp_listen"}),
     Fields("udp", {"reuse_port"}), Fields("udp", {"workers_per_socket"}),
     Fields("udp", {"recv_buffer_bytes"}), Fields("udp", {"send_buffer_bytes"}),
     Fields("metrics", {"enabled", "listen"}),
     Fields("admin", {"enabled", "socket", "socket_mode"}),
     Fields("resources", {"worker_threads"}), Fields("resources", {"max_blocking_threads"}),
     Fields("resources", {"max_inflight_queries"}),
     Fields("resources", {"max_inflight_upstream"}),
     Fields("resources", {"systemd_watchdog"}),
     Fields("cache", {"max_memory_bytes", "failure_max_entries", "variant_max_memory_bytes"}),
     Fields("cache", {"quality_max_entries"}),
     Fields("serve_stale", {"enabled", "max_stale"}) \cup Fields("cache", {"internal_max_ttl"}),
     Fields("prefetch", {"hot_set_size", "transition_table_size", "transition_prediction"}),
     Fields("probe", {"queue_size"}), Fields("dnssec", {"max_concurrent_validations"}),
     Fields("cloudflare", {"candidate_pool_max"}),
     Fields("sampling", {"seed", "buckets_per_prefix", "exploit_fraction"}),
     Fields("storage", {"enabled", "path", "queue_size"}), Fields("logging", {"level", "json"})}

restart_required(old, new) == {g \in RestartGroups : \E l \in g : At(old, l) # At(new, l)}

RELOADABLE ==
    Fields("root", {"upstreams", "proxies"}) \cup Fields("tls", DOMAIN UpstreamTlsConfig) \cup
    Fields("admin", {"max_request_bytes"}) \cup
    Fields("cache", {"failure_max_ttl", "failure_min_ttl", "negative_max_ttl"}) \cup
    Fields("cloudflare", {"allow_domains", "deny_domains", "enabled", "mode", "probe_hosts",
                          "static_candidates"}) \cup
    Fields("augment", DOMAIN AugmentConfig) \cup
    Fields("official", DOMAIN OfficialPrefixConfig) \cup
    Fields("sampling", {"addresses_per_round", "enabled", "max_new_candidates_per_hour",
                        "round_interval"}) \cup
    Fields("seeds", DOMAIN SeedConfig) \cup Fields("datasets", DOMAIN DatasetsConfig) \cup
    Fields("dnssec", {"corroborate_negative", "extended_errors", "max_validation_depth", "mode",
                      "proof_completion_timeout", "trust_anchor_file", "trust_upstream_ad",
                      "validation_cache_entries"}) \cup
    Fields("ecs", {"mode"}) \cup Fields("egress", {"ipv4", "ipv6"}) \cup
    Fields("local", {"hosts", "zones", "suffix_rules", "local_ttl"}) \cup
    Fields("logging", {"query_log", "query_log_sample"}) \cup
    Fields("metrics", {"allow_non_loopback"}) \cup Fields("network", DOMAIN NetworkConfig) \cup
    Fields("prefetch", {"enabled", "global_qps", "min_hits", "per_key_min_interval",
                        "trigger_fraction", "warm_on_start"}) \cup
    Fields("probe", DOMAIN ProbeConfig \ {"queue_size"}) \cup
    Fields("ranking", DOMAIN RankingConfig) \cup
    Fields("serve_stale", {"client_timeout", "include_ede", "retry_interval"}) \cup
    Fields("server", {"allow_from", "any_policy", "deny_from", "foreground_budget",
                      "special_use"}) \cup
    Fields("rate_limit", DOMAIN RateLimitConfig) \cup Fields("tcp", DOMAIN TcpConfig) \cup
    Fields("udp", {"max_payload", "non_edns_max_payload"}) \cup
    Fields("storage", {"flush_interval", "max_candidate_rows", "max_hot_rows",
                       "max_quality_rows", "row_max_age"}) \cup
    Fields("ttl", DOMAIN TtlConfig)

\* every_config_path_is_classified_exactly_once, and the catalogue names each group once.
ASSUME Classified ==
    /\ RELOADABLE \cup UNION RestartGroups = Leaves
    /\ RELOADABLE \cap UNION RestartGroups = {}
    /\ \A g, h \in RestartGroups : g # h => g \cap h = {}

-----------------------------------------------------------------------------
(* What the daemon sized at its start.                                     *)

\* Mutant: the stale window replaces the life of the answer instead of following it.
RetentionStaleOnly(c) ==
    IF c.serve_stale.enabled THEN c.serve_stale.max_stale ELSE c.cache.internal_max_ttl

\* DnsCache::new: how long moka keeps an answer, in seconds.
Retention(c) ==
    c.cache.internal_max_ttl + (IF c.serve_stale.enabled THEN c.serve_stale.max_stale ELSE 0)

FAILURE_MAX_TTL_CEILING == 300

\* The fields the constructors, the listeners and the process set-up read once: App::
\* from_config, DnsCache::new, CloudflareState::new, Storage::open, the bind functions,
\* serve_tcp, and what the daemon does before any of them.
ReadAtStart ==
    Fields("server", {"udp_listen", "tcp_listen"}) \cup
    Fields("udp", {"reuse_port", "workers_per_socket", "recv_buffer_bytes",
                   "send_buffer_bytes"}) \cup
    Fields("tcp", {"max_connections", "max_connections_per_client"}) \cup
    Fields("metrics", {"enabled", "listen"}) \cup
    Fields("admin", {"enabled", "socket", "socket_mode"}) \cup
    Fields("resources", DOMAIN ResourceConfig) \cup
    Fields("cache", {"max_memory_bytes", "failure_max_entries", "variant_max_memory_bytes",
                     "quality_max_entries", "internal_max_ttl"}) \cup
    Fields("serve_stale", {"enabled", "max_stale"}) \cup
    Fields("prefetch", {"hot_set_size", "transition_table_size", "transition_prediction"}) \cup
    Fields("probe", {"queue_size"}) \cup Fields("dnssec", {"max_concurrent_validations"}) \cup
    Fields("cloudflare", {"candidate_pool_max"}) \cup
    Fields("sampling", {"seed", "buckets_per_prefix", "exploit_fraction"}) \cup
    Fields("storage", {"enabled", "path", "queue_size"}) \cup
    Fields("logging", {"level", "json"})

\* A constructor reads no field the contract does not name.
ASSUME ReadIsClassified == ReadAtStart \subseteq Leaves

\* What the daemon does with a field: the value it was built with, or the live one.
Effective(l) ==
    IF l \in ReadAtStart THEN At(Contents[daemon.started], l) ELSE At(Contents[daemon.live], l)

\* resolve_miss: how long the n-th failure in a row is remembered.
failure_ttl(c, streak) ==
    LET n == IF streak < 6 THEN streak ELSE 6
        t == c.cache.failure_min_ttl * 2^n
    IN IF t < c.cache.failure_max_ttl THEN t ELSE c.cache.failure_max_ttl

-----------------------------------------------------------------------------
(* The daemon.                                                             *)

ReloadInit == daemon = NotRunning

\* build_state: the trust roots and the trust anchor are read from their files.
Builds(c) == c.tls.extra_ca_files # "unreadable" /\ c.dnssec.trust_anchor_file # "unreadable"

\* The files Config::load takes, and those a state can be built from.
Loadable == {file \in Files : from_toml(Contents[file])}
Buildable == {file \in Files : Builds(Contents[file])}

\* App::build: load the file and construct everything from it.  A probe queue of no
\* capacity, which validation lets through while probing is off, panics here.
Start(file) ==
    /\ daemon = NotRunning /\ file \in Loadable /\ file \in Buildable
    /\ Contents[file].probe.queue_size > 0
    /\ daemon' = [started |-> file, live |-> file]

\* App::reload: a candidate that does not load, that changes what only a restart can
\* change or from which no state can be built is refused whole; any other replaces the
\* live configuration.
ReloadFile(file) ==
    /\ daemon # NotRunning /\ file \in Loadable
    /\ restart_required(Contents[daemon.live], Contents[file]) = {} /\ file \in Buildable
    /\ daemon' = [daemon EXCEPT !.live = file]

Stop == daemon # NotRunning /\ daemon' = NotRunning

ReloadNext ==
    \/ \E file \in Files : Start(file)
    \/ \E file \in Files : ReloadFile(file)
    \/ Stop

ReloadSpec == ReloadInit /\ [][ReloadNext]_daemon

-----------------------------------------------------------------------------
(* Properties.                                                             *)

Started == daemon # NotRunning

\* What the process was started from and what it runs are files that Config::load takes and
\* that a state can be built from.
ReloadTypeOK ==
    Started => /\ DOMAIN daemon = {"started", "live"}
               /\ {daemon.started, daemon.live} \subseteq Loadable \cap Buildable

\* However often the daemon was reloaded, a value that a constructor read once and that
\* is not declared reloadable is still the value of the live configuration, so what
\* `egressdnsctl` shows is what the process was built with.
StartedIsLive ==
    Started => \A l \in ReadAtStart \ RELOADABLE : Effective(l) = At(Contents[daemon.live], l)

\* What was sized when the process started is large enough for what a reload turns on:
\* the cache keeps an answer for as long as the live configuration may serve it stale,
\* the failure cache for as long as it may remember a failure, and a queue, a pool or a
\* sampler built while its feature was off has room once the feature is on.
SizedForWhatRuns ==
    Started => LET s == Contents[daemon.started]
                   c == Contents[daemon.live]
               IN /\ Retention(s) >= c.cache.internal_max_ttl
                  /\ c.serve_stale.enabled =>
                        Retention(s) >= c.cache.internal_max_ttl + c.serve_stale.max_stale
                  /\ FAILURE_MAX_TTL_CEILING >= c.cache.failure_max_ttl
                  /\ c.prefetch.enabled =>
                        /\ s.prefetch.hot_set_size > 0
                        /\ c.prefetch.transition_prediction =>
                              s.prefetch.transition_table_size > 0
                  /\ c.probe.enabled => s.probe.queue_size > 0
                  /\ c.cloudflare.enabled =>
                        /\ s.cloudflare.candidate_pool_max > 0
                        /\ c.sampling.enabled => s.sampling.buckets_per_prefix \in 1..MAX_SAMPLES

\* Every failure is remembered for between the configured minimum and RFC 9520's five
\* minutes, and a longer streak never for less (resolver.rs:1222-1226), under any
\* configuration that can be running.
FailuresRemembered ==
    Started => LET c == Contents[daemon.live] IN
        \A streak \in 1..8 :
            /\ failure_ttl(c, streak) \in c.cache.failure_min_ttl .. FAILURE_MAX_TTL_CEILING
            /\ failure_ttl(c, streak) <= failure_ttl(c, streak + 1)

\* Four consumers that panic on values out of order are never handed one: the clamp of a
\* client's payload size (resolver.rs:702) and of the hedge delay (health.rs:473) has a
\* range, and the channel of a connection (server.rs:506) and of the store has a place.
\* (That of the probes may have none, and then App::build panics: see Start.  A period so
\* long that no clock reaches its end, as server.rs:507 would add, is not modelled.)
NothingPanics ==
    Started => LET s == Contents[daemon.started]
                   c == Contents[daemon.live]
               IN /\ 512 <= c.udp.max_payload
                  /\ \A g \in build_upstreams(c).groups :
                        g.scheduler.hedge_min_delay <= g.scheduler.hedge_max_delay
                  /\ c.tcp.max_pipelined_queries > 0
                  /\ s.storage.enabled => s.storage.queue_size > 0

\* What runs keeps the rules docs/CONFIGURATION.md lists under "Validation rules" that
\* relate several fields (three of its rows say more than the code checks, and are left
\* out: see the README).
RunsDocumented ==
    Started => LET c == Contents[daemon.live] IN
        /\ {c.server.udp_listen, c.server.tcp_listen} # {"none"}
        /\ c.udp.workers_per_socket > 1 => c.udp.reuse_port
        /\ c.serve_stale.enabled => c.serve_stale.client_timeout < c.server.foreground_budget
        /\ \A g \in build_upstreams(c).groups :
              /\ g.servers # {}
              /\ \A s \in g.servers :
                    /\ IsEncrypted(s.transport) => s.server_name # "none"
                    /\ s.address \notin {"Documentation", "Benchmarking", "Multicast"}
        /\ c.cloudflare.enabled /\ c.cloudflare.mode = "VerifiedAugment" => c.probe.enabled
        /\ ~c.tls.quic_zero_rtt
        /\ c.ecs.mode = "FixedEgress" => "special" \notin {c.egress.ipv4, c.egress.ipv6}
        /\ c.admin.enabled => c.admin.socket_mode # "other"

\* What `validate` accepted and a process runs is sound: the clamps and channels of
\* NothingPanics get values they take, failures are remembered within their bounds and the
\* documented relations between fields hold, for what a feature that is off leaves
\* unchecked as well.
AcceptedIsSound == NothingPanics /\ FailuresRemembered /\ RunsDocumented

\* reload.rs:10-12 says of a reloadable field that "the value is read from the live
\* [`Config`] every time it is used".  The connection limits of the TCP listener are
\* declared reloadable and read once (server.rs:431-432, 477).
ReloadableIsLive ==
    Started => \A l \in RELOADABLE : Effective(l) = At(Contents[daemon.live], l)

\* docs/CONFIGURATION.md:762 says that `cache.internal_max_ttl` is "at most 86400s".
InternalTtlDocumented ==
    Started => Contents[daemon.live].cache.internal_max_ttl <= 86400
=============================================================================
